# ECommercePlatform in TLA+

TLA+ models of the HTTP server of ECommercePlatform (`common/http`), of the
service built on it (`services/CreateOrdersService`), of its client
(`services/CreateOrdersClientService`) and of the report
`services/ProcessOrdersService`; their TLC configurations, and TLAPS proofs about
them. Paths below are relative to the repository root.

## 1. The system

### Components

| component | state | operations | talks to |
|---|---|---|---|
| `Session` (`common/http/src/Session.cpp`) | `state_` (open, closing, closed), `requests_handled_`, one `parser_`, one `buffer_`, the socket and its deadline | `Run`, `RequestClose`, `ForceClose`; handlers of read and write | called by the listener through its strand; calls `on_close_` |
| `Listener` (`Listener.cpp`) | `sessions_`, `shutting_down_`, `shutdown_notified_`, `on_shutdown_complete_`, the acceptor | `Start`, `RequestShutdown`, `ForceShutdown`, `SetOnShutdownComplete`; accept handler; `OnSessionClosed` | dispatches to sessions, posts the callback to `ioc_` |
| `main` (`CreateOrdersService/main.cpp`) | `shutdownTimer`, `shutdownStarted`, the signal set, the io threads | `beginShutdown`, the timer's handler, the shutdown callback | listener, `ioc.stop()` |
| `RouteTrie` (`RouteTrie.cpp`, `PathParamType.hpp`) | the trie of segments, handlers per method | `AddRoute`, `FindRoute`, `GetAllRoutes` | filled by the controllers through `Router`, then read for every request |
| `Router`, error mapping, `HttpHelpers` | none beyond the trie | `Route`, `AddRoute` | sessions call `Route`; calls controllers through a `weak_ptr` |
| controllers (`IController.hpp`, `RouteDSL.hpp`, `OrdersController.cpp`) | none | `RegisterRoutes`, one handler per route | router, typed parameters |
| typed parameters (`ValueParser.hpp`, `TypedParams.hpp`) | the parameters of one request | `TryGet`, `Required` | controllers |
| `OrdersClient` and its `main` | the call it is in | one blocking request per call, on a connection of its own; an exception ends the process | the service over HTTP |
| `ProcessOrdersService` (`main.cpp`, `DbMapping.hpp`) | one transaction | three read-only queries, a line per row | Postgres, which other clients write to |
| JSON of the DTOs, docker | none | conversions no code calls, configuration | |

### How they interact

`main` starts the listener, registers the shutdown callback and runs the
`io_context` on four threads. The listener accepts a connection, creates a
session, keeps it in `sessions_` and runs it. The session reads a request, calls
the router, writes the response, and reads again or closes; when it closes it
calls `on_close_`, which erases it from `sessions_`. A signal calls
`RequestShutdown`: the acceptor is closed and each session is told to close after
its next response. When the last session has gone the callback stops the
`io_context`. If that takes ten seconds, the timer calls `ForceShutdown` and
stops the `io_context` itself.

Who can run at the same time as whom follows from the strands:

- The acceptor runs on a strand. The listener's `strand_` is made over the
  acceptor's executor, the accepted sockets get `strand_` as their executor, and
  a session's strand is made over its socket's executor. Every handler of the
  listener and of every session is thus serialised by the acceptor's strand:
  they never overlap, and a model may take each as **one atomic action**. What
  remains free is which of the queued handlers runs next.
- `net::dispatch` runs a handler in place if the caller is inside the target
  strand, and then only if that strand is not busy with queued handlers. From a
  session to the listener it always runs in place. From the listener to a
  session it runs in place *or* is queued. From outside it is queued.
- The signal handler, the timer's handler and the shutdown callback are on no
  strand. Any two of them, and any handler of a strand, may run at once on
  different io threads, so each of their calls is a step of its own.

### What is hard here

Handlers that are dispatched in place inside a loop over the registry; an accept
that has completed when the acceptor is closed; the drain that completes in
whichever handler happens to be last; `RequestClose` and `ForceClose` that arrive
while an operation is in flight, completed, or being answered; a timer racing
the callback that cancels it; `ioc.stop()` overtaking queued handlers; limits
(`max_connections`, `max_requests_per_connection`) at their boundaries; one
`buffer_` that is emptied behind every response, whatever has been read into it;
an answer that is sent before the request was read, and the reset that may
follow it; a deadline that has to serve the read and the write; a call whose
answer is lost; queries of one transaction that see different moments; a routing
table whose lookups must not depend on the order it was built in, and that keeps
the nodes of a route it rejected half way. `PROJECT.json` lists each with its
line and the properties aimed at it.

## 2. The modules

| module | what it is |
|---|---|
| `Session` | sessions as records and functions from record to record, their strands, and the network; also a specification of sessions on their own |
| `Connection` | extends `Session`: the bytes of a connection, the parser, the deadline and the client at the other end |
| `Listener` | extends `Session`: the listener with all its sessions |
| `DrainProtocol` | abstract: what a listener promises its owner |
| `OrdersService` | extends `Listener`: `main()`, the signal, the timer, the callback, the end of the process |
| `OrdersRun` | extends `Connection`: the client process, a connection per call |
| `RouteTrie` | the routing table |
| `PathText` | extends `RouteTrie`: paths as they are spelled, and the listing |
| `Router` | extends `RouteTrie`: registration, requests routed by many threads, the lifetime of the controllers |
| `TypedParams` | which words `TryGet` accepts as which type |
| `ValueText` | extends `TypedParams`: the same of texts, character by character where it matters |
| `OrdersApi` | extends `Router` and `TypedParams`: the routes and handlers of `OrdersController`, the requests of `OrdersClient` |
| `ProcessOrders` | the report, and the other clients of its database |
| `SessionProofs`, `ConnectionProofs`, `ProcessOrdersProofs` | theorems and proofs, each about the module it is named for |
| `ServiceProofs` | extends `SessionProofs`: theorems about `Listener` and about `OrdersService` |
| `RouterProofs` | theorems about `RouteTrie` and about `Router` |
| `ApiProofs` | extends `RouterProofs`: theorems about `OrdersApi` and about `ValueText` |
| `PathProofs` | extends `RouterProofs`: theorems about `PathText` |
| `DeliveryProofs` | extends `ConnectionProofs`: theorems about what a client gets to see, and about `OrdersRun` |
| `MC...` | instances for TLC |

Two specifications are refined: `Connection` implements `Session`, fairness
included, and `Listener` implements `DrainProtocol`. Two processes are shown to
keep to a specification they use: `OrdersService` that of `Listener`, `OrdersApi`
that of `Router`.

A definition called `Slip...` is a plausible mistake in the definition after it;
nothing refers to it. Put in the place of that definition, it shows that a
property can fail.

### Session

A session is a record: `state_`, `requests_handled_`, the operations in flight,
the keep-alive flag of the response being written, whether the socket was closed
by `Close(true)`, and the queue of handlers waiting on its strand.
`DoRead`, `DoWrite`, `RequestClose`, `Close`, `HandleReadError`,
`HandleReadSuccess` and `HandleWritten` are the member functions, composed as the
code calls them, so that one action `On...` is a whole handler. The data are
abstracted to what decides control flow: a read ends as a request, a timeout, an
end of stream, or another error (malformed, too large, aborted, reset); a write
ends well or not; a response keeps the connection alive or not. An operation
started on a closed socket completes with an error. Time is not modelled: an
operation may time out at any moment, so every order of a timeout and another
event is covered.

### Connection

A client's bytes are cut into units, the head of a request and its body, and
counted: those sent, those a read has taken from the socket (`pulled`), those the
parser has used or the session has thrown away (`used`). What lies between the
last two is in `buffer_`. A read parses what is in the buffer or takes what there
is in the socket; it ends with a request, a parser error (a header or a body
limit is hit at the head, a body where a head should be does not parse), an end
of stream, or when the deadline passes. `Consume` is `buffer_.consume`, behind
every response. `DoRead` arms the deadline and nothing else does, so that it also
limits the write of the response, as `beast::tcp_stream` takes it. The client may
pipeline, stop sending or reading, and leave. The socket is closed by
`Close(true)`, or after `Close(false)` when nothing holds the session any more; if
it is closed with unread data in it, the connection may be reset and the client
lose what it has not read.

Each handler is the one of `Session`, with what it does to the stream beside it,
and `ImplementsSession` checks that nothing else changes a session and that
`ConnFairness` gives the fairness `Session` assumes.

### OrdersRun

`main()` of the client makes a sequence of calls, each on a connection of its own:
it connects, writes the whole request, reads one response, closes. What fails
throws, and ends the process with exit code 1 without a further call. The server
is any number of sessions of `Connection`, whose owner may close them at any
moment.

### Listener

State as in the code; `posted` is the callback posted to `ioc_`, `strandL` the
queue of `strand_`, `accepting` the state of the one `async_accept`. An in-place
dispatch in a loop (`InPlace`, `DispatchAll`) is a choice of which idle
sessions run their handler at once. In `ForceShutdown` an in-place `ForceClose`
erases the element under the iterator of the loop: from there on the C++ code has
undefined behaviour, and the model lets the loop go on, end early, or kill the
process (`crashed`). The accept handler runs on the acceptor's strand but outside
`strand_`, so the `Run` it dispatches starts in place only if nothing is queued
behind `strand_`.

### DrainProtocol

Live sessions, a client on the doorstep, a drain, a notification: at most
`MaxConnections` live at a time, no arrival once the drain has begun, and the
notification in the very step that first leaves nobody to wait for. `Listener`
implements it under the mapping at `Drain`: the doorstep is an accept that has
completed and is not handled. That one client may still come in after the
notification is part of the protocol because it is what the code does; run
`late_session` shows what follows.

### OrdersService

The three asynchronous activities of `main()` have a program counter each
(`signal`, `timer`, `callback`), so that handlers of the strands may run between
any two of their calls. After `ioc.stop()` no new event is delivered, the
strand a thread is running may still run what it has, and the process exits when
the handlers outside the strands have returned. Construction failure ends the
process.

### RouteTrie

A node is the sequence of edges that leads to it, as each `TrieNode` owns its
children. `AddRoute` adds the nodes up to the segment that throws, if one does,
and the handler only if none does. `FindPath` takes the static child, else the
matching parameter child of highest priority, and never goes back. Words are
already split; which of them parse as an integer or a float is given by two sets
(an integer parses as a float as well). `TrieSpec` is a table alone, any sequence
of `AddRoute` over `Patterns`; what it promises of every lookup is stated in the
module, for the paths of the constant `Paths`. `tried` is a history variable, the
arguments of all calls so far: `OrderDoesNotMatter` says that they alone tell
whether one of the calls has thrown, and if none has, where every path leads. Two
routes clash if they name a parameter of one type differently behind the same
segments (`Clash`); otherwise `Precedes` says which of two routes a path goes on
with where they part. Which call is the one that throws does depend on the order,
and so does the handler of a route that is registered twice, which is the last one's
(`bound` in `Router`).

### PathText

A text is a sequence of tokens: a slash, a brace, a colon, or a word. `SegmentsOf`
is `NormalizePath` (at most one slash off either end) and `SplitPath` (no empty
segments), the same for the path of a route and of a request;
`ParseParamSegment` reads `{name}` and `{name:type}`; `ListPath` is a line of
`GetAllRoutes`. `AddRouteText` and `FindRouteText` are the public functions.
`ListingIsReadable` says of the listing that each line, read again by
`ParseParamSegment`, is the route of its handler. It does not say that the table
can be had back from the listing, which is not so: the nodes that a rejected call
has left behind take paths away from other routes, and no line shows them.

### Router

`registering` is what is left of the loop of `RegisterRoutes`; each turn
(`AddNextRoute`) adds one route to the trie and its handler to `bound`, or ends
the loop when the trie throws. Once `serving`, a thread goes through the stages of
`Route`: `Receive` (parse and look up; the handler found is copied), `Lock`
(the `weak_ptr`), `Handler` (the controller's function, or an exception and its
mapping), `Return`. Threads interleave between any two stages, and the owner of a
controller may release it at any time after the registration. `refs` is the use
count of each controller's `shared_ptr`. The sessions of one service are
serialised and would need one thread; `Route` is a `const` function that promises
more, and the module takes it at that. A response is its error code and, as a
ghost, the handler it came from.

### TypedParams and OrdersApi

A word is a text or a number in the form `std::to_string` gives it. The widths of
`int` and `int64_t` are the constants `IntBits` and `Int64Bits`, 3 and 4 in the
run, so that the numbers at the boundaries of either width, and one beyond
`int64_t` on each side, are tried. `DoubleLimit` is the least whole number that
rounds to no finite double, 2^1024 - 2^970 in the code and 881 in the run;
`std::from_chars` refuses it and what is beyond it, as it does the fractions of
`Extremes` in `ValueText`, which are too large or too small. An integer below
the limit stands for the double nearest to it. `shown` holds the fields of a response's body that depend on the request.
`main()` registers its one controller, starts the threads only if nothing threw,
and keeps the controller: `ImplementsRouter` checks that this is a use of `Router`,
so that what is proved of `Router` holds in the service.

`ValueText` spells the words: `FromChars` is the longest beginning of a text that
is a number of the type, and `TryParseNumber` accepts it if that is the whole
text and in range. `ImplementsTypedParams` ties it to `TypedParams`: a number is
accepted under all of its spellings (a minus, zeros in front) or none. The filter
for what is not finite (`ValueParser.hpp:45`) compares texts of three characters;
`-inf` and `infinity`, which `from_chars` reads as well, pass it and are values,
while `inf` and `NaN` are refused (`tests/unit/parser/ValueParserTest.cpp:82-83`).

The client's `TestMethod` does not encode its string. With an empty string its
request is the one of `UpdateOrderName`, which refuses it for the missing
body; with a slash inside it there is no route. `ClientIsUnderstood` is
stated for strings of one segment (`OneSegment`), and says of them that the string
in the response is the one that was sent. The new name of `UpdateOrderName` is not
looked at by the handler beyond its being there, and is not in the response. The
client's ids are `int`s, so that the numbers only `int64_t` holds come from the other
requests of the run.

### ProcessOrders

The transaction is `pqxx::work`, read committed: each query sees what is committed
when it runs. Between any two steps other clients place orders, register accounts
(a user and its profile in one transaction), and delete them. A row is its id and
whether a column holds NULL; `MapRowTo` throws for it unless the member is a
`std::optional`, which only the name of a profile is. An exception ends the
process in the middle of a section.
`AccountsAreWhole` rests on one assumption about those clients, which are not in the
repository: that a user and its profile are committed together. Neither is a schema
that would ask for it; with users that have no profile it does not hold.

## 3. The runs

| run | instance | question |
|---|---|---|
| `connection` | 1 connection, up to 3 requests of 3 kinds, limit 2 | does a session survive its client and the calls of its owner between any two handlers, and what does the client get to see? |
| `listener` | 3 clients, room for 2, limit 1, symmetry | does the registry hold just the sessions that live, whatever is dispatched in place, and does the listener keep the promises of `DrainProtocol` (capacity among them)? |
| `listener_live` | 2 clients, limit 1 | is every shutdown that is asked for complete in the end, whichever handler ends up last? |
| `service` | 2 clients, room for 2, limit 1 | the process: safety, and does a signal end it? |
| `routing` | 3 `AddRoute` calls, 40 spellings of paths, 2 methods, depth 2, symmetry; slashes and words up to 5 tokens | every table, every lookup, every listing |
| `router` | 2 controllers with 3 routes each, 2 threads, symmetry | who answers which request while controllers are released? |
| `orders_api` | 8 routes, 3-bit `int`, 4-bit `int64_t`, 1 thread; values of up to 4 of 13 tokens | is each call of the client, and each request near it, answered by the method it names with the numbers it names, however they are spelled? |
| `orders_run` | 2 calls | what does the client know when it ends, and does it? |
| `process_orders` | 2 orders, 2 accounts | what may the report miss, and what cuts it off? |
| `force_reaches_sessions` | 2 clients | violated: see findings |
| `late_session` | 2 clients | violated: see findings |
| `lost_force` | 1 client | violated: see findings |

Why the bounds are enough. Sessions do not see one another: what one does to
another goes through the registry, so three clients for two places give
admission, refusal, a place freed and taken again, and two sessions in different
phases of a shutdown. In `listener` and `service` the limit of one request keeps
the state small; longer lives of a session are run `connection`, where a session
meets its limit and `RequestClose` before it, at it, and with a request more in
the socket than it will serve. There one connection is enough, as connections
share nothing; three requests are one that is answered, one that is dropped with
the buffer, and one whose answer shows that it was (`MaxScript`); the three kinds
are a request with a body that keeps the connection, one that asks to close, and
one whose length is over the limit, which is rejected at its head. `CallBounds`
and `CallBound` (a function is not called again while its last call is still
queued) bound the queues: a second queued call of the same function finds
the flags the first one set. Three routes are what it takes for a rejected
route, one it could disturb, and one in between; two segments are what it takes
for a lookup to be led astray at a node and to fail below it (`MaxCalls`,
`MaxDepth`). The spellings are those of all paths of up to two segments over a
word and four parameters, and nine odd ones: an unknown type, no type, no name,
an empty type, two colons, empty and open braces, slashes missing and doubled.
Five tokens are a slash at both ends and two in the middle of two words. In `router` the controllers overlap in every way the table knows: the
same route, the same type under another name (rejected), a route never reached;
they are registered in either order, twice, or not at all, and two threads are
what it takes to hold a controller twice or to lose it between lookup and lock.
In `orders_api` one thread is enough, as a request shares nothing with another;
requests have up to four segments, as many as the longest route, and five when the
client sends a string with a slash. The texts of values are tried before anything
is registered (`MCNext`), as they have nothing to do with a request's life; with
four tokens there are whole numbers beyond each of the three ranges, fractions beyond
that of double on either side, a sign, a digit, and a fraction or an exponent of its own,
and `-inf` and `-infinity` with something behind them. Two calls are what it takes
for a call before the one in doubt, or behind it. Two accounts are one that is
there throughout and one that comes or goes between two queries.

Deadlock is not checked in `connection` and `orders_run` (all connections closed,
the process ended), `listener` and `listener_live` (all clients gone), `routing`
(`MaxCalls` reached) and `process_orders` (the process ended), where the system
may stop. It is checked in `service` (the process ends in `Ended` or goes on), and
in `router` and `orders_api`, which always serve another request.

### Fairness

`SessionFairness` and `Fairness` assume that the io threads run the handlers that
are queued, and that an operation completes. The code justifies the second by
`expires_after` (`Session.cpp:36-38`): every read arms a deadline that also covers
the write after it. Nobody is obliged to connect, to send, or to call. In
`ConnFairness` that is all there is: a deadline that is armed passes, and cancels
the operation it is armed for; a client is obliged to nothing but to look at what
has arrived. `RunFairness` adds that the client process goes on, whose calls
block; it has no deadline of its own.
`ServiceFairness` is weaker: only the main thread, the timer and the callback make
progress; the sessions and their clients are under no obligation at all, and a
signal still ends the process, which is what the deadline in `main()` is for.

### Findings

Three properties are quoted from messages of the program and violated by it.

1. `ForceReachesEverySession`: `ForceShutdown` erases from `sessions_` inside its
   own loop (`Listener.cpp:76`, by way of `Session.cpp:173` and
   `Listener.cpp:93`) when a session closes in place.
2. `GracefulStopIsComplete`: a connection accepted just before the acceptor was
   closed is admitted after the drain was declared complete, and cut off.
3. `ForcedCloseIsDone`: `ioc.stop()` follows a `ForceShutdown()` whose handler may
   still be queued behind one another thread is running.

A fourth is a matter of luck and stated as it is: the 413 of a request that is
too long is sent before its body is read, and the socket is closed with the body
in it, so that a reset may destroy the answer (`Session.cpp:169`).
`RejectedClientIsTold` holds up to that reset; the test that expects the answer
(`tests/integration/HttpServerBehaviorIntegrationTest.cpp:210-211`) passes if the
client reads it first.

## 4. The proofs

Each theorem holds for every value of the constants that the modules' `ASSUME`s
admit. They say: the connections and the threads are finite sets, the limits
natural numbers; what parses as an integer parses as a float; patterns and paths
are sequences of segments and words; each controller has a sequence of routes and
each request one of the paths; clients send requests of the type `Requests`; the calls of
the client process are such requests, none of them malformed or over a limit; the
service has the one controller `OrdersController`, a word is a number or a text,
and what is an `int` is an `int64_t`. The inductive invariants were checked by TLC on the instances of section 3 before
they were proved.

### Sessions

`SessionProofs` proves `SessionTyped`, type correctness of the sessions: typing
lemmas for the strand and for each member function, then one step per handler.

It also proves, for every limit, that a session never has two
operations under way and, while it lives, never none (`OneOperationAtATime`), and
that it counts no request beyond its limit (`RequestsAreBounded`); a limit of 0,
which no run tries, acts as 1. The invariant is `RecordInv`. It has to know
which operation is under way: the limit holds because a read is under way only
if there is room for its request, and a write of a response that keeps the
connection only if there is room for another (`WithinLimit`). One step is not
obvious: `RequestClose` does nothing to a session that is closed, so that a
response at the limit may then say keep-alive; the socket is closed and the
response is not sent (`WriteKeepsInv`). The handlers are
proved on a session at rest (`AtRest`), which is what `PopChain` shows the head of
a strand to find; the owner's calls are beside the chain (`CallsBesideChain`). The
theorems are about `SessionSpec`; `ServiceProofs` and `ConnectionProofs` show that
the sessions of a listener and of a connection keep to it.

### Connections

`ConnectionProofs` is about scripts of any length, and any number of connections.
A connection is good (`Good`) if its session has `RecordInv`, its state is typed
(`ConnType`), and `OrderInv` holds; `ConnInv` says so of each. That the answers are
in order (`OrderOfAnswers`) is a statement about what the client has read; to
carry it the invariant follows a request from the stream to the client:

- `Left`, of a request: every unit that is left belongs to a later one. The units
  are in order (`StreamOK`), so that it stays true as the parser goes on,
  and `buffer_.consume` can only help;
- `Parsing`: the request in `parser_` is behind all responses, and what is left is
  behind it once it is complete. Without this a body that was thrown away and
  then parsed as a head could answer an earlier request again;
- `Replying`: so is the response that is being written, and its flag is that of
  the session;
- `ReadsOn`: as long as the session may come to read again (`MayRead`), all
  responses have kept the connection;
- `Arriving`: what is in the socket can be taken in as it comes. A part of a
  response can only be the last thing there, because it ends the session;
- `Numbers`: no response is of a request that was not sent.

The stream is defined by `FlattenSeq`, whose recursion no prover expands by
itself. `FlattenAppend` shows from its definition what a script that grows by a
request does to it (`StreamGrows`): that there is one function of the recursive
form, by `LeastNatural`, which says that a set of naturals that is not empty has
a least element and takes the place of an induction.

What a handler does to a session is stated once, from record to record
(`RunFlow`, `ReadOkFlow`, `ReadFailedFlow`, `WrittenFlow`, `CallsFlow`): which
operation was under way and which one is now. There is one lemma per kind of
step that says that a good connection stays good (`...Keeps`), and one per
action (`...Step`).

`StepsOfSession` shows that each step is one of `Session`: `ConnectionKeepsSession`
is the safety part of `ImplementsSession`, and `ConnectionOneOperation` and
`ConnectionRequestsBounded` follow. `OneRequestAfterClosing` needs one more
invariant, `ClosingInv`: a session that closes has counted one more request than
when it began to at most, and none more if a read may still come. It is kept
because a session that is closing never starts a read it was not already
bound for (`SessionWinds`): `DoWrite` clears the keep-alive flag.

`DeliveryProofs` is about what the client is told: that no request is lost but
early ones (`OnlyEarlyAreLost`), that a patient client has read that its
connection ends before it does (`EndWasAnnounced`), and that a rejected one has
read why (`RejectionIsTold`). Its invariant stands on `ConnInv` and has two
halves. `Delivers` follows the requests to their answers:

- `Orderly`: each request has its head in the stream, and a body is right behind
  the head it belongs to, so that what the parser finds behind a head is known;
- `Waited`: a request that is not early was sent when all earlier ones were
  answered. What is sent while an answer is out is therefore early, and so is
  whatever `buffer_` may hold when it is emptied;
- `Truthful`, `Settled`: a response that is on its way or read answers what was
  asked, and each earlier request is answered or early;
- `Passed`: as long as the session may read, every unit that was used belongs to
  a request that is being read or answered, is answered, or is early, and what a
  response will throw away is early;
- `Heading`: what is being read is the request whose head was parsed, and a parser
  error is that of its fault.

`Ends` follows the end of a connection: a response that was started covers all
that the session has taken from the socket (`Covers`, `Taken`), so that no unread
byte resets it; a session that has closed before its deadline has said so in a
response (`Ending`); a client that is at the end of its connection has read
that (`Ended`). Both halves are carried through each handler by a lemma from record
to record (`...Delivers`, `...Ends`), and through each action by one that puts them
together (`...Delivered`).

### The client process

`DeliveryProofs` also proves `CallsReturnedWereExecuted`, for a sequence of any calls: what a
process that failed may still conclude. `StepsOfConnection` shows that what `main()`
does to its connections is what clients do (`RunKeepsConnection`), so that `ConnInv`
and `DeliveryInv` hold of them. They say that the answer a call returns is that of
its handler, because its one request has no fault and is not early. They do not say
that the request was read once, by which the doubt about the last call is
bounded; that is `OneCall`: a request that was counted, or is about to be, is
the whole stream (`ReadOneCall`), so that no read ends with another one; and before it
is counted no answer of a handler is on its way or being written. `RunInv` adds where
`main()` is: calls behind it have an answer, calls before it have no connection.
The steps of the server go through `StillOneCall`, but for the read that ends with the
request (`ReadOneCall`) and the handler that counts it (`CountOneCall`).

### The listener and the process

`ServiceProofs` proves, for every finite set of clients and every limit, an
inductive invariant `IInv` and from it `ListenerTyped`, `ListenerCapacity`,
`RegistryIsExact`, `DrainNeverUnnoticed` and `AtMostOneLateSession`. None of
these is inductive alone:

- capacity needs the registry to be finite and typed;
- `RegistryMatchesSessions` needs that a handler of one session leaves the
  others alone and that no handler revives a session (lemma `HandlerStep`);
- `DrainIsNoticed` and `OneLateSession` need `AcceptorClosed`: once the shutdown
  has begun no accept is pending, so that the number of sessions that can still
  be admitted is known.

`SettleStep` is the lemma the last two rest on: what
`NotifyShutdownCompleteIfDrained` establishes at the end of whichever handler
calls it. There is one lemma per action of `Next`; `NextIInv` puts them together.
`ListenerImplementsDrain` is the refinement, action by action: each maps to a step
of `DrainProtocol` or to none, and `IInv` gives what its guards ask for.
`ListenerOneOperation` and `ListenerRequestsBounded` carry the chain of each
session through calls that are dispatched in place, in loops, by the listener.

It also proves of the process that it calls the listener only as `Listener`
allows (`ServiceImplementsListener`). For that it has to know where the three
activities of `main()` are: `ServiceInv` says that the timer and the signal go
through their phases in order (`PhasesInOrder`), that the calls on `strand_` are
those that were made and in their order (`QueueInOrder`), that nothing is forced
before it was asked for (`NothingForcedEarly`), and that the callback is
registered before anything else (`CallbackRegistered`). Beside these it carries the
two properties `NotificationIsPosted` and `AcceptsUntilShutdown`, and `FewUntold`,
from which `DrainTellsEverySession` follows: once the drain has begun, the
sessions that were not told, plus the accept that is still out, are one at most.

### The table and the router

`RouterProofs` proves four theorems of a table, whatever is added to it and
rejected: `SiblingsUnambiguous`, `OrderLeavesNoTrace`, `LookupExact` and
`AddConservative`. `TrieInv` says that nodes are sequences of edges, that a node's
ancestors are there (`NodesAreRooted`), that handlers are at nodes, that siblings
differ in their word or in their type (`SiblingsDiffer`), and that without a
rejection the routes make the nodes (`RoutesMakeNodes`). Three parts relate the
table to the history `tried`: every handler in it was asked for, and without a
rejection every call has left its handler (`HistoryIsTrue`); every node is on the path
of some call (`NodesAreTried`); and a rejection has a reason among the calls
(`RejectionHasReason`). The step that adds one is `RejectionExplained`: the sibling that
made a call throw is on the path of an earlier call, by `EdgeWasTried`, and the two
clash. The other way round, two routes that clash cannot both be in the table, since
`SiblingsDiffer` (`NoConflict`). `ShadowIsRoute` then turns the node that takes a path
away from a route into a route that precedes it, which makes of `LookupIsExact` a
statement about the routes alone, `OrderDoesNotMatter`. `FindPath` is a recursive function;
`FindPathIsReached` shows, again by `LeastNatural`, that it finds the nodes all of
whose edges were the best at their place (`Chosen`), and `ChosenMeansExact` that
these are the matching ones that nothing shadows, the words of `LookupIsExact`.
`LookupUnique` adds that a lookup finds one node at most.

`PathProofs` adds the texts, of any length and any tokens. `TextsUseTable` shows that
`TextSpec` implements `TrieSpec`, so that the four theorems hold for paths as they are
spelled. The loop of `SplitPath` is a recursive function too; `Loop` is its solution, and
`State` where it stands at the end of a text. One step is `StateAppend`, a word
without a slash is collected as it is (`StatePlain`), and behind a slash the loop
starts again (`StateRestarts`). The last gives `SlashesSeparate`: the segments of a
path are those before a slash and then those behind it, so that slashes at the
ends or in a row make no difference, and that `NormalizePath` takes two of them off
makes none (`NormalizeIsIdle`). `ListingReadable` needs besides that a route
that was accepted has only edges that are shown as they were given (`AcceptedIsListed`,
`EdgeIsRead`): a name holds no colon, since it ends at the first one, and a type that
is not known was rejected. `LineSplits` follows the walk of `GetAllRoutes` down to
the node. That no two lines are the same follows, since each is read as its own route.

It also proves, for any controllers, routes and requests and any finite set
of threads, that use counts are exact (`UseCountsAreExact`), that 503 is
answered only for released controllers (`OnlyReleasedIsUnavailable`) and that no
handler of a controller starts once it is released and none runs (`ReleasedForGood`):
every step but `Lock` starts none (`StartsByLock`), and by the exact counts `Lock` finds
a count of 0. The invariant is
`LInv`: the exact use counts, the entries of the table and of the threads naming
controllers, and "answered 503 implies released", which is inductive only
together with the counts: a failed lock means a count of 0, hence no owner. All
steps of a thread go through one lemma, `CountStep`, which says what a change of one
thread's stage does to the set of running handlers and its cardinality.
`RouterUsesTrie` shows that `RouterSpec` implements `TrieSpec`, so that the theorems
of the table hold in the router, and `AnsweredByOwnRoute` needs them: `RouteInv`
says that `bound` names for each handler in the table the route it was registered
with, and that a thread serves what its request matches.

### The API

`ApiProofs` is about the eight routes of `OrdersController` in that table, for any
words, requests and threads, and any widths of the integers. `ApiUsesRouter` shows
that `ApiSpec` implements `RouterSpec`, so that the invariants of the router and the
table, `LInv` and `TrieInv`, hold in the service. `ApiInv` stands on them:

- `Progress`: how far the registration has come, and which routes are in the table
  by then. It has come to its end when the threads run (`ServingIsComplete`),
  because a second controller, a rejected route or an early `Serve` is not to be
  had;
- `Works`: what a thread has found is the entry of a route that its request
  matches, and what it answers is what the handler of that route may answer
  (`Handled`); 404 is the answer only if no route matches.

Two facts about the routes carry the rest. Routes of one method differ in length
(`RoutesDiffer`), so that a request matches one at most (`RoutedOnce`). And nothing in
the complete table shadows a route (`NothingShadows`): wherever a route goes on
with a parameter, the only sibling is the static `remove_all`, which no text of an
integer is (`TextIsNoInt`). With `LookupIsExact` a lookup is then the route itself
(`LookupsAreRoutes`). `NoRouteIsHidden` follows at once; `IdsAreReadOrRefused` by
`IdIsReturned`, from what `TryGet` does with a number of `int64_t` that `int` may not
hold; `ClientIsUnderstood` call by call (`CallIsUnderstood`).

`SpellingsAreRead` is about `TextSpec`, which spells texts of any tokens and any
length, for any widths of the integers. It needs no invariant but that `text` is a
sequence: `ImplementsTypedParams` holds of every sequence. `WholeIsRead` is the step
it stands on: the longest beginning that is a number is the whole text, or what is
left over makes `TryParse` return nothing. What the digits add up to need not be known for
that, whatever the text: `NumberOf` is one number on both sides. Only for a text of
one token, as truth values are, its fold is computed (`NumberOfOne`, `SizeOfOne`).

### The report

`ProcessOrdersProofs` proves `SectionsComplete` and `AccountsWhole`. Both rest on
ids being given out once: whatever the process has seen has an id that is issued
(`SeenIsIssued`, `RowsIssued`), so that a row that is in a table now and
was seen before was there throughout. `Completing` says that such a row is printed
or among the rows of the current result, `Whole` the same of the profile of each
user that was printed. `Printing` is what keeps a row from having two lines;
that a result has each row once is `ResultIsTable`, which counts: an injection
between finite sets of one cardinality is onto.

### Only model-checked

- `SlashesOnlySeparate`, which compares `SegmentsOf` with a second definition of the
  same. `SlashesSeparate` says it without one, for texts of any length. That
  `NumberOf` is the number that the digits spell is defined so (`FoldLeft`), not proved.
- Liveness (`EveryConnectionCloses`, `ProcessEnds` and the others), and the fairness that is part of
  `ImplementsSession`: the installed provers do not do fairness.

`ListenerCapacity` and `LookupUnique` are proved and not properties of a run. The
first follows there from `ImplementsDrain`; the second says how to read
`LookupIsExact`, whose set has one element at most.

## 5. Not modelled

- Bytes below a head and a body: how a header is parsed, chunks, partial writes. A
  response that was cut off is one outcome of a write.
- Time: deadlines expire at any moment after they are armed.
- The text of a URL: percent-encoding, characters with a meaning in it, and
  values that are not UTF-8, which make the JSON of a response throw (500).
- The value of a fraction. Which fractions are out of range is given by the constant
  `Extremes`, as `std::from_chars` decides it.
- What is printed: `PrintAllRoutes`, `PrintResponse`, the log.
- `shutdownTimer` is armed on one thread and cancelled on another without a
  lock (`CreateOrdersService/main.cpp:92, 108`): the model has every order of the
  two calls, not their overlap.
- A second signal: `signals.async_wait` is armed once (`main.cpp:124`), so it does
  nothing. Two parameters of one name on a path: the last value stays
  (`RouteTrie.cpp:169`); no route has them.
- `ProduceMessage` and `ConsumeMessage` (Kafka) and the JSON conversions of the
  DTOs: no code calls them. The containers of `docker/` are configuration.

## 6. Plan

1. `Session`, `Listener`, `DrainProtocol`, `OrdersService`, `RouteTrie`, `Router`,
   `TypedParams`, `OrdersApi`: done, with the proofs of section 4.
2. `PathText`, `Connection`, `OrdersRun`, `ValueText`, `ProcessOrders`: done.
3. Proofs of the sessions, connections, the client process, the listener, the
   service, the table, the router, the API and the report: done as far as section 4
   says.
