------------------------------ MODULE Listener -------------------------------
(***************************************************************************)
(* The listener of common/http (Listener.cpp) with its sessions.           *)
(*                                                                         *)
(* The acceptor's strand serialises everything: the listener's strand is   *)
(* layered on it, and the sockets it accepts, hence the sessions' strands, *)
(* are layered on the listener's.  Handlers never overlap; what can happen *)
(* in any order is which queued handler runs next.  A net::dispatch from a *)
(* session's handler to the listener therefore runs in place, and one from *)
(* the listener to a session runs in place if that session's strand is     *)
(* idle and is queued otherwise.                                           *)
(***************************************************************************)
EXTENDS Session

CONSTANT
    MaxConnections      \* HttpServerConfig::max_connections

ASSUME MaxConnectionsAssumption == MaxConnections \in Nat

VARIABLES
    sessions,               \* sessions_: the registered sessions
    shutting_down,          \* shutting_down_; the acceptor is closed with it
    shutdown_notified,      \* shutdown_notified_
    on_shutdown_complete,   \* on_shutdown_complete_ holds a callback
    posted,                 \* the callback is posted to ioc_ and has not run
    accepting,              \* the async_accept, its completion if it is queued
    strandL,                \* handlers queued on strand_
    crashed                 \* the process died of undefined behaviour

registryVars == <<sessions, shutdown_notified, on_shutdown_complete, posted>>
vars == <<sess, registryVars, shutting_down, accepting, strandL, crashed>>

Functions == {"RequestShutdown", "ForceShutdown", "SetOnShutdownComplete"}

TypeOK ==
    /\ SessionTypeOK
    /\ sessions \subseteq Conns
    /\ shutting_down \in BOOLEAN
    /\ shutdown_notified \in BOOLEAN
    /\ on_shutdown_complete \in BOOLEAN
    /\ posted \in BOOLEAN
    /\ accepting \in {"none", "pending", "ok", "error"}
    /\ strandL \in Seq(Functions)
    /\ crashed \in BOOLEAN

Init ==
    /\ SessionInit
    /\ sessions = {}
    /\ shutting_down = FALSE
    /\ shutdown_notified = FALSE
    /\ on_shutdown_complete = FALSE
    /\ posted = FALSE
    /\ accepting = "none"
    /\ strandL = << >>
    /\ crashed = FALSE

-----------------------------------------------------------------------------
(* The registry. *)

\* The notification does not wait for the sessions.
SlipSettleEarly(live, closing, callback) ==
    LET notify == closing /\ ~shutdown_notified
    IN  /\ sessions' = live
        /\ shutdown_notified' = (shutdown_notified \/ notify)
        /\ on_shutdown_complete' = (callback /\ ~notify)
        /\ posted' = (posted \/ (notify /\ callback))

\* The registry becomes `live`, then NotifyShutdownCompleteIfDrained runs.
\* closing and callback are the values shutting_down_ and
\* on_shutdown_complete_ have at that point of the handler.
Settle(live, closing, callback) ==
    LET notify == closing /\ ~shutdown_notified /\ live = {}
    IN  /\ sessions' = live
        /\ shutdown_notified' = (shutdown_notified \/ notify)
        /\ on_shutdown_complete' = (callback /\ ~notify)
        /\ posted' = (posted \/ (notify /\ callback))

\* The session is erased and nobody looks whether it was the last one.
SlipSessionClosedSilently(c) ==
    /\ sessions' = sessions \ {c}
    /\ UNCHANGED <<shutdown_notified, on_shutdown_complete, posted>>

OnSessionClosed(c) == Settle(sessions \ {c}, shutting_down, on_shutdown_complete)

\* on_close_ is called only where the socket is closed as well.
SlipOnCloseOnlyIfForced(c) ==
    /\ RunHandler(c)
    /\ IF Live(sess[c]) /\ ~Live(sess'[c]) /\ ~sess'[c].open THEN OnSessionClosed(c)
       ELSE UNCHANGED registryVars
    /\ UNCHANGED <<shutting_down, accepting, strandL, crashed>>

\* A handler of a session: if it closed the session, the on_close_ callback has
\* run OnSessionClosed in place.
SessionHandler(c) ==
    /\ RunHandler(c)
    /\ IF Live(sess[c]) /\ ~Live(sess'[c]) THEN OnSessionClosed(c)
       ELSE UNCHANGED registryVars
    /\ UNCHANGED <<shutting_down, accepting, strandL, crashed>>

-----------------------------------------------------------------------------
(* Accepting connections: the completion handler of DoAccept. *)

\* DoAccept re-arms the acceptor unless a shutdown has begun.
AcceptAgain == accepting' = IF shutting_down THEN "none" ELSE "pending"

Start ==
    /\ accepting = "none"
    /\ ~shutting_down
    /\ accepting' = "pending"
    /\ UNCHANGED <<sess, registryVars, shutting_down, strandL, crashed>>

\* HandleAcceptedSocket creates the session and runs it.  Run() is dispatched
\* from the acceptor's strand, so it starts in place only if the listener's
\* strand, and with it every session's, has nothing queued.
AcceptAdmits(c) ==
    /\ accepting = "ok"
    /\ sess[c].state = "absent"
    /\ Cardinality(sessions) < MaxConnections
    /\ \E inPlace \in BOOLEAN :
        /\ inPlace => strandL = << >> /\ \A d \in Conns : Idle(sess[d])
        /\ sess' = [sess EXCEPT ![c] = Dispatch(NewSession, "Run", inPlace)]
    /\ sessions' = sessions \cup {c}
    /\ AcceptAgain
    /\ UNCHANGED <<shutdown_notified, on_shutdown_complete, posted,
                   shutting_down, strandL, crashed>>

\* The socket of a connection over the limit is dropped.
AcceptRefuses ==
    /\ accepting = "ok"
    /\ Cardinality(sessions) >= MaxConnections
    /\ AcceptAgain
    /\ UNCHANGED <<sess, registryVars, shutting_down, strandL, crashed>>

\* Any error ends the loop.
SlipAcceptErrorEnds ==
    /\ accepting = "error"
    /\ accepting' = "none"
    /\ UNCHANGED <<sess, registryVars, shutting_down, strandL, crashed>>

\* An error is not even logged; it ends the loop only during a shutdown.
AcceptFails ==
    /\ accepting = "error"
    /\ AcceptAgain
    /\ UNCHANGED <<sess, registryVars, shutting_down, strandL, crashed>>

HandleAccept == (\E c \in Conns : AcceptAdmits(c)) \/ AcceptRefuses \/ AcceptFails

-----------------------------------------------------------------------------
(* The handlers that the public functions dispatch to the strand. *)

\* The acceptor stays open.
SlipAcceptorStaysOpen == UNCHANGED accepting

\* Closing the acceptor aborts a pending accept; one that has completed keeps
\* its result.
CloseAcceptor ==
    accepting' = IF accepting = "pending" THEN "error" ELSE accepting

RunFunction(f) ==
    /\ strandL # << >>
    /\ Head(strandL) = f
    /\ strandL' = Tail(strandL)

\* The sessions in `called` that run the dispatched handler in place.
InPlace(called) == SUBSET {c \in called : Idle(sess[c])}

DispatchAll(called, handler, inPlace) ==
    sess' = [c \in Conns |->
                IF c \in inPlace THEN Execute(sess[c], handler)
                ELSE IF c \in called THEN Post(sess[c], handler)
                ELSE sess[c]]

\* The sessions are not told.
SlipShutdownTellsNobody ==
    /\ RunFunction("RequestShutdown")
    /\ IF shutting_down THEN UNCHANGED accepting ELSE CloseAcceptor
    /\ shutting_down' = TRUE
    /\ Settle(sessions, TRUE, on_shutdown_complete)
    /\ UNCHANGED <<sess, crashed>>

RequestShutdown ==
    /\ RunFunction("RequestShutdown")
    /\ IF shutting_down THEN UNCHANGED <<sess, accepting>>
       ELSE /\ CloseAcceptor
            /\ \E inPlace \in InPlace(sessions) :
                   DispatchAll(sessions, "RequestClose", inPlace)
    /\ shutting_down' = TRUE
    /\ Settle(sessions, TRUE, on_shutdown_complete)
    /\ UNCHANGED crashed

\* ForceClose() run in place erases the session from sessions_ under the
\* iterator of the loop that calls it.  Advancing that iterator is undefined:
\* the loop may go on, end early, or kill the process.  A loop that meets no
\* such session visits them all.
ForceShutdown ==
    /\ RunFunction("ForceShutdown")
    /\ shutting_down' = TRUE
    /\ IF shutting_down THEN UNCHANGED accepting ELSE CloseAcceptor
    /\ \E visited \in SUBSET sessions : \E inPlace \in InPlace(visited) :
        /\ inPlace = {} => visited = sessions
        /\ DispatchAll(visited, "ForceClose", inPlace)
        /\ Settle(sessions \ inPlace, TRUE, on_shutdown_complete)
        /\ \/ UNCHANGED crashed
           \/ inPlace # {} /\ crashed' = TRUE

SetOnShutdownComplete ==
    /\ RunFunction("SetOnShutdownComplete")
    /\ Settle(sessions, shutting_down, TRUE)
    /\ UNCHANGED <<sess, shutting_down, accepting, crashed>>

ListenerHandler == RequestShutdown \/ ForceShutdown \/ SetOnShutdownComplete

-----------------------------------------------------------------------------
(* The environment: clients, the network, and calls from other threads. *)

\* A client is accepted while there is one left to connect; accepting may also
\* fail (ECONNABORTED, EMFILE, ...).
CompleteAccept ==
    /\ accepting = "pending"
    /\ \/ (\E c \in Conns : sess[c].state = "absent") /\ accepting' = "ok"
       \/ accepting' = "error"
    /\ UNCHANGED <<sess, registryVars, shutting_down, strandL, crashed>>

CompleteOperation(c) ==
    /\ Complete(c)
    /\ UNCHANGED <<registryVars, shutting_down, accepting, strandL, crashed>>

Enqueue(f) ==
    /\ strandL' = Append(strandL, f)
    /\ UNCHANGED <<sess, registryVars, shutting_down, accepting, crashed>>

\* CallBounds: a function is called again only when its last call, and what
\* that one dispatched to the sessions, has run.
CallFunction(f) ==
    /\ \A i \in DOMAIN strandL : strandL[i] # f
    /\ f = "ForceShutdown" => \A c \in Conns : CallBound(sess[c], "ForceClose")
    /\ Enqueue(f)

\* Everything the io threads may do once the listener has been started.
Serve ==
    \/ CompleteAccept
    \/ HandleAccept
    \/ ListenerHandler
    \/ \E c \in Conns : CompleteOperation(c) \/ SessionHandler(c)

Crash == crashed /\ UNCHANGED vars

Next ==
    \/ ~crashed /\ (Start \/ Serve \/ \E f \in Functions : CallFunction(f))
    \/ Crash

\* The io threads run the queued handlers and operations complete; nobody is
\* obliged to connect or to call.
Fairness ==
    /\ \A c \in Conns :
        /\ WF_vars(~crashed /\ CompleteOperation(c))
        /\ WF_vars(~crashed /\ SessionHandler(c))
    /\ WF_vars(~crashed /\ HandleAccept)
    /\ WF_vars(~crashed /\ ListenerHandler)

Spec == Init /\ [][Next]_vars /\ Fairness

-----------------------------------------------------------------------------
(* What the listener promises. *)

\* The registry never holds more sessions than max_connections, whatever the
\* order of admissions, closes and shutdowns (Listener.cpp:143).
CapacityRespected == Cardinality(sessions) <= MaxConnections

\* sessions_ is exactly the set of the live sessions: none leaks after it has
\* closed, and none is erased that may still serve (Listener.cpp:93, 126-129;
\* Session.cpp:148-151, 172-174).
RegistryMatchesSessions == sessions = {c \in Conns : Live(sess[c])}

\* The drain is noticed in the very handler that completes it: there is no
\* state where the shutdown has begun, the registry is empty and the
\* notification is still to come, which no later event would bring
\* (Listener.cpp:64, 79, 94, 98-102).
DrainIsNoticed == shutting_down /\ sessions = {} => shutdown_notified

\* What an accept that completed just before the acceptor was closed can do to
\* a drain: one session may be registered after the notification, no more
\* (Listener.cpp:58, 164-169).
OneLateSession ==
    shutdown_notified
        => /\ shutting_down
           /\ accepting # "pending"
           /\ Cardinality(sessions) <= (IF accepting = "ok" THEN 0 ELSE 1)

\* The listener implements the drain protocol.
Drain == INSTANCE DrainProtocol WITH
    live <- sessions,
    admitted <- {c \in Conns : sess[c].state # "absent"},
    onDoorstep <- accepting = "ok",
    draining <- shutting_down,
    notified <- shutdown_notified

\* Capacity, the single late admission and the notification given in the step
\* that completes the drain, over the whole life of the listener
\* (Listener.cpp:52-109, 133-171).
ImplementsDrain == Drain!DrainSpec

\* "forcing close" (main.cpp:117): the handler of ForceShutdown closes every
\* registered session, or has told it to close, and returns.
ForceReachesEverySession ==
    [][strandL # << >> /\ Head(strandL) = "ForceShutdown" /\ strandL' = Tail(strandL)
          => /\ ~crashed'
             /\ \A c \in sessions : \/ sess'[c].state = "kClosed"
                                    \/ ~CallBound(sess'[c], "ForceClose")]_vars

\* A shutdown that has begun comes to its end, however clients behave: the drain
\* is noticed to be complete, and the accept loop, whose handler holds the
\* listener, is not re-armed (Listener.cpp:52-66, 98-109, 156-169).
ShutdownCompletes ==
    shutting_down ~> (shutdown_notified /\ accepting = "none") \/ crashed
=============================================================================
