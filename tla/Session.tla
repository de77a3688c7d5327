------------------------------- MODULE Session -------------------------------
(***************************************************************************)
(* The HTTP sessions of common/http (Session.cpp): one object per accepted *)
(* connection, driven by handlers that its strand runs one at a time and   *)
(* in FIFO order.  A session alternates one asynchronous read with one     *)
(* asynchronous write until it closes; RequestClose and ForceClose come    *)
(* from the listener at any moment in between.                             *)
(*                                                                         *)
(* One action is one strand handler, from its first to its last statement. *)
(* The bytes of a request or a response are abstracted to what decides the *)
(* control flow: the outcome of the operation and the keep-alive flag.     *)
(*                                                                         *)
(* Here and in the other modules, a definition named Slip... is a mistake  *)
(* one could make in the definition that follows it.  Nothing uses it: it  *)
(* takes the place of that definition to see which property notices.       *)
(***************************************************************************)
EXTENDS Naturals, Sequences, FiniteSets

CONSTANTS
    Conns,          \* the connections clients may open, one session each
    MaxRequests     \* SessionConfig::max_requests_per_connection

ASSUME ConnsAssumption == IsFiniteSet(Conns)
ASSUME MaxRequestsAssumption == MaxRequests \in Nat

VARIABLE
    sess            \* the session objects, a record per connection

ReadOutcomes == {"read_ok", "read_timeout", "read_eof", "read_error"}
WriteOutcomes == {"write_ok", "write_error"}
Completions == ReadOutcomes \cup WriteOutcomes
Handlers == {"Run", "RequestClose", "ForceClose"} \cup Completions

\* "absent": no Session object exists for the connection (yet).
States == {"absent", "kOpen", "kClosing", "kClosed"}

\* The bound of the requests one connection is served: the limit is tested
\* after a request has been counted, so a limit of 0 acts as 1.
RequestLimit == IF MaxRequests = 0 THEN 1 ELSE MaxRequests

SessionRecord ==
    [state     : States,                    \* state_
     requests  : Nat,                       \* requests_handled_
     ops       : SUBSET {"read", "write"},  \* async operations in flight
     keepAlive : BOOLEAN,                   \* keep_alive() of the response written
     open      : BOOLEAN,                   \* Close(true) has not closed the socket
     strand    : Seq(Handlers)]             \* handlers queued on strand_

NoSession ==
    [state |-> "absent", requests |-> 0, ops |-> {}, keepAlive |-> FALSE,
     open |-> FALSE, strand |-> << >>]

\* The object CreateSession constructs.
NewSession ==
    [state |-> "kOpen", requests |-> 0, ops |-> {}, keepAlive |-> FALSE,
     open |-> TRUE, strand |-> << >>]

\* Constructed and not closed: the sessions a listener has registered.
Live(r) == r.state \in {"kOpen", "kClosing"}

-----------------------------------------------------------------------------
(* The strand. *)

Post(r, h) == [r EXCEPT !.strand = Append(@, h)]

Pop(r) == [r EXCEPT !.strand = Tail(@)]

\* net::dispatch may run a handler in place only when nothing is queued.
Idle(r) == r.strand = << >>

-----------------------------------------------------------------------------
(* The member functions, from record to record. *)

\* An operation started on a closed socket fails at once: its completion is
\* posted with an error.
Initiate(r, op, failure) ==
    IF r.open THEN [r EXCEPT !.ops = @ \cup {op}] ELSE Post(r, failure)

DoRead(r) == Initiate(r, "read", "read_error")

RequestClose(r) == IF r.state = "kOpen" THEN [r EXCEPT !.state = "kClosing"] ELSE r

\* The limit lets one request too many through.
SlipWriteOverLimit(r, keepAlive) ==
    LET limited == IF r.requests > MaxRequests THEN RequestClose(r) ELSE r
    IN  Initiate([limited EXCEPT !.keepAlive = keepAlive /\ limited.state # "kClosing"],
                 "write", "write_error")

\* keep_alive is cleared at the limit only, not whenever the session is closing.
SlipWriteKeepsAlive(r, keepAlive) ==
    LET limited == IF r.requests >= MaxRequests THEN RequestClose(r) ELSE r
    IN  Initiate([limited EXCEPT !.keepAlive = keepAlive /\ r.requests < MaxRequests],
                 "write", "write_error")

\* From inside the strand RequestClose() runs in place, before the test of
\* state_ that clears keep_alive.
DoWrite(r, keepAlive) ==
    LET limited == IF r.requests >= MaxRequests THEN RequestClose(r) ELSE r
    IN  Initiate([limited EXCEPT !.keepAlive = keepAlive /\ limited.state # "kClosing"],
                 "write", "write_error")

\* Graceful: the socket only shuts its sending side down, and stays open.
Close(r, force) ==
    IF r.state = "kClosed" THEN r
    ELSE [r EXCEPT !.state = "kClosed", !.open = @ /\ ~force]

\* No return after Close(false).
SlipReadErrorFallsThrough(r, ec) ==
    DoWrite(IF ec \in {"read_timeout", "read_eof"} THEN Close(r, FALSE) ELSE r, FALSE)

\* Every error closes.
SlipReadErrorCloses(r, ec) == Close(r, FALSE)

\* A timeout and an end of stream close; any other error is answered with a
\* 4xx response that does not keep the connection.
HandleReadError(r, ec) ==
    IF ec \in {"read_timeout", "read_eof"} THEN Close(r, FALSE) ELSE DoWrite(r, FALSE)

\* The counter counts the requests that are left, from 0 down.
SlipReadCountsDown(r, keepAlive) ==
    DoWrite([r EXCEPT !.requests = @ - 1], keepAlive)

\* The next request is read while the response is being written.
SlipReadAhead(r, keepAlive) ==
    DoRead(DoWrite([r EXCEPT !.requests = @ + 1], keepAlive))

\* keepAlive: what the request's handler put in its response.
HandleReadSuccess(r, keepAlive) ==
    DoWrite([r EXCEPT !.requests = @ + 1], keepAlive)

\* The session is left alone when its response does not keep it alive.
SlipWrittenForgetsClose(r, ec) ==
    IF ec = "write_error" THEN Close(r, FALSE)
    ELSE IF ~r.keepAlive THEN r ELSE DoRead(r)

\* The state of the session decides, not what its response has said.
SlipWrittenTestsState(r, ec) ==
    IF ec = "write_error" \/ r.state = "kClosing" THEN Close(r, FALSE) ELSE DoRead(r)

HandleWritten(r, ec) ==
    IF ec = "write_error" \/ ~r.keepAlive THEN Close(r, FALSE) ELSE DoRead(r)

-----------------------------------------------------------------------------
(* The handlers, as actions: the head of a strand runs to completion. *)

RunHead(c, h, r) ==
    /\ sess[c].strand # << >>
    /\ Head(sess[c].strand) = h
    /\ sess' = [sess EXCEPT ![c] = r]

OnRun(c) == RunHead(c, "Run", DoRead(Pop(sess[c])))

OnRequestClose(c) == RunHead(c, "RequestClose", RequestClose(Pop(sess[c])))

OnForceClose(c) == RunHead(c, "ForceClose", Close(Pop(sess[c]), TRUE))

OnReadOk(c) ==
    \E keepAlive \in BOOLEAN :
        RunHead(c, "read_ok", HandleReadSuccess(Pop(sess[c]), keepAlive))

OnReadFailed(c) ==
    \E ec \in ReadOutcomes \ {"read_ok"} :
        RunHead(c, ec, HandleReadError(Pop(sess[c]), ec))

OnWritten(c) ==
    \E ec \in WriteOutcomes : RunHead(c, ec, HandleWritten(Pop(sess[c]), ec))

RunHandler(c) ==
    \/ OnRun(c) \/ OnRequestClose(c) \/ OnForceClose(c)
    \/ OnReadOk(c) \/ OnReadFailed(c) \/ OnWritten(c)

-----------------------------------------------------------------------------
(* The environment of a strand: the network, and the listener's calls. *)

\* The calls of a session, when they run.
Execute(r, handler) ==
    CASE handler = "Run" -> DoRead(r)
      [] handler = "RequestClose" -> RequestClose(r)
      [] handler = "ForceClose" -> Close(r, TRUE)

\* Session::Run(), RequestClose() and ForceClose(): net::dispatch runs the
\* handler in place if the strand is idle, and queues it otherwise.
Dispatch(r, handler, inPlace) == IF inPlace THEN Execute(r, handler) ELSE Post(r, handler)

Done(r, op) == [r EXCEPT !.ops = @ \ {op}]

\* Every operation has the deadline expires_after armed when its read began,
\* so it completes; an operation that races a close may complete either way.
CompleteRead(c) ==
    \E ec \in ReadOutcomes :
        /\ "read" \in sess[c].ops
        /\ sess' = [sess EXCEPT ![c] = Post(Done(@, "read"), ec)]

CompleteWrite(c) ==
    \E ec \in WriteOutcomes :
        /\ "write" \in sess[c].ops
        /\ sess' = [sess EXCEPT ![c] = Post(Done(@, "write"), ec)]

Complete(c) == CompleteRead(c) \/ CompleteWrite(c)

\* A session alone: Open constructs and runs it, and its owner calls it while
\* it is live.  CallBound: a call is not repeated while one is still queued.
CallBound(r, handler) == \A i \in DOMAIN r.strand : r.strand[i] # handler

Open(c) ==
    /\ sess[c].state = "absent"
    /\ \E inPlace \in BOOLEAN :
           sess' = [sess EXCEPT ![c] = Dispatch(NewSession, "Run", inPlace)]

Call(c) ==
    \E handler \in {"RequestClose", "ForceClose"}, inPlace \in BOOLEAN :
        /\ Live(sess[c])
        /\ inPlace => Idle(sess[c])
        /\ CallBound(sess[c], handler)
        /\ sess' = [sess EXCEPT ![c] = Dispatch(@, handler, inPlace)]

SessionInit == sess = [c \in Conns |-> NoSession]

SessionNext == \E c \in Conns : Open(c) \/ Call(c) \/ Complete(c) \/ RunHandler(c)

\* The io threads run every queued handler, and every operation completes: its
\* deadline cancels it if nothing else does.
SessionFairness ==
    \A c \in Conns : WF_sess(Complete(c)) /\ WF_sess(RunHandler(c))

SessionSpec == SessionInit /\ [][SessionNext]_sess /\ SessionFairness

-----------------------------------------------------------------------------
(* What a session promises. *)

\* The representation invariant of the session objects (Session.hpp:37-45).
SessionTypeOK == sess \in [Conns -> SessionRecord]

\* The handlers that carry on the read/write chain, as opposed to the calls of
\* the listener, which may overtake one another in any number.
Chain == Completions \cup {"Run"}

Pending(r) == {i \in DOMAIN r.strand : r.strand[i] \in Chain}

\* A session that lives has one operation in flight, or completed and not yet
\* handled.  Never a second one: parser_ and buffer_ are single objects, which
\* DoRead and the write completion reset without asking whether an operation still
\* uses them.  Never none: a path of a handler that neither starts an operation
\* nor closes would leave a session that nothing comes back to.  And one that
\* closed gracefully has nothing left to do (Session.cpp:67-145, 169).
SingleOperation ==
    \A c \in Conns :
        LET pending == Cardinality(sess[c].ops) + Cardinality(Pending(sess[c]))
        IN  /\ pending <= 1
            /\ Live(sess[c]) => pending = 1
            /\ sess[c].state = "kClosed" /\ sess[c].open => pending = 0

\* max_requests_per_connection bounds the requests handled, whatever the order
\* of reads, keep-alive responses and RequestClose calls (Session.cpp:116).
RequestBound == \A c \in Conns : sess[c].requests <= RequestLimit
=============================================================================
