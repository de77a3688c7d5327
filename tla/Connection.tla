----------------------------- MODULE Connection -----------------------------
(***************************************************************************)
(* A session together with the connection it serves and the client at the  *)
(* other end: what its reads take from the socket, what its answers say,   *)
(* and what the client gets to see of them.  Session leaves the outcome of *)
(* an operation open; here it follows from the bytes, the deadline of the  *)
(* stream and the two ends of the connection.                              *)
(*                                                                         *)
(* The stream of a client's bytes is cut into units, the head of a request *)
(* and its body; it is described by counters of units, those the client    *)
(* has sent, those the reads have taken from the socket, and those that    *)
(* the parser has used or the session has thrown away.                     *)
(***************************************************************************)
EXTENDS Session, SequencesExt

CONSTANTS
    Sendable,       \* the requests clients send
    MaxScript       \* bound: the requests a client sends

VARIABLES
    net,            \* a connection, with the session's parser_ and buffer_
    client          \* the client of a connection

connVars == <<sess, net, client>>

Faults == {"none", "malformed", "header_limit", "body_limit"}

\* keepAlive: what the request asks for, and its handler repeats.
Requests == [body : BOOLEAN, keepAlive : BOOLEAN, fault : Faults]

ASSUME SendableAssumption == Sendable \subseteq Requests
ASSUME MaxScriptAssumption == MaxScript \in Nat

\* "cut": a part of a response.
Codes == {"handled", "malformed_http_request", "header_limit_exceeded",
          "body_limit_exceeded", "cut"}

NoReply == [request |-> 0, code |-> "cut", keepAlive |-> FALSE]

NetRecord ==
    [sent     : Nat,                \* units the client has sent
     pulled   : Nat,                \* of them, those a read took from the socket
     used     : Nat,                \* of them, those that are not in buffer_
     parsing  : Nat,                \* the request whose head parser_ holds, or 0
     fault    : Faults,             \* the error of the parser
     reply    : [request : Nat, code : Codes, keepAlive : BOOLEAN],
     toClient : Seq([request : Nat, code : Codes, keepAlive : BOOLEAN]),
     deadline : {"none", "armed", "passed"},    \* expires_after
     reset    : BOOLEAN]            \* the connection was reset

NewNet ==
    [sent |-> 0, pulled |-> 0, used |-> 0, parsing |-> 0, fault |-> "none",
     reply |-> NoReply, toClient |-> << >>, deadline |-> "none", reset |-> FALSE]

\* script: the requests the client has begun to send.
\* early: those of them it sent before all answers to the earlier ones were there.
ClientRecord ==
    [stage   : {"idle", "connected", "ended", "left"},
     script  : Seq(Requests),
     answers : Seq([request : Nat, code : Codes, keepAlive : BOOLEAN]),
     early   : SUBSET Nat]

NewClient == [stage |-> "idle", script |-> << >>, answers |-> << >>, early |-> {}]

\* The units of a script, as pairs of a part and the request it belongs to.
Units(script) ==
    LET unitsOf(i) == IF script[i].body THEN <<<<"head", i>>, <<"body", i>>>>
                      ELSE <<<<"head", i>>>>
    IN  FlattenSeq([i \in DOMAIN script |-> unitsOf(i)])

Stream(c) == Units(client[c].script)

-----------------------------------------------------------------------------
(* The stream of a session, from record to record. *)

\* What DoRead does to parser_ and to the deadline.
StartRead(n) == [n EXCEPT !.parsing = 0, !.deadline = "armed"]

\* What is still in the socket goes too.
SlipConsumeSocket(n) == [n EXCEPT !.used = n.sent]

\* buffer_.consume(buffer_.size())
Consume(n) == [n EXCEPT !.used = n.pulled]

\* MakeParserError
ParserError(fault) ==
    CASE fault = "header_limit" -> "header_limit_exceeded"
      [] fault = "body_limit" -> "body_limit_exceeded"
      [] OTHER -> "malformed_http_request"

\* expires_never(): the response may take what time it wants.
SlipWriteUndated(n, request, code, keepAlive) ==
    [n EXCEPT !.reply = [request |-> request, code |-> code, keepAlive |-> keepAlive],
              !.deadline = "none"]

\* The response to be written.  The deadline stays the one of the read.
Respond(n, request, code, keepAlive) ==
    [n EXCEPT !.reply = [request |-> request, code |-> code, keepAlive |-> keepAlive]]

\* The unit parser_ is given next, and what it makes of it: a body where a head
\* should be does not parse, and a limit is hit by the head.
NextUnit(c, n) == Stream(c)[n.used + 1]

Parse(c, n) ==
    LET unit == NextUnit(c, n)
        request == client[c].script[unit[2]]
        fault == IF unit[1] = "body" /\ n.parsing = 0 THEN "malformed"
                 ELSE IF unit[1] = "head" THEN request.fault ELSE "none"
    IN  [n EXCEPT !.used = @ + 1, !.parsing = unit[2], !.fault = fault]

\* After unit, the request is complete.
RequestComplete(c, n) ==
    /\ n.parsing # 0
    /\ \/ ~client[c].script[n.parsing].body
       \/ Stream(c)[n.used][1] = "body"

-----------------------------------------------------------------------------
(* The operations of a session. *)

Finish(c, op, outcome) == sess' = [sess EXCEPT ![c] = Post(Done(@, op), outcome)]

\* async_read parses what is in buffer_, and takes from the socket whatever is
\* there if that is nothing; it goes on until the request is complete or does
\* not parse.
ReadSome(c) ==
    /\ "read" \in sess[c].ops /\ sess[c].open
    /\ \E taken \in IF net[c].used < net[c].pulled THEN {net[c].pulled}
                  ELSE (net[c].pulled + 1)..net[c].sent :
        LET one == Parse(c, [net[c] EXCEPT !.pulled = taken])
            more == one.fault = "none" /\ ~RequestComplete(c, one) /\ one.used < taken
            n == IF more THEN Parse(c, one) ELSE one
        IN  /\ net' = [net EXCEPT ![c] = n]
            /\ IF n.fault # "none" THEN Finish(c, "read", "read_error")
               ELSE IF RequestComplete(c, n) THEN Finish(c, "read", "read_ok")
               ELSE UNCHANGED sess
    /\ UNCHANGED client

\* The client has closed its end: an end of stream if the parser has nothing yet
\* and there is nothing to read, and else an error.
ReadMeetsTheEnd(c) ==
    /\ "read" \in sess[c].ops
    /\ client[c].stage = "left"
    /\ IF net[c].parsing = 0 /\ net[c].pulled = net[c].sent
       THEN \E outcome \in {"read_eof", "read_error"} : Finish(c, "read", outcome)
       ELSE Finish(c, "read", "read_error")
    /\ UNCHANGED <<net, client>>

\* The deadline has passed, or Close(true) has closed the socket.
ReadIsCancelled(c) ==
    /\ "read" \in sess[c].ops
    /\ \/ net[c].deadline = "passed" /\ Finish(c, "read", "read_timeout")
       \/ ~sess[c].open /\ Finish(c, "read", "read_error")
    /\ UNCHANGED <<net, client>>

WriteDone(c) ==
    /\ "write" \in sess[c].ops /\ sess[c].open
    /\ net' = [net EXCEPT ![c].toClient = Append(@, net[c].reply)]
    /\ Finish(c, "write", "write_ok")
    /\ UNCHANGED client

\* A part of the response may be on its way.
WriteFails(c) ==
    /\ "write" \in sess[c].ops
    /\ net[c].deadline = "passed" \/ ~sess[c].open \/ client[c].stage # "connected"
    /\ \/ net' = [net EXCEPT ![c].toClient = Append(@, NoReply)]
       \/ UNCHANGED net
    /\ Finish(c, "write", "write_error")
    /\ UNCHANGED client

Expire(c) ==
    /\ net[c].deadline = "armed"
    /\ sess[c].ops # {}
    /\ net' = [net EXCEPT ![c].deadline = "passed"]
    /\ UNCHANGED <<sess, client>>

-----------------------------------------------------------------------------
(* The handlers of a session. *)

RunStarts(c) ==
    /\ OnRun(c)
    /\ net' = [net EXCEPT ![c] = StartRead(@)]
    /\ UNCHANGED client

ReadSucceeds(c) ==
    /\ RunHead(c, "read_ok",
               HandleReadSuccess(Pop(sess[c]), client[c].script[net[c].parsing].keepAlive))
    /\ net' = [net EXCEPT ![c] = Respond(@, @.parsing, "handled", sess'[c].keepAlive)]
    /\ UNCHANGED client

ReadFails(c) ==
    /\ OnReadFailed(c)
    /\ net' = [net EXCEPT ![c] =
                   IF Head(sess[c].strand) = "read_error"
                   THEN Respond(@, @.parsing, ParserError(@.fault), FALSE) ELSE @]
    /\ UNCHANGED client

Written(c) ==
    /\ OnWritten(c)
    /\ net' = [net EXCEPT ![c] =
                   IF Head(sess[c].strand) = "write_error" THEN @
                   ELSE IF sess[c].keepAlive THEN StartRead(Consume(@))
                   ELSE Consume(@)]
    /\ UNCHANGED client

Closes(c) ==
    /\ OnRequestClose(c) \/ OnForceClose(c)
    /\ UNCHANGED <<net, client>>

StrandStep(c) ==
    RunStarts(c) \/ ReadSucceeds(c) \/ ReadFails(c) \/ Written(c) \/ Closes(c)

-----------------------------------------------------------------------------
(* The client, and the connection. *)

\* The socket is closed by Close(true), and otherwise when nothing holds the
\* session object any more.
SocketClosed(c) ==
    /\ sess[c].state = "kClosed"
    /\ ~sess[c].open \/ (sess[c].ops = {} /\ sess[c].strand = << >>)

Connect(c) ==
    /\ client[c].stage = "idle"
    /\ Open(c)
    /\ net' = [net EXCEPT ![c] = IF "read" \in sess'[c].ops THEN StartRead(@) ELSE @]
    /\ client' = [client EXCEPT ![c].stage = "connected"]

OwnerCalls(c) == Call(c) /\ UNCHANGED <<net, client>>

SendHead(c, request) ==
    /\ client[c].stage = "connected"
    /\ net[c].sent = Len(Stream(c))
    /\ Len(client[c].script) < MaxScript
    /\ LET i == Len(client[c].script) + 1
           early == Len(client[c].answers) < i - 1
       IN  client' = [client EXCEPT ![c].script = Append(@, request),
                                    ![c].early = IF early THEN @ \cup {i} ELSE @]
    /\ net' = [net EXCEPT ![c].sent = @ + 1]
    /\ UNCHANGED sess

SendBody(c) ==
    /\ client[c].stage = "connected"
    /\ net[c].sent < Len(Stream(c))
    /\ net' = [net EXCEPT ![c].sent = @ + 1]
    /\ UNCHANGED <<sess, client>>

\* A write to a socket that is closed at the other end fails, whatever there is
\* to read.
SendFails(c) ==
    /\ client[c].stage = "connected"
    /\ net[c].sent < Len(Stream(c))
    /\ SocketClosed(c)
    /\ client' = [client EXCEPT ![c].stage = "ended"]
    /\ UNCHANGED <<sess, net>>

Sends(c) == (\E request \in Sendable : SendHead(c, request)) \/ SendBody(c) \/ SendFails(c)

\* A response that is cut off is the end for the client.
Receive(c) ==
    /\ client[c].stage = "connected"
    /\ net[c].toClient # << >>
    /\ net' = [net EXCEPT ![c].toClient = Tail(@)]
    /\ LET answer == Head(net[c].toClient)
       IN  client' = [client EXCEPT
               ![c].answers = IF answer.code = "cut" THEN @ ELSE Append(@, answer),
               ![c].stage = IF answer.code = "cut" THEN "ended" ELSE @]
    /\ UNCHANGED sess

\* Nothing more comes: Close has shut the sending side down.
SeeEnd(c) ==
    /\ client[c].stage = "connected"
    /\ net[c].toClient = << >>
    /\ sess[c].state = "kClosed"
    /\ client' = [client EXCEPT ![c].stage = "ended"]
    /\ UNCHANGED <<sess, net>>

Leave(c) ==
    /\ client[c].stage = "connected"
    /\ client' = [client EXCEPT ![c].stage = "left"]
    /\ UNCHANGED <<sess, net>>

\* A socket that is closed with unread data in it, or that data reaches later,
\* resets the connection: the other side may lose what it has not read yet.
Reset(c) ==
    /\ SocketClosed(c)
    /\ ~net[c].reset
    /\ net[c].sent > net[c].pulled
    /\ \E kept \in 0..Len(net[c].toClient) :
           net' = [net EXCEPT ![c].reset = TRUE, ![c].toClient = SubSeq(@, 1, kept)]
    /\ UNCHANGED <<sess, client>>

-----------------------------------------------------------------------------

ConnInit ==
    /\ SessionInit
    /\ net = [c \in Conns |-> NewNet]
    /\ client = [c \in Conns |-> NewClient]

Operations(c) ==
    \/ ReadSome(c) \/ ReadMeetsTheEnd(c) \/ ReadIsCancelled(c)
    \/ WriteDone(c) \/ WriteFails(c) \/ Expire(c)

ClientStep(c) == Connect(c) \/ Sends(c) \/ Receive(c) \/ SeeEnd(c) \/ Leave(c)

ConnNext ==
    \E c \in Conns :
        \/ Operations(c) \/ StrandStep(c) \/ ClientStep(c) \/ OwnerCalls(c) \/ Reset(c)

\* The io threads run the handlers; the deadline passes, and then cancels what is
\* still in flight.  A peer that is slow is never obliged to anything: of the
\* client only that it reads what is there.
ConnFairness ==
    \A c \in Conns :
        /\ WF_connVars(StrandStep(c))
        /\ WF_connVars(Expire(c))
        /\ WF_connVars(ReadIsCancelled(c))
        /\ WF_connVars(WriteFails(c))
        /\ WF_connVars(Receive(c))
        /\ WF_connVars(SeeEnd(c))

ConnSpec == ConnInit /\ [][ConnNext]_connVars /\ ConnFairness

-----------------------------------------------------------------------------
(* What a connection promises. *)

\* Units are thrown away only once they are in buffer_ (Session.cpp:137).
ConnTypeOK ==
    /\ SessionTypeOK
    /\ net \in [Conns -> NetRecord]
    /\ client \in [Conns -> ClientRecord]
    /\ \A c \in Conns : net[c].used <= net[c].pulled /\ net[c].pulled <= net[c].sent

\* The answers come in the order of the requests, and nothing follows one that
\* does not keep the connection: not even what was read, answered or rejected
\* while the owner closed the session (Session.cpp:85-145).
AnswersAreInOrder ==
    \A c \in Conns : \A j, k \in DOMAIN client[c].answers :
        j < k => /\ client[c].answers[j].request < client[c].answers[k].request
                 /\ client[c].answers[j].keepAlive

Expected(request) ==
    IF request.fault = "none" THEN "handled" ELSE ParserError(request.fault)

\* The session throws away what it has read behind a request: a request may be
\* skipped, or its body taken for the next one, but only if it was sent before
\* the answers to the earlier ones were there (Session.cpp:137).
OnlyEarlyRequestsAreLost ==
    \A c \in Conns :
        LET answers == client[c].answers
            answered == {answers[k].request : k \in DOMAIN answers}
        IN  /\ \A i \in answered : (1..i) \ answered \subseteq client[c].early
            /\ \A k \in DOMAIN answers :
                   answers[k].code = Expected(client[c].script[answers[k].request])
                       \/ answers[k].request \in client[c].early

\* The client has sent nothing the session need not read: it waits for every
\* answer, and no request that is rejected has a body.
Patient(c) ==
    /\ client[c].early = {}
    /\ \A i \in DOMAIN client[c].script :
           client[c].script[i].fault # "none" => ~client[c].script[i].body

\* Unless its deadline passed or it was forced, no session closes on a patient
\* client that was told, by the keep-alive flag of its last answer, that the
\* connection stays: RequestClose must not close before it has told so
\* (Session.cpp:116-122, 135-143).
EndIsAnnounced ==
    \A c \in Conns :
        client[c].stage = "ended" /\ sess[c].open /\ net[c].deadline # "passed" /\ Patient(c)
            => client[c].answers # << >> /\ ~Last(client[c].answers).keepAlive

\* Every connection comes to its end, on both sides, even if the client keeps it
\* alive, never sends, or never takes in, another byte, and the owner never closes
\* it: the deadline that DoRead arms stays armed for the response, the request
\* limit is met, and Close is seen on the other side (Session.cpp:36-38, 116,
\* 126-144, 169).
EveryConnectionCloses ==
    \A c \in Conns :
        Live(sess[c]) \/ client[c].stage = "connected"
            ~> sess[c].state = "kClosed" /\ client[c].stage # "connected"

\* With its bytes, deadlines and peers a session still is one of module Session,
\* and the fairness Session assumes of its operations is what the deadlines give
\* (Session.cpp:30-39, 67-145).
ImplementsSession == SessionSpec

\* A client whose request is over a limit reads the answer that says so, even if
\* the answer is sent before the body is read, unless the close of a socket with
\* unread data resets the connection first.  A test that expects the answer
\* (HttpServerBehaviorIntegrationTest.cpp:210-211) leaves that to luck
\* (Session.cpp:85-103, 126-141, 169).
RejectedClientIsTold ==
    \A c \in Conns :
        LET first == client[c].script[1]
            rejected == client[c].script # << >> /\ first.fault # "none"
            left == client[c].stage = "ended" /\ net[c].sent = Len(Stream(c))
            undisturbed == /\ sess[c].open /\ net[c].deadline # "passed"
                           /\ client[c].early = {} /\ ~net[c].reset
        IN  rejected /\ left /\ undisturbed
                => \E k \in DOMAIN client[c].answers :
                       client[c].answers[k].code = ParserError(first.fault)
=============================================================================
