------------------------------ MODULE OrdersRun ------------------------------
(***************************************************************************)
(* The process CreateOrdersClientService (main.cpp, OrdersClient.cpp): a   *)
(* fixed sequence of calls, each with a connection of its own, to a server *)
(* that may refuse, close, time out or reset any of them.  A call returns  *)
(* the answer or throws, and an exception ends the process with exit code  *)
(* 1.  What the calls mean is in OrdersApi; connection i is the one of the *)
(* i-th call.                                                              *)
(***************************************************************************)
EXTENDS Connection

CONSTANT
    Calls           \* the requests of main(), in order

\* main() sends nothing malformed, and nothing that is over a limit.
ASSUME CallsAssumption ==
    /\ Calls \in Seq(Sendable)
    /\ Conns = DOMAIN Calls
    /\ \A c \in Conns : Calls[c].fault = "none"

VARIABLES
    call,           \* the call that main() is in
    exit            \* its exit code, once it has returned

runVars == <<sess, net, client, call, exit>>

RunInit == ConnInit /\ call = 1 /\ exit = "none"

\* main() is in call c.
InCall(c) == exit = "none" /\ call = c

\* The program has no shutdown: the rest of a connection is the server's affair.
Same == UNCHANGED <<call, exit>>

-----------------------------------------------------------------------------
(* OrdersClient::Request *)

Connects(c) == InCall(c) /\ Connect(c) /\ Same

\* Nobody listens, or the listener is full and closes the connection at once.
Refused(c) ==
    /\ InCall(c)
    /\ client[c].stage = "idle"
    /\ exit' = "1"
    /\ UNCHANGED <<sess, net, client, call>>

Writes(c) ==
    /\ InCall(c)
    /\ \/ client[c].script = << >> /\ SendHead(c, Calls[c])
       \/ SendBody(c) \/ SendFails(c)
    /\ Same

\* The whole request is written before the response is read.
Reads(c) ==
    /\ InCall(c)
    /\ client[c].script # << >> /\ net[c].sent = Len(Stream(c))
    /\ client[c].answers = << >>
    /\ Receive(c) \/ SeeEnd(c)
    /\ Same

\* The response is not waited for.
SlipReturnsEarly(c) ==
    /\ InCall(c)
    /\ client[c].script # << >> /\ net[c].sent = Len(Stream(c))
    /\ Leave(c)
    /\ IF c = Len(Calls) THEN exit' = "0" /\ UNCHANGED call
       ELSE call' = c + 1 /\ UNCHANGED exit

\* The response is there: the socket is closed, and main() goes on.
Returns(c) ==
    /\ InCall(c)
    /\ client[c].answers # << >>
    /\ Leave(c)
    /\ IF c = Len(Calls) THEN exit' = "0" /\ UNCHANGED call
       ELSE call' = c + 1 /\ UNCHANGED exit

\* A write or read that failed, as an exception in main().
Throws(c) ==
    /\ InCall(c)
    /\ client[c].stage = "ended"
    /\ exit' = "1"
    /\ UNCHANGED <<sess, net, client, call>>

Request(c) == Connects(c) \/ Refused(c) \/ Writes(c) \/ Reads(c) \/ Returns(c) \/ Throws(c)

Serves(c) == (Operations(c) \/ StrandStep(c) \/ OwnerCalls(c) \/ Reset(c)) /\ Same

RunNext == \E c \in Conns : Request(c) \/ Serves(c)

\* The client sets no deadline: that a call ends is up to the server's.
RunFairness ==
    \A c \in Conns :
        /\ WF_runVars(Connects(c) \/ Writes(c) \/ Reads(c) \/ Returns(c) \/ Throws(c))
        /\ WF_runVars(StrandStep(c) /\ Same)
        /\ WF_runVars(Expire(c) /\ Same)
        /\ WF_runVars((ReadIsCancelled(c) \/ WriteFails(c)) /\ Same)

RunSpec == RunInit /\ [][RunNext]_runVars /\ RunFairness

-----------------------------------------------------------------------------
(* What the process may conclude. *)

\* No call is executed twice, or before the ones in front of it; a call that has
\* returned was executed, and what it returned is the answer of its handler and
\* no rejection of a request the server has not read.  So a process that failed
\* leaves at most its last call in doubt: that one may have been executed without
\* an answer, the ones behind it were not (OrdersClient.cpp:49-80, main.cpp:31-45,
\* Session.cpp:85-111).
ReturnedMeansExecuted ==
    \A c \in Conns :
        /\ sess[c].requests <= 1
        /\ sess[c].requests = 1 => c <= call
        /\ c < call \/ exit = "0" =>
               /\ sess[c].requests = 1
               /\ [k \in DOMAIN client[c].answers |-> client[c].answers[k].code] = <<"handled">>

\* The process ends, although no call of it has a time limit of its own: the
\* server's deadline ends a call that the server does not answer
\* (OrdersClient.cpp:70-74, Session.cpp:36-38).
ProcessEnds == <>(exit # "none")
=============================================================================
