---------------------------- MODULE MCConnection ----------------------------
(***************************************************************************)
(* One connection, and every sequence of a few requests on it.  closingAt  *)
(* is an auxiliary variable: the requests the session had handled when it  *)
(* left kOpen.                                                             *)
(***************************************************************************)
EXTENDS Connection

\* A request that keeps the connection, one that asks to close, and one over the
\* body limit, which is rejected at its head.
WithBody == [body |-> TRUE, keepAlive |-> TRUE, fault |-> "none"]
LastOne == [body |-> FALSE, keepAlive |-> FALSE, fault |-> "none"]
LongBody == [body |-> TRUE, keepAlive |-> TRUE, fault |-> "body_limit"]

MCSendable == {WithBody, LastOne, LongBody}

VARIABLE closingAt

MCInit == ConnInit /\ closingAt = [c \in Conns |-> 0]

MCNext ==
    /\ ConnNext
    /\ closingAt' = [c \in Conns |->
           IF sess'[c].state \in {"absent", "kOpen"} THEN 0
           ELSE IF sess[c].state \in {"absent", "kOpen"} THEN sess'[c].requests
           ELSE closingAt[c]]

MCSpec == MCInit /\ [][MCNext]_<<connVars, closingAt>> /\ ConnFairness

\* Leaving kOpen cuts a session short: it answers at most one more request, the
\* one it was reading, or was about to read after a response whose keep-alive
\* flag was set before the close was requested (Session.cpp:55-61, 120-122,
\* 135-143).
AtMostOneRequestAfterClosing ==
    \A c \in Conns :
        sess[c].state \in {"kClosing", "kClosed"}
            => sess[c].requests <= closingAt[c] + 1
=============================================================================
