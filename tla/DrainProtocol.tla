---------------------------- MODULE DrainProtocol ----------------------------
(***************************************************************************)
(* What a listener promises its owner, without strands, handlers or        *)
(* sockets: a bounded set of live sessions; a drain that admits nobody but *)
(* the one client already on the doorstep when it began; and a             *)
(* notification given once, in the very step that first leaves no session  *)
(* to wait for.                                                            *)
(***************************************************************************)
EXTENDS Naturals, FiniteSets

CONSTANTS Conns, MaxConnections

VARIABLES
    live,           \* the sessions being served
    admitted,       \* the connections that ever had a session
    onDoorstep,     \* a client has been accepted and is not yet let in
    draining,       \* a shutdown has begun
    notified        \* its completion has been noticed

drainVars == <<live, admitted, onDoorstep, draining, notified>>

DrainInit ==
    /\ live = {}
    /\ admitted = {}
    /\ onDoorstep = FALSE
    /\ draining = FALSE
    /\ notified = FALSE

Arrive ==
    /\ ~draining /\ ~onDoorstep
    /\ onDoorstep' = TRUE
    /\ UNCHANGED <<live, admitted, draining, notified>>

Admit(c) ==
    /\ onDoorstep
    /\ c \notin admitted
    /\ Cardinality(live) < MaxConnections
    /\ live' = live \cup {c}
    /\ admitted' = admitted \cup {c}
    /\ onDoorstep' = FALSE
    /\ UNCHANGED <<draining, notified>>

Refuse ==
    /\ onDoorstep
    /\ Cardinality(live) >= MaxConnections
    /\ onDoorstep' = FALSE
    /\ UNCHANGED <<live, admitted, draining, notified>>

\* Sessions end, the drain begins, or both: a drain may begin by force.
Release(gone) ==
    /\ live' = live \ gone
    /\ draining' \in {draining, TRUE}
    /\ notified' = (notified \/ (draining' /\ live' = {}))
    /\ UNCHANGED <<admitted, onDoorstep>>

DrainNext ==
    \/ Arrive
    \/ \E c \in Conns : Admit(c)
    \/ Refuse
    \/ \E gone \in SUBSET live : Release(gone)

DrainSpec == DrainInit /\ [][DrainNext]_drainVars
=============================================================================
