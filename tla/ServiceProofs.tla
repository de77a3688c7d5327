---------------------------- MODULE ServiceProofs ----------------------------
(***************************************************************************)
(* Theorems about the listener and the process that drives it.             *)
(*                                                                         *)
(* First the safety of the listener for any number of clients, any limits  *)
(* and any interleaving of its handlers, with calls from any thread.  Then *)
(* that main() drives it as it allows, for any timing of signals, timers   *)
(* and io threads; and what the service promises of its shutdown: the      *)
(* notification reaches the callback, every session is told to close, and  *)
(* nothing else stops the accepting.                                       *)
(***************************************************************************)
EXTENDS OrdersService, SessionProofs

\* Nothing waits for a client once the shutdown has closed the acceptor: what
\* keeps the late sessions to one (Listener.cpp:58, 167-169).
AcceptorClosed == shutting_down => accepting # "pending"

\* The inductive invariant.
IInv ==
    /\ TypeOK
    /\ RegistryMatchesSessions
    /\ CapacityRespected
    /\ DrainIsNoticed
    /\ AcceptorClosed
    /\ OneLateSession

LEMMA FiniteSessions ==
    ASSUME NEW S \in SUBSET Conns, NEW T \in SUBSET S
    PROVE  /\ IsFiniteSet(S)
           /\ Cardinality(S) \in Nat
           /\ Cardinality(T) \in Nat
           /\ Cardinality(T) <= Cardinality(S)
<1>1. IsFiniteSet(S)
  BY ConnsAssumption, FS_Subset
<1> QED BY <1>1, FS_Subset, FS_CardinalityType

\* NotifyShutdownCompleteIfDrained, called where a handler has removed sessions,
\* begun the shutdown, or both, restores what the invariant says of the drain
\* (Listener.cpp:98-109).
LEMMA SettleStep ==
    ASSUME IInv,
           NEW live \in SUBSET sessions, NEW closing \in BOOLEAN, NEW registered \in BOOLEAN,
           Settle(live, closing, registered),
           shutting_down' = closing,
           shutting_down => closing /\ accepting' = accepting,
           closing => accepting' # "pending"
    PROVE  /\ sessions' = live
           /\ sessions' \subseteq Conns
           /\ {shutdown_notified', on_shutdown_complete', posted'} \subseteq BOOLEAN
           /\ CapacityRespected'
           /\ DrainIsNoticed'
           /\ AcceptorClosed'
           /\ OneLateSession'
<1>1. /\ sessions \in SUBSET Conns
      /\ {shutdown_notified, on_shutdown_complete, posted} \subseteq BOOLEAN
  BY DEF IInv, TypeOK
<1>2. /\ Cardinality(sessions) \in Nat
      /\ Cardinality(live) \in Nat
      /\ Cardinality(live) <= Cardinality(sessions)
  BY <1>1, FiniteSessions
<1>3. /\ sessions' = live
      /\ shutdown_notified' = (shutdown_notified \/ (closing /\ live = {}))
      /\ {shutdown_notified', on_shutdown_complete', posted'} \subseteq BOOLEAN
  BY <1>1 DEF Settle
<1>4. CapacityRespected'
  BY <1>2, <1>3, MaxConnectionsAssumption DEF IInv, CapacityRespected
<1>5. DrainIsNoticed' /\ AcceptorClosed'
  BY <1>3 DEF DrainIsNoticed, AcceptorClosed
<1>6. OneLateSession'
  <2>1. CASE shutdown_notified
    BY <1>2, <1>3, <2>1 DEF IInv, OneLateSession
  <2>2. CASE ~shutdown_notified /\ closing /\ live = {}
    <3>1. Cardinality(sessions') = 0
      BY <1>3, <2>2, FS_EmptySet
    <3> QED BY <1>3, <2>2, <3>1 DEF OneLateSession
  <2>3. CASE ~shutdown_notified /\ ~(closing /\ live = {})
    BY <1>3, <2>3 DEF OneLateSession
  <2> QED BY <2>1, <2>2, <2>3
<1> QED BY <1>1, <1>3, <1>4, <1>5, <1>6

LEMMA InitIInv == Init => IInv
<1> SUFFICES ASSUME Init
             PROVE  IInv
  OBVIOUS
<1>1. TypeOK
  <2>1. SessionTypeOK
    BY NewSessionType DEF Init, SessionInit, SessionTypeOK
  <2>2. strandL \in Seq(Functions)
    BY EmptySeq DEF Init
  <2> QED BY <2>1, <2>2 DEF Init, TypeOK
<1>2. RegistryMatchesSessions
  BY DEF Init, SessionInit, RegistryMatchesSessions, Live, NoSession
<1>3. CapacityRespected
  BY FS_EmptySet, MaxConnectionsAssumption DEF Init, CapacityRespected
<1> QED
  BY <1>1, <1>2, <1>3 DEF Init, IInv, DrainIsNoticed, AcceptorClosed, OneLateSession

-----------------------------------------------------------------------------
(* What the handlers do to the sessions. *)

LEMMA OneSessionChanges ==
    ASSUME SessionTypeOK, NEW c \in Conns, NEW s \in SessionRecord,
           sess' = [sess EXCEPT ![c] = s]
    PROVE  /\ SessionTypeOK'
           /\ sess'[c] = s
           /\ \A d \in Conns \ {c} : sess'[d] = sess[d]
BY DEF SessionTypeOK

\* RequestClose reaches all sessions and closes none; ForceClose closes exactly
\* those whose strand runs it in place (Listener.cpp:60-62, 76-78).
LEMMA DispatchAllStep ==
    ASSUME SessionTypeOK, NEW called \in SUBSET Conns, NEW inPlace \in SUBSET called,
           NEW h \in {"RequestClose", "ForceClose"},
           DispatchAll(called, h, inPlace)
    PROVE  /\ SessionTypeOK'
           /\ \A c \in Conns :
                /\ sess[c].state = "kClosed" => sess'[c].state = "kClosed"
                /\ Live(sess'[c]) <=>
                      Live(sess[c]) /\ (h = "ForceClose" => c \notin inPlace)
                /\ c \notin called => sess'[c] = sess[c]
                /\ Live(sess[c]) => sess'[c].state # "absent"
<1>1. ASSUME NEW c \in Conns
      PROVE  /\ sess[c] \in SessionRecord
             /\ sess'[c] = IF c \in inPlace THEN Execute(sess[c], h)
                           ELSE IF c \in called THEN Post(sess[c], h) ELSE sess[c]
  BY DEF SessionTypeOK, DispatchAll
<1>2. ASSUME NEW c \in Conns
      PROVE  /\ sess'[c] \in SessionRecord
             /\ sess[c].state = "kClosed" => sess'[c].state = "kClosed"
             /\ Live(sess'[c]) <=>
                   Live(sess[c]) /\ (h = "ForceClose" => c \notin inPlace)
             /\ c \notin called => sess'[c] = sess[c]
             /\ Live(sess[c]) => sess'[c].state # "absent"
  <2>1. CASE c \in inPlace
    BY <1>1, <2>1, ExecuteType DEF Live
  <2>2. CASE c \notin inPlace /\ c \in called
    <3>1. h \in Handlers
      BY DEF Handlers
    <3>2. sess'[c] = Post(sess[c], h) /\ (h = "ForceClose" => c \notin inPlace)
      BY <1>1, <2>2
    <3>3. /\ Post(sess[c], h) \in SessionRecord
          /\ Post(sess[c], h).state = sess[c].state
      BY <1>1, <3>1, StrandType
    <3> QED BY <2>2, <3>2, <3>3 DEF Live
  <2>3. CASE c \notin inPlace /\ c \notin called
    BY <1>1, <2>3 DEF Live
  <2> QED BY <2>1, <2>2, <2>3
<1>3. sess' = [c \in Conns |-> sess'[c]]
  BY DEF DispatchAll
<1>4. SessionTypeOK'
  BY <1>2, <1>3 DEF SessionTypeOK
<1> QED BY <1>2, <1>4

\* An empty or a shorter queue is still a queue of the listener's functions.
LEMMA RunFunctionType ==
    ASSUME TypeOK, NEW f, RunFunction(f)
    PROVE  strandL' \in Seq(Functions)
BY HeadTailProperties DEF TypeOK, RunFunction

-----------------------------------------------------------------------------
(* One lemma per action: it preserves the invariant. *)

LEMMA SessionHandlerStep ==
    ASSUME IInv, NEW c \in Conns, SessionHandler(c)
    PROVE  IInv'
<1>1. TypeOK /\ SessionTypeOK /\ RegistryMatchesSessions
  BY DEF IInv, TypeOK
<1>2. PICK s : Advances(sess[c], s) /\ sess' = [sess EXCEPT ![c] = s]
  BY <1>1, HandlerStep DEF SessionHandler
<1>3. /\ SessionTypeOK'
      /\ sess'[c] = s
      /\ \A d \in Conns \ {c} : sess'[d] = sess[d]
      /\ Live(sess'[c]) => Live(sess[c])
  BY <1>1, <1>2, OneSessionChanges DEF Advances
<1>4. UNCHANGED <<shutting_down, accepting, strandL, crashed>>
  BY DEF SessionHandler
<1>5. CASE Live(sess[c]) /\ ~Live(sess'[c])
  <2>1. Settle(sessions \ {c}, shutting_down, on_shutdown_complete)
    BY <1>5 DEF SessionHandler, OnSessionClosed
  <2>2. /\ sessions' = sessions \ {c}
        /\ sessions' \subseteq Conns
        /\ {shutdown_notified', on_shutdown_complete', posted'} \subseteq BOOLEAN
        /\ CapacityRespected' /\ DrainIsNoticed' /\ AcceptorClosed' /\ OneLateSession'
    BY <1>1, <1>4, <2>1, SettleStep DEF TypeOK, IInv, AcceptorClosed
  <2>3. RegistryMatchesSessions'
    BY <1>1, <1>3, <1>5, <2>2 DEF RegistryMatchesSessions
  <2> QED BY <1>1, <1>3, <1>4, <2>2, <2>3 DEF IInv, TypeOK
<1>6. CASE ~(Live(sess[c]) /\ ~Live(sess'[c]))
  <2>1. UNCHANGED registryVars
    BY <1>6 DEF SessionHandler
  <2>2. RegistryMatchesSessions'
    BY <1>1, <1>3, <1>6, <2>1 DEF RegistryMatchesSessions, registryVars
  <2> QED
    BY <1>3, <1>4, <2>1, <2>2 DEF IInv, TypeOK, registryVars, CapacityRespected,
       DrainIsNoticed, AcceptorClosed, OneLateSession
<1> QED BY <1>5, <1>6

LEMMA AcceptAdmitsStep ==
    ASSUME IInv, NEW c \in Conns, AcceptAdmits(c)
    PROVE  IInv'
<1>1. TypeOK /\ SessionTypeOK /\ RegistryMatchesSessions
  BY DEF IInv, TypeOK
<1>2. PICK inPlace \in BOOLEAN :
          sess' = [sess EXCEPT ![c] = Dispatch(NewSession, "Run", inPlace)]
  BY DEF AcceptAdmits
<1>3. /\ Dispatch(NewSession, "Run", inPlace) \in SessionRecord
      /\ Live(Dispatch(NewSession, "Run", inPlace))
  <2>1. NewSession.state = "kOpen"
    BY DEF NewSession
  <2> QED BY <2>1, NewSessionType, DispatchType DEF Live
<1>4. /\ SessionTypeOK'
      /\ Live(sess'[c])
      /\ \A d \in Conns \ {c} : sess'[d] = sess[d]
  BY <1>1, <1>2, <1>3, OneSessionChanges
<1>5. /\ sessions' = sessions \cup {c}
      /\ accepting = "ok"
      /\ accepting' = IF shutting_down THEN "none" ELSE "pending"
      /\ UNCHANGED <<shutdown_notified, on_shutdown_complete, posted,
                     shutting_down, strandL, crashed>>
  BY DEF AcceptAdmits, AcceptAgain
<1>6. TypeOK' /\ RegistryMatchesSessions'
  BY <1>1, <1>4, <1>5 DEF TypeOK, RegistryMatchesSessions
<1>7. /\ Cardinality(sessions) \in Nat
      /\ Cardinality(sessions') \in Nat
      /\ Cardinality(sessions') <= Cardinality(sessions) + 1
  <2>1. IsFiniteSet(sessions) /\ Cardinality(sessions) \in Nat
    BY <1>1, FiniteSessions DEF TypeOK
  <2>2. Cardinality(sessions \cup {c}) =
            IF c \in sessions THEN Cardinality(sessions) ELSE Cardinality(sessions) + 1
    BY <2>1, FS_AddElement
  <2> QED BY <1>5, <2>1, <2>2
<1>8. CapacityRespected'
  BY <1>7, MaxConnectionsAssumption DEF AcceptAdmits, CapacityRespected
<1>9. DrainIsNoticed' /\ AcceptorClosed'
  BY <1>5 DEF DrainIsNoticed, AcceptorClosed
<1>10. OneLateSession'
  BY <1>5, <1>7 DEF IInv, OneLateSession
<1> QED BY <1>6, <1>8, <1>9, <1>10 DEF IInv

\* The steps that touch neither the sessions nor the registry.
LEMMA QuietStep ==
    ASSUME IInv, UNCHANGED <<sess, registryVars, shutting_down, crashed>>,
           strandL' \in Seq(Functions),
           \/ UNCHANGED accepting
           \/ ~shutting_down /\ ~shutdown_notified
                /\ accepting' \in {"none", "pending", "ok", "error"}
           \/ shutting_down /\ accepting' = "none"
    PROVE  IInv'
<1>1. TypeOK' /\ RegistryMatchesSessions' /\ CapacityRespected' /\ DrainIsNoticed'
  BY DEF IInv, TypeOK, SessionTypeOK, registryVars, RegistryMatchesSessions,
         CapacityRespected, DrainIsNoticed
<1>2. AcceptorClosed'
  BY DEF IInv, AcceptorClosed
<1>3. OneLateSession'
  <2>1. Cardinality(sessions) \in Nat
    BY FiniteSessions DEF IInv, TypeOK
  <2> QED BY <2>1 DEF IInv, OneLateSession, registryVars
<1> QED BY <1>1, <1>2, <1>3 DEF IInv

LEMMA QuietActions ==
    ASSUME IInv,
           \/ Start \/ AcceptRefuses \/ AcceptFails \/ CompleteAccept
           \/ \E f \in Functions : CallFunction(f)
    PROVE  IInv'
<1>1. strandL \in Seq(Functions)
  BY DEF IInv, TypeOK
<1>2. shutdown_notified => shutting_down
  BY DEF IInv, OneLateSession
<1>3. CASE Start
  BY <1>1, <1>2, <1>3, QuietStep DEF Start
<1>4. CASE AcceptRefuses
  BY <1>1, <1>2, <1>4, QuietStep DEF AcceptRefuses, AcceptAgain
<1>5. CASE AcceptFails
  BY <1>1, <1>2, <1>5, QuietStep DEF AcceptFails, AcceptAgain
<1>6. CASE CompleteAccept
  <2>1. ~shutting_down
    BY <1>6 DEF CompleteAccept, IInv, AcceptorClosed
  <2>2. /\ accepting' \in {"none", "pending", "ok", "error"}
        /\ UNCHANGED <<sess, registryVars, shutting_down, strandL, crashed>>
    BY <1>6 DEF CompleteAccept
  <2> QED BY <1>1, <1>2, <2>1, <2>2, QuietStep
<1>7. ASSUME NEW f \in Functions, CallFunction(f)
      PROVE  IInv'
  <2>1. strandL' \in Seq(Functions)
    BY <1>1, <1>7 DEF CallFunction, Enqueue
  <2> QED BY <1>7, <2>1, QuietStep DEF CallFunction, Enqueue
<1> QED BY <1>3, <1>4, <1>5, <1>6, <1>7

LEMMA CompleteOperationStep ==
    ASSUME IInv, NEW c \in Conns, CompleteOperation(c)
    PROVE  IInv'
<1>1. SessionTypeOK /\ RegistryMatchesSessions
  BY DEF IInv, TypeOK
<1>2. PICK s : /\ s \in SessionRecord
               /\ s.state = sess[c].state
               /\ sess' = [sess EXCEPT ![c] = s]
  BY <1>1, CompleteStep DEF CompleteOperation
<1>3. SessionTypeOK' /\ \A d \in Conns : sess'[d].state = sess[d].state
  BY <1>1, <1>2, OneSessionChanges
<1>4. RegistryMatchesSessions'
  BY <1>1, <1>3 DEF RegistryMatchesSessions, Live, CompleteOperation, registryVars
<1> QED
  BY <1>3, <1>4 DEF CompleteOperation, registryVars, IInv, TypeOK, CapacityRespected,
     DrainIsNoticed, AcceptorClosed, OneLateSession

\* CloseAcceptor leaves no accept pending.
LEMMA CloseAcceptorStep ==
    ASSUME TypeOK, CloseAcceptor
    PROVE  accepting' \in {"none", "ok", "error"}
BY DEF TypeOK, CloseAcceptor

LEMMA RequestShutdownStep ==
    ASSUME IInv, RequestShutdown
    PROVE  IInv'
<1>1. TypeOK /\ SessionTypeOK /\ RegistryMatchesSessions
  BY DEF IInv, TypeOK
<1>2. /\ shutting_down' = TRUE
      /\ strandL' \in Seq(Functions)
      /\ Settle(sessions, TRUE, on_shutdown_complete)
      /\ UNCHANGED crashed
  BY <1>1, RunFunctionType DEF RequestShutdown
<1>3. /\ SessionTypeOK'
      /\ \A c \in Conns : Live(sess'[c]) <=> Live(sess[c])
  <2>1. CASE shutting_down
    BY <1>1, <2>1 DEF RequestShutdown, SessionTypeOK
  <2>2. CASE ~shutting_down
    <3>1. PICK inPlace \in InPlace(sessions) :
              DispatchAll(sessions, "RequestClose", inPlace)
      BY <2>2 DEF RequestShutdown
    <3>2. sessions \in SUBSET Conns /\ inPlace \in SUBSET sessions
      BY <1>1 DEF TypeOK, InPlace
    <3> QED BY <1>1, <3>1, <3>2, DispatchAllStep
  <2> QED BY <2>1, <2>2
<1>4. /\ shutting_down => accepting' = accepting
      /\ accepting' \in {"none", "ok", "error"}
  <2>1. CASE shutting_down
    BY <1>1, <2>1 DEF RequestShutdown, IInv, AcceptorClosed, TypeOK
  <2>2. CASE ~shutting_down
    BY <1>1, <2>2, CloseAcceptorStep DEF RequestShutdown
  <2> QED BY <2>1, <2>2
<1>5. /\ sessions' = sessions
      /\ {shutdown_notified', on_shutdown_complete', posted'} \subseteq BOOLEAN
      /\ CapacityRespected' /\ DrainIsNoticed' /\ AcceptorClosed' /\ OneLateSession'
  BY <1>1, <1>2, <1>4, SettleStep DEF TypeOK
<1>6. RegistryMatchesSessions'
  BY <1>1, <1>3, <1>5 DEF RegistryMatchesSessions
<1> QED BY <1>1, <1>2, <1>3, <1>4, <1>5, <1>6 DEF IInv, TypeOK

LEMMA ForceShutdownStep ==
    ASSUME IInv, ForceShutdown
    PROVE  IInv'
<1>1. TypeOK /\ SessionTypeOK /\ RegistryMatchesSessions
  BY DEF IInv, TypeOK
<1>2. shutting_down' = TRUE /\ strandL' \in Seq(Functions)
  BY <1>1, RunFunctionType DEF ForceShutdown
<1>3. PICK visited \in SUBSET sessions : \E inPlace \in InPlace(visited) :
          /\ DispatchAll(visited, "ForceClose", inPlace)
          /\ Settle(sessions \ inPlace, TRUE, on_shutdown_complete)
          /\ crashed' \in BOOLEAN
  BY <1>1 DEF ForceShutdown, TypeOK
<1>3a. PICK inPlace \in InPlace(visited) :
          /\ DispatchAll(visited, "ForceClose", inPlace)
          /\ Settle(sessions \ inPlace, TRUE, on_shutdown_complete)
          /\ crashed' \in BOOLEAN
  BY <1>3
<1>4. visited \in SUBSET Conns /\ inPlace \in SUBSET visited
  BY <1>1 DEF TypeOK, InPlace
<1>5. /\ SessionTypeOK'
      /\ \A c \in Conns : Live(sess'[c]) <=> Live(sess[c]) /\ c \notin inPlace
  BY <1>1, <1>3a, <1>4, DispatchAllStep
<1>6. /\ shutting_down => accepting' = accepting
      /\ accepting' \in {"none", "ok", "error"}
  <2>1. CASE shutting_down
    BY <1>1, <2>1 DEF ForceShutdown, IInv, AcceptorClosed, TypeOK
  <2>2. CASE ~shutting_down
    BY <1>1, <2>2, CloseAcceptorStep DEF ForceShutdown
  <2> QED BY <2>1, <2>2
<1>7. /\ sessions' = sessions \ inPlace
      /\ sessions' \subseteq Conns
      /\ {shutdown_notified', on_shutdown_complete', posted'} \subseteq BOOLEAN
      /\ CapacityRespected' /\ DrainIsNoticed' /\ AcceptorClosed' /\ OneLateSession'
  BY <1>1, <1>2, <1>3a, <1>6, SettleStep DEF TypeOK
<1>8. RegistryMatchesSessions'
  BY <1>1, <1>5, <1>7 DEF RegistryMatchesSessions
<1> QED BY <1>2, <1>3a, <1>5, <1>6, <1>7, <1>8 DEF IInv, TypeOK

LEMMA SetOnShutdownCompleteStep ==
    ASSUME IInv, SetOnShutdownComplete
    PROVE  IInv'
<1>1. TypeOK /\ SessionTypeOK /\ RegistryMatchesSessions
  BY DEF IInv, TypeOK
<1>2. /\ Settle(sessions, shutting_down, TRUE)
      /\ strandL' \in Seq(Functions)
      /\ UNCHANGED <<sess, shutting_down, accepting, crashed>>
  BY <1>1, RunFunctionType DEF SetOnShutdownComplete
<1>3. /\ sessions' = sessions
      /\ {shutdown_notified', on_shutdown_complete', posted'} \subseteq BOOLEAN
      /\ CapacityRespected' /\ DrainIsNoticed' /\ AcceptorClosed' /\ OneLateSession'
  BY <1>1, <1>2, SettleStep DEF TypeOK, IInv, AcceptorClosed
<1> QED
  BY <1>1, <1>2, <1>3 DEF IInv, TypeOK, SessionTypeOK, RegistryMatchesSessions

LEMMA StutterStep ==
    ASSUME IInv, UNCHANGED vars
    PROVE  IInv'
BY DEF IInv, TypeOK, SessionTypeOK, vars, registryVars, RegistryMatchesSessions,
       CapacityRespected, DrainIsNoticed, AcceptorClosed, OneLateSession

LEMMA NextIInv == IInv /\ [Next]_vars => IInv'
<1> SUFFICES ASSUME IInv, [Next]_vars
             PROVE  IInv'
  OBVIOUS
<1>1. CASE UNCHANGED vars \/ Crash
  BY <1>1, StutterStep DEF Crash
<1>2. CASE Start \/ \E f \in Functions : CallFunction(f)
  BY <1>2, QuietActions
<1>3. CASE Serve
  <2>1. CASE CompleteAccept
    BY <2>1, QuietActions
  <2>2. CASE HandleAccept
    BY <2>2, QuietActions, AcceptAdmitsStep DEF HandleAccept
  <2>3. CASE ListenerHandler
    BY <2>3, RequestShutdownStep, ForceShutdownStep, SetOnShutdownCompleteStep
       DEF ListenerHandler
  <2>4. ASSUME NEW c \in Conns, CompleteOperation(c) \/ SessionHandler(c)
        PROVE  IInv'
    BY <2>4, CompleteOperationStep, SessionHandlerStep
  <2> QED BY <1>3, <2>1, <2>2, <2>3, <2>4 DEF Serve
<1> QED BY <1>1, <1>2, <1>3 DEF Next

-----------------------------------------------------------------------------
(* The sessions keep their own invariant in the hands of the listener: it   *)
(* calls none that does not exist.                                          *)

LEMMA DispatchAllKeepsInv ==
    ASSUME ChainInv, NEW called \in SUBSET Conns, NEW inPlace \in SUBSET called,
           NEW h \in {"RequestClose", "ForceClose"},
           \A c \in called : Live(sess[c]),
           DispatchAll(called, h, inPlace)
    PROVE  ChainInv'
<1>1. SessionTypeOK'
  BY DispatchAllStep DEF ChainInv
<1>2. ASSUME NEW c \in Conns
      PROVE  RecordInv(sess'[c])
  <2>1. sess'[c] = IF c \in inPlace THEN Dispatch(sess[c], h, TRUE)
                   ELSE IF c \in called THEN Dispatch(sess[c], h, FALSE) ELSE sess[c]
    BY DEF DispatchAll, Dispatch
  <2>2. RecordInv(sess[c])
    BY DEF ChainInv
  <2>3. c \in called => sess[c].state # "absent"
    BY DEF Live
  <2>4. c \in called => RecordInv(Dispatch(sess[c], h, TRUE)) /\ RecordInv(Dispatch(sess[c], h, FALSE))
    BY <2>2, <2>3, DispatchKeepsInv
  <2> QED BY <2>1, <2>2, <2>4
<1> QED BY <1>1, <1>2 DEF ChainInv

\* What the listener dispatches reaches live sessions only.
LEMMA RegisteredAreLive ==
    ASSUME IInv
    PROVE  /\ sessions \in SUBSET Conns
           /\ \A c \in sessions : Live(sess[c])
BY DEF IInv, TypeOK, RegistryMatchesSessions

LEMMA ListenerKeepsChain == IInv /\ ChainInv /\ [Next]_vars => ChainInv'
<1> SUFFICES ASSUME IInv, ChainInv, [Next]_vars
             PROVE  ChainInv'
  OBVIOUS
<1>1. CASE UNCHANGED sess
  BY <1>1 DEF ChainInv, SessionTypeOK
<1>2. ASSUME NEW c \in Conns, AcceptAdmits(c) PROVE ChainInv'
  BY <1>2, OpenKeepsInv, OneRecordStep DEF AcceptAdmits
<1>3. ASSUME NEW c \in Conns, CompleteOperation(c) PROVE ChainInv'
  BY <1>3, CompletionKeepsInv, OneRecordStep DEF CompleteOperation
<1>4. ASSUME NEW c \in Conns, SessionHandler(c) PROVE ChainInv'
  BY <1>4, RunHandlerKeepsInv, OneRecordStep DEF SessionHandler
<1>5. CASE RequestShutdown
  <2>1. CASE ~shutting_down
    <3>1. PICK inPlace \in InPlace(sessions) :
              DispatchAll(sessions, "RequestClose", inPlace)
      BY <1>5, <2>1 DEF RequestShutdown
    <3>2. inPlace \in SUBSET sessions
      BY DEF InPlace
    <3> QED BY <3>1, <3>2, RegisteredAreLive, DispatchAllKeepsInv
  <2>2. CASE shutting_down
    BY <1>1, <1>5, <2>2 DEF RequestShutdown
  <2> QED BY <2>1, <2>2
<1>6. CASE ForceShutdown
  <2>1. PICK visited \in SUBSET sessions : \E inPlace \in InPlace(visited) :
            DispatchAll(visited, "ForceClose", inPlace)
    BY <1>6 DEF ForceShutdown
  <2>2. PICK inPlace \in InPlace(visited) : DispatchAll(visited, "ForceClose", inPlace)
    BY <2>1
  <2>3. inPlace \in SUBSET visited
    BY DEF InPlace
  <2> QED BY <2>2, <2>3, RegisteredAreLive, DispatchAllKeepsInv
<1>7. CASE Start \/ AcceptRefuses \/ AcceptFails \/ CompleteAccept \/ SetOnShutdownComplete
           \/ Crash \/ UNCHANGED vars \/ \E f \in Functions : CallFunction(f)
  BY <1>1, <1>7 DEF Start, AcceptRefuses, AcceptFails, CompleteAccept, SetOnShutdownComplete,
     Crash, vars, CallFunction, Enqueue
<1> QED
  BY <1>2, <1>3, <1>4, <1>5, <1>6, <1>7 DEF Next, Serve, HandleAccept, ListenerHandler

-----------------------------------------------------------------------------
(* The listener implements the drain protocol: one lemma per action that is *)
(* a step of the protocol, and the others change nothing of it.             *)

\* No handler but HandleAcceptedSocket makes a session, and none unmakes one.
SameSessions == \A c \in Conns : (sess'[c].state = "absent") <=> (sess[c].state = "absent")

\* A handler that removes sessions, begins the shutdown, or both, is one Release.
LEMMA SettleReleases ==
    ASSUME IInv, NEW gone \in SUBSET sessions, NEW closing \in BOOLEAN, NEW registered,
           Settle(sessions \ gone, closing, registered),
           shutting_down' = closing, shutting_down => closing,
           (accepting' = "ok") <=> (accepting = "ok"), SameSessions
    PROVE  [Drain!DrainNext]_Drain!drainVars
<1>1. /\ sessions' = sessions \ gone
      /\ shutdown_notified' = (shutdown_notified \/ (shutting_down' /\ sessions' = {}))
      /\ shutting_down' \in {shutting_down, TRUE}
  BY DEF IInv, TypeOK, Settle
<1>2. Drain!Release(gone)
  BY <1>1 DEF Drain!Release, SameSessions
<1> QED BY <1>2 DEF Drain!DrainNext

\* What leaves the sessions and the registry alone is a stutter of the protocol.
LEMMA DrainStutters ==
    ASSUME UNCHANGED <<sessions, shutdown_notified, shutting_down>>, SameSessions,
           (accepting' = "ok") <=> (accepting = "ok")
    PROVE  [Drain!DrainNext]_Drain!drainVars
BY DEF Drain!drainVars, SameSessions

LEMMA SessionHandlerDrains ==
    ASSUME IInv, ChainInv, NEW c \in Conns, SessionHandler(c)
    PROVE  [Drain!DrainNext]_Drain!drainVars
<1>1. TypeOK /\ SessionTypeOK /\ RegistryMatchesSessions
  BY DEF IInv, TypeOK
<1>2. PICK s : Advances(sess[c], s) /\ sess' = [sess EXCEPT ![c] = s]
  BY <1>1, HandlerStep DEF SessionHandler
<1>3. sess'[c] = s /\ \A d \in Conns \ {c} : sess'[d] = sess[d]
  BY <1>1, <1>2, OneSessionChanges DEF Advances
<1>4. sess[c].strand # << >>
  BY DEF SessionHandler, RunHandler, OnRun, OnRequestClose, OnForceClose, OnReadOk,
         OnReadFailed, OnWritten, RunHead
<1>5. SameSessions
  <2>1. sess[c].state # "absent"
    BY <1>4 DEF ChainInv, RecordInv
  <2> QED BY <1>2, <1>3, <2>1 DEF SameSessions, Advances
<1>6. UNCHANGED <<shutting_down, accepting>>
  BY DEF SessionHandler
<1>7. CASE Live(sess[c]) /\ ~Live(sess'[c])
  <2>1. Settle(sessions \ {c}, shutting_down, on_shutdown_complete)
    BY <1>7 DEF SessionHandler, OnSessionClosed
  <2>2. {c} \in SUBSET sessions
    BY <1>1, <1>7 DEF RegistryMatchesSessions
  <2> QED BY <1>1, <1>5, <1>6, <2>1, <2>2, SettleReleases DEF TypeOK
<1>8. CASE ~(Live(sess[c]) /\ ~Live(sess'[c]))
  BY <1>5, <1>6, <1>8, DrainStutters DEF SessionHandler, registryVars
<1> QED BY <1>7, <1>8

\* An instance has its own name for the operators it imports.
LEMMA DrainCardinality == \A S : Drain!Cardinality(S) = Cardinality(S)
BY DEF Drain!Cardinality, Cardinality

\* The client on the doorstep is let in.
LEMMA AcceptAdmitsDrains ==
    ASSUME IInv, NEW c \in Conns, AcceptAdmits(c)
    PROVE  Drain!DrainNext
<1>1. PICK inPlace \in BOOLEAN :
          sess' = [sess EXCEPT ![c] = Dispatch(NewSession, "Run", inPlace)]
  BY DEF AcceptAdmits
<1>2. /\ Dispatch(NewSession, "Run", inPlace) \in SessionRecord
      /\ Dispatch(NewSession, "Run", inPlace).state # "absent"
  <2>1. NewSession.state = "kOpen"
    BY DEF NewSession
  <2> QED BY <2>1, NewSessionType, DispatchType
<1>3. sess'[c].state # "absent" /\ \A d \in Conns \ {c} : sess'[d] = sess[d]
  BY <1>1, <1>2, OneSessionChanges DEF IInv, TypeOK
<1>4. {d \in Conns : sess'[d].state # "absent"}
          = {d \in Conns : sess[d].state # "absent"} \cup {c}
  BY <1>3
<1>5. /\ accepting = "ok" /\ ~(accepting' = "ok")
      /\ sess[c].state = "absent" /\ Cardinality(sessions) < MaxConnections
      /\ sessions' = sessions \cup {c}
      /\ UNCHANGED <<shutting_down, shutdown_notified>>
  BY DEF AcceptAdmits, AcceptAgain
<1>6. Drain!Admit(c)
  BY <1>4, <1>5, DrainCardinality DEF Drain!Admit
<1> QED BY <1>6 DEF Drain!DrainNext

LEMMA AcceptorDrains ==
    ASSUME IInv, Start \/ AcceptRefuses \/ AcceptFails \/ CompleteAccept
    PROVE  [Drain!DrainNext]_Drain!drainVars
<1>1. CASE Start \/ AcceptFails \/ (CompleteAccept /\ accepting' # "ok")
  <2>1. accepting # "ok" /\ accepting' # "ok"
    BY <1>1 DEF Start, AcceptFails, AcceptAgain, CompleteAccept
  <2> QED
    BY <1>1, <2>1, DrainStutters DEF Start, AcceptFails, CompleteAccept, registryVars, SameSessions
<1>2. CASE AcceptRefuses
  <2>1. /\ accepting = "ok" /\ ~(accepting' = "ok") /\ Cardinality(sessions) >= MaxConnections
        /\ UNCHANGED <<sess, sessions, shutting_down, shutdown_notified>>
    BY <1>2 DEF AcceptRefuses, AcceptAgain, registryVars
  <2>2. Drain!Refuse
    BY <2>1, DrainCardinality DEF Drain!Refuse
  <2> QED BY <2>2 DEF Drain!DrainNext
<1>3. CASE CompleteAccept /\ accepting' = "ok"
  <2>1. ~shutting_down
    BY <1>3 DEF CompleteAccept, IInv, AcceptorClosed
  <2> QED BY <1>3, <2>1 DEF CompleteAccept, registryVars, Drain!Arrive, Drain!DrainNext
<1> QED BY <1>1, <1>2, <1>3

\* Closing the acceptor leaves the client on the doorstep where it is.
LEMMA ListenerHandlerDrains ==
    ASSUME IInv, ListenerHandler
    PROVE  [Drain!DrainNext]_Drain!drainVars
<1>1. TypeOK /\ SessionTypeOK /\ sessions \in SUBSET Conns /\ \A c \in sessions : Live(sess[c])
  BY RegisteredAreLive DEF IInv, TypeOK
<1>2. ASSUME NEW called \in SUBSET sessions, NEW inPlace \in SUBSET called,
             NEW h \in {"RequestClose", "ForceClose"}, DispatchAll(called, h, inPlace)
      PROVE  SameSessions
  BY <1>1, <1>2, DispatchAllStep DEF SameSessions, Live
<1>3. CASE RequestShutdown
  <2>1. SameSessions
    BY <1>2, <1>3 DEF RequestShutdown, InPlace, SameSessions
  <2>2. (accepting' = "ok") <=> (accepting = "ok")
    BY <1>3 DEF RequestShutdown, CloseAcceptor
  <2>3. Settle(sessions \ {}, TRUE, on_shutdown_complete) /\ shutting_down' = TRUE
    BY <1>3 DEF RequestShutdown
  <2> QED BY <2>1, <2>2, <2>3, SettleReleases
<1>4. CASE ForceShutdown
  <2>1. PICK visited \in SUBSET sessions : \E inPlace \in InPlace(visited) :
            /\ DispatchAll(visited, "ForceClose", inPlace)
            /\ Settle(sessions \ inPlace, TRUE, on_shutdown_complete)
    BY <1>4 DEF ForceShutdown
  <2>2. PICK inPlace \in InPlace(visited) :
            /\ DispatchAll(visited, "ForceClose", inPlace)
            /\ Settle(sessions \ inPlace, TRUE, on_shutdown_complete)
    BY <2>1
  <2>3. inPlace \in SUBSET visited
    BY DEF InPlace
  <2>4. (accepting' = "ok") <=> (accepting = "ok")
    BY <1>4 DEF ForceShutdown, CloseAcceptor
  <2> QED BY <1>2, <1>4, <2>2, <2>3, <2>4, SettleReleases DEF ForceShutdown
<1>5. CASE SetOnShutdownComplete
  <2>1. Settle(sessions \ {}, shutting_down, TRUE) /\ UNCHANGED <<sess, shutting_down, accepting>>
    BY <1>5 DEF SetOnShutdownComplete
  <2> QED BY <1>1, <2>1, SettleReleases DEF TypeOK, SameSessions
<1> QED BY <1>3, <1>4, <1>5 DEF ListenerHandler

LEMMA DrainStep ==
    ASSUME IInv, ChainInv, [Next]_vars
    PROVE  [Drain!DrainNext]_Drain!drainVars
<1>1. CASE UNCHANGED vars \/ Crash \/ \E f \in Functions : CallFunction(f)
  BY <1>1, DrainStutters DEF vars, registryVars, Crash, CallFunction, Enqueue, SameSessions
<1>2. CASE HandleAccept \/ Start \/ CompleteAccept
  BY <1>2, AcceptorDrains, AcceptAdmitsDrains DEF HandleAccept
<1>3. CASE ListenerHandler
  BY <1>3, ListenerHandlerDrains
<1>4. ASSUME NEW c \in Conns, SessionHandler(c)
      PROVE  [Drain!DrainNext]_Drain!drainVars
  BY <1>4, SessionHandlerDrains
<1>5. ASSUME NEW c \in Conns, CompleteOperation(c)
      PROVE  [Drain!DrainNext]_Drain!drainVars
  <2>1. SessionTypeOK
    BY DEF IInv, TypeOK
  <2>2. PICK s : s \in SessionRecord /\ s.state = sess[c].state /\ sess' = [sess EXCEPT ![c] = s]
    BY <1>5, <2>1, CompleteStep DEF CompleteOperation
  <2>3. SameSessions
    BY <2>1, <2>2, OneSessionChanges DEF SameSessions
  <2> QED BY <1>5, <2>3, DrainStutters DEF CompleteOperation, registryVars
<1> QED BY <1>1, <1>2, <1>3, <1>4, <1>5 DEF Next, Serve

LEMMA DrainStart == Init => Drain!DrainInit
BY DEF Init, SessionInit, NoSession, Drain!DrainInit

-----------------------------------------------------------------------------
(* The theorems. *)

\* The inductive invariant holds in every reachable state of the listener.
THEOREM ListenerInvariant == Spec => []IInv
BY InitIInv, NextIInv, PTL DEF Spec

\* The variables keep their types (Listener.hpp:32-40).
THEOREM ListenerTyped == Spec => []TypeOK
<1>1. IInv => TypeOK
  BY DEF IInv
<1> QED BY <1>1, ListenerInvariant, PTL

\* max_connections bounds the registry (Listener.cpp:143).
THEOREM ListenerCapacity == Spec => []CapacityRespected
<1>1. IInv => CapacityRespected
  BY DEF IInv
<1> QED BY <1>1, ListenerInvariant, PTL

\* The registry is exactly the live sessions (Listener.cpp:93, 129).
THEOREM RegistryIsExact == Spec => []RegistryMatchesSessions
<1>1. IInv => RegistryMatchesSessions
  BY DEF IInv
<1> QED BY <1>1, ListenerInvariant, PTL

\* The drain is noticed in the handler that completes it (Listener.cpp:98-102).
THEOREM DrainNeverUnnoticed == Spec => []DrainIsNoticed
<1>1. IInv => DrainIsNoticed
  BY DEF IInv
<1> QED BY <1>1, ListenerInvariant, PTL

\* One session at most outlives the notification (Listener.cpp:164-169).
THEOREM AtMostOneLateSession == Spec => []OneLateSession
<1>1. IInv => OneLateSession
  BY DEF IInv
<1> QED BY <1>1, ListenerInvariant, PTL

\* The two invariants together: neither needs the other's history.
LEMMA ListenerAlways == Spec => [](IInv /\ ChainInv)
<1>1. Init => IInv /\ ChainInv
  BY InitIInv, ChainInvInit DEF Init
<1>2. IInv /\ ChainInv /\ [Next]_vars => IInv' /\ ChainInv'
  BY NextIInv, ListenerKeepsChain
<1> QED BY <1>1, <1>2, PTL DEF Spec

\* A session in the hands of its listener has one operation under way while it
\* lives, whatever the listener calls and when (Session.cpp:67-145).
THEOREM ListenerOneOperation == Spec => []SingleOperation
BY ListenerAlways, ChainImpliesSingle, PTL

\* And it is served no more requests than its limit (Session.cpp:116).
THEOREM ListenerRequestsBounded == Spec => []RequestBound
BY ListenerAlways, ChainImpliesBound, PTL

\* The listener implements the drain protocol (Listener.cpp:52-109, 133-171).
THEOREM ListenerImplementsDrain == Spec => ImplementsDrain
<1>1. Init => Drain!DrainInit
  BY DrainStart
<1>2. IInv /\ ChainInv /\ [Next]_vars => [Drain!DrainNext]_Drain!drainVars
  BY DrainStep
<1> QED BY <1>1, <1>2, ListenerAlways, PTL DEF Spec, ImplementsDrain, Drain!DrainSpec

-----------------------------------------------------------------------------
(* The calls of main(). *)

\* The three calls of main(), in the only order in which they are queued.
Registration == "SetOnShutdownComplete"
Request == "RequestShutdown"
Forced == "ForceShutdown"

\* The queues of the listener's strand with that call still to run.
Registering ==
    {<<Registration>>, <<Registration, Request>>, <<Registration, Request, Forced>>}
Requesting ==
    {<<Request>>, <<Registration, Request>>, <<Request, Forced>>,
     <<Registration, Request, Forced>>}
Forcing == {<<Forced>>, <<Request, Forced>>, <<Registration, Request, Forced>>}

\* A signal comes after the launch, and its deadline after the signal.
PhasesInOrder ==
    /\ main \in {"created", "started"} => signal = "waiting" /\ strandL = << >>
    /\ signal # "done" => timer = "idle"

\* The strand runs the calls in the order main() made them: while the request
\* is queued nothing has begun, and then it has (main.cpp:91, 105, 118).
QueueInOrder ==
    /\ signal = "waiting" => ~shutting_down /\ strandL \in {<< >>, <<Registration>>}
    /\ signal # "waiting" /\ ~shutting_down => strandL \in Requesting
    /\ shutting_down => strandL \in {<< >>, <<Forced>>}

\* Nothing of ForceShutdown is queued before the deadline (main.cpp:112-119).
NothingForcedEarly ==
    timer \notin {"forcing", "done"}
        => strandL \notin Forcing /\ \A c \in Conns : CallBound(sess[c], "ForceClose")

\* Once the registration has run the callback is there until it is posted.
CallbackRegistered ==
    (main = "running" \/ signal # "waiting") /\ strandL \notin Registering
        => on_shutdown_complete \/ shutdown_notified

\* The registered sessions that nobody has told to close.
Untold == {c \in sessions : sess[c].state = "kOpen" /\ CallBound(sess[c], "RequestClose")}

FewUntold ==
    shutting_down => Cardinality(Untold) <= (IF accepting = "ok" THEN 0 ELSE 1)

ServiceInv ==
    /\ PhasesInOrder
    /\ QueueInOrder
    /\ NothingForcedEarly
    /\ CallbackRegistered
    /\ NotificationIsPosted
    /\ AcceptsUntilShutdown
    /\ FewUntold

\* The inductive invariant: the service's, the listener's and the sessions'.
WholeInv == IInv /\ ChainInv /\ ServiceInv

-----------------------------------------------------------------------------
(* The queue of the listener's strand. *)

LEMMA AppendOne ==
    ASSUME NEW T, NEW a \in T, NEW b \in T
    PROVE  Append(<<a>>, b) = <<a, b>>
<1> DEFINE s == Append(<<a>>, b)
           t == <<a, b>>
<1>1. s \in Seq(T) /\ Len(s) = 2 /\ s[1] = a /\ s[2] = b
  <2>1. <<a>> \in Seq(T) /\ Len(<<a>>) = 1
    OBVIOUS
  <2> QED BY <2>1, AppendProperties
<1>2. t \in Seq(T) /\ Len(t) = 2 /\ t[1] = a /\ t[2] = b
  OBVIOUS
<1> HIDE DEF s, t
<1>3. s = t
  BY <1>1, <1>2, SeqEqual
<1> QED BY <1>3 DEF s, t

LEMMA AppendTwo ==
    ASSUME NEW T, NEW a \in T, NEW b \in T, NEW c \in T
    PROVE  Append(<<a, b>>, c) = <<a, b, c>>
<1> DEFINE s == Append(<<a, b>>, c)
           t == <<a, b, c>>
<1>1. s \in Seq(T) /\ Len(s) = 3 /\ s[1] = a /\ s[2] = b /\ s[3] = c
  <2>1. <<a, b>> \in Seq(T) /\ Len(<<a, b>>) = 2
    OBVIOUS
  <2> QED BY <2>1, AppendProperties
<1>2. t \in Seq(T) /\ Len(t) = 3 /\ t[1] = a /\ t[2] = b /\ t[3] = c
  OBVIOUS
<1> HIDE DEF s, t
<1>3. \A i \in 1..3 : s[i] = t[i]
  BY <1>1, <1>2
<1>4. s = t
  BY <1>1, <1>2, <1>3, SeqEqual
<1> QED BY <1>4 DEF s, t

\* What a call of main() makes of a queue, and that it is not queued yet.
LEMMA Called ==
    /\ Append(<< >>, Registration) = <<Registration>>
    /\ \A q \in {<< >>, <<Registration>>} :
          Append(q, Request) \in Requesting \ Forcing
          /\ (q = <<Registration>> => Append(q, Request) \in Registering)
          /\ \A i \in DOMAIN q : q[i] # Request
    /\ \A q \in (Requesting \ Forcing) \cup {<< >>} :
          Append(q, Forced) \in Forcing
          /\ (q \in Requesting => Append(q, Forced) \in Requesting)
          /\ (q \in Registering => Append(q, Forced) \in Registering)
          /\ (q = << >> => Append(q, Forced) = <<Forced>>)
          /\ \A i \in DOMAIN q : q[i] # Forced
<1>1. /\ Append(<< >>, Registration) = <<Registration>>
      /\ Append(<< >>, Request) = <<Request>>
      /\ Append(<< >>, Forced) = <<Forced>>
  OBVIOUS
<1>2. {Registration, Request, Forced} \subseteq Functions
  BY DEF Functions, Registration, Request, Forced
<1>3. /\ Append(<<Registration>>, Request) = <<Registration, Request>>
      /\ Append(<<Request>>, Forced) = <<Request, Forced>>
      /\ Append(<<Registration, Request>>, Forced) = <<Registration, Request, Forced>>
  BY <1>2, AppendOne, AppendTwo
<1>4. Registration # Request /\ Registration # Forced /\ Request # Forced
  BY DEF Registration, Request, Forced
<1>5. ASSUME NEW q \in {<< >>, <<Registration>>}
      PROVE  /\ Append(q, Request) \in Requesting \ Forcing
             /\ q = <<Registration>> => Append(q, Request) \in Registering
             /\ \A i \in DOMAIN q : q[i] # Request
  <2>1. CASE q = << >>
    BY <1>1, <1>4, <2>1 DEF Requesting, Forcing
  <2>2. CASE q = <<Registration>>
    BY <1>3, <1>4, <2>2 DEF Requesting, Forcing, Registering
  <2> QED BY <2>1, <2>2
<1>6. ASSUME NEW q \in (Requesting \ Forcing) \cup {<< >>}
      PROVE  /\ Append(q, Forced) \in Forcing
             /\ q \in Requesting => Append(q, Forced) \in Requesting
             /\ q \in Registering => Append(q, Forced) \in Registering
             /\ q = << >> => Append(q, Forced) = <<Forced>>
             /\ \A i \in DOMAIN q : q[i] # Forced
  <2>1. CASE q = << >>
    BY <1>1, <1>4, <2>1 DEF Requesting, Forcing, Registering
  <2>2. CASE q = <<Request>>
    BY <1>3, <1>4, <2>2 DEF Requesting, Forcing, Registering
  <2>3. CASE q = <<Registration, Request>>
    BY <1>3, <1>4, <2>3 DEF Requesting, Forcing, Registering
  <2> QED BY <2>1, <2>2, <2>3 DEF Requesting, Forcing
<1> QED BY <1>1, <1>5, <1>6

\* What is queued tells which call runs next, and what stays behind it.
LEMMA Popped ==
    ASSUME NEW q \in {<< >>, <<Registration>>, <<Forced>>} \cup Requesting, q # << >>
    PROVE  /\ Head(q) = Registration =>
                 /\ q \in Registering /\ Tail(q) \notin Registering
                 /\ q = <<Registration>> => Tail(q) = << >>
                 /\ q \in Requesting => Tail(q) \in Requesting
                 /\ q \notin Forcing => Tail(q) \notin Forcing
           /\ Head(q) = Request =>
                 /\ q \in Requesting \ Registering
                 /\ Tail(q) \in {<< >>, <<Forced>>}
                 /\ q \notin Forcing => Tail(q) = << >>
           /\ Head(q) = Forced => q = <<Forced>> /\ Tail(q) = << >>
<1>1. Registration # Request /\ Registration # Forced /\ Request # Forced
  BY DEF Registration, Request, Forced
<1>2. CASE q = <<Registration>>
  BY <1>1, <1>2 DEF Requesting, Forcing, Registering
<1>3. CASE q = <<Forced>>
  BY <1>1, <1>3 DEF Requesting, Forcing, Registering
<1>4. CASE q = <<Request>>
  BY <1>1, <1>4 DEF Requesting, Forcing, Registering
<1>5. CASE q = <<Registration, Request>>
  <2>1. Head(q) = Registration /\ Tail(q) = <<Request>>
    BY <1>5
  <2> QED BY <1>1, <1>5, <2>1 DEF Requesting, Forcing, Registering
<1>6. CASE q = <<Request, Forced>>
  <2>1. Head(q) = Request /\ Tail(q) = <<Forced>>
    BY <1>6
  <2> QED BY <1>1, <1>6, <2>1 DEF Requesting, Forcing, Registering
<1>7. CASE q = <<Registration, Request, Forced>>
  <2>1. Head(q) = Registration /\ Tail(q) = <<Request, Forced>>
    BY <1>7
  <2> QED BY <1>1, <1>7, <2>1 DEF Requesting, Forcing, Registering
<1> QED BY <1>2, <1>3, <1>4, <1>5, <1>6, <1>7 DEF Requesting

LEMMA QueuesApart ==
    /\ << >> \notin Registering \cup Requesting \cup Forcing
    /\ <<Registration>> \in Registering \ (Requesting \cup Forcing)
    /\ <<Forced>> \in Forcing \ (Registering \cup Requesting)
BY DEF Requesting, Forcing, Registering, Registration, Request, Forced

-----------------------------------------------------------------------------
(* What the sessions keep of the listener's calls. *)

Calls == {"RequestClose", "ForceClose"}

\* The session is closing, closed, or will be once its strand gets there.
Told(r) == r.state # "kOpen" \/ ~CallBound(r, "RequestClose")

\* Nothing is called that was not, and what has been told stays told.
KeepsCalls(r, s) ==
    /\ \A h \in Calls : CallBound(r, h) => CallBound(s, h)
    /\ Told(r) => Told(s)

\* What a member function does to the queue and the state of its session.
Follows(r, s) ==
    /\ s.strand \in {r.strand, Append(r.strand, "read_error"),
                       Append(r.strand, "write_error")}
    /\ r.state # "kOpen" => s.state # "kOpen"

LEMMA AppendCalls ==
    ASSUME NEW q \in Seq(Handlers), NEW h \in Handlers
    PROVE  \A call \in Calls :
              (\A i \in DOMAIN Append(q, h) : Append(q, h)[i] # call)
                 <=> (\A i \in DOMAIN q : q[i] # call) /\ h # call
<1>1. /\ DOMAIN Append(q, h) = DOMAIN q \cup {Len(q) + 1}
      /\ Append(q, h)[Len(q) + 1] = h
      /\ \A i \in DOMAIN q : Append(q, h)[i] = q[i]
  OBVIOUS
<1> QED BY <1>1

LEMMA TailCalls ==
    ASSUME NEW q \in Seq(Handlers), q # << >>
    PROVE  \A call \in Calls :
              (\A i \in DOMAIN q : q[i] # call)
                 <=> (\A i \in DOMAIN Tail(q) : Tail(q)[i] # call) /\ Head(q) # call
<1>1. /\ 1 \in DOMAIN q /\ Head(q) = q[1]
      /\ \A i \in DOMAIN Tail(q) : i + 1 \in DOMAIN q /\ Tail(q)[i] = q[i + 1]
      /\ \A i \in DOMAIN q : i # 1 => i - 1 \in DOMAIN Tail(q) /\ Tail(q)[i - 1] = q[i]
  OBVIOUS
<1> QED BY <1>1

LEMMA FollowsKeepsCalls ==
    ASSUME NEW r \in SessionRecord, NEW s \in SessionRecord, Follows(r, s)
    PROVE  KeepsCalls(r, s)
<1>1. r.strand \in Seq(Handlers)
  BY DEF SessionRecord
<1>2. {"read_error", "write_error"} \subseteq Handlers \ Calls
  BY DEF Handlers, Completions, ReadOutcomes, WriteOutcomes, Calls
<1>3. ASSUME NEW h \in Calls
      PROVE  CallBound(s, h) <=> CallBound(r, h)
  <2>1. CASE s.strand = r.strand
    BY <2>1 DEF CallBound
  <2>2. ASSUME NEW e \in {"read_error", "write_error"}, s.strand = Append(r.strand, e)
        PROVE  CallBound(s, h) <=> CallBound(r, h)
    <3>1. e \in Handlers /\ e # h
      BY <1>2
    <3> QED BY <1>1, <2>2, <3>1, AppendCalls DEF CallBound
  <2> QED BY <2>1, <2>2 DEF Follows
<1> QED BY <1>3 DEF Follows, KeepsCalls, Told, Calls

LEMMA InitiateFollows ==
    ASSUME NEW r \in SessionRecord, NEW op, NEW failure \in {"read_error", "write_error"}
    PROVE  Follows(r, Initiate(r, op, failure))
BY DEF Follows, Initiate, Post, SessionRecord

LEMMA MembersFollow ==
    ASSUME NEW r \in SessionRecord
    PROVE  /\ Follows(r, DoRead(r))
           /\ Follows(r, RequestClose(r))
           /\ \A force \in BOOLEAN : Follows(r, Close(r, force))
           /\ \A keepAlive \in BOOLEAN : Follows(r, DoWrite(r, keepAlive))
           /\ RequestClose(r).state # "kOpen"
<1>1. Follows(r, DoRead(r))
  BY InitiateFollows DEF DoRead
<1>2. Follows(r, RequestClose(r)) /\ RequestClose(r).state # "kOpen"
  BY DEF Follows, RequestClose, SessionRecord
<1>3. ASSUME NEW force \in BOOLEAN
      PROVE  Follows(r, Close(r, force))
  BY DEF Follows, Close, SessionRecord
<1>4. ASSUME NEW keepAlive \in BOOLEAN
      PROVE  Follows(r, DoWrite(r, keepAlive))
  <2> DEFINE limited == IF r.requests >= MaxRequests THEN RequestClose(r) ELSE r
             started == [limited EXCEPT
                            !.keepAlive = keepAlive /\ limited.state # "kClosing"]
             s == Initiate(started, "write", "write_error")
  <2>1. /\ limited \in SessionRecord
        /\ limited.strand = r.strand
        /\ r.state # "kOpen" => limited.state # "kOpen"
    BY RequestCloseType DEF RequestClose, SessionRecord
  <2>2. s = DoWrite(r, keepAlive)
    BY DEF DoWrite
  <2> HIDE DEF limited
  <2>3. started \in SessionRecord /\ started.strand = limited.strand /\ started.state = limited.state
    BY <2>1 DEF SessionRecord
  <2> HIDE DEF started
  <2>4. Follows(started, s)
    BY <2>3, InitiateFollows
  <2> HIDE DEF s
  <2>5. Follows(r, s)
    BY <2>1, <2>3, <2>4 DEF Follows
  <2> QED BY <2>2, <2>5
<1> QED BY <1>1, <1>2, <1>3, <1>4

LEMMA HandlersFollow ==
    ASSUME NEW r \in SessionRecord
    PROVE  /\ \A keepAlive \in BOOLEAN : Follows(r, HandleReadSuccess(r, keepAlive))
           /\ \A ec \in ReadOutcomes : Follows(r, HandleReadError(r, ec))
           /\ \A ec \in WriteOutcomes : Follows(r, HandleWritten(r, ec))
<1>1. ASSUME NEW keepAlive \in BOOLEAN
      PROVE  Follows(r, HandleReadSuccess(r, keepAlive))
  <2> DEFINE counted == [r EXCEPT !.requests = @ + 1]
  <2>1. counted \in SessionRecord /\ counted.strand = r.strand /\ counted.state = r.state
    BY DEF SessionRecord
  <2>2. HandleReadSuccess(r, keepAlive) = DoWrite(counted, keepAlive)
    BY DEF HandleReadSuccess
  <2> HIDE DEF counted
  <2>3. Follows(counted, DoWrite(counted, keepAlive))
    BY <2>1, MembersFollow
  <2> QED BY <2>1, <2>2, <2>3 DEF Follows
<1>2. ASSUME NEW ec
      PROVE  Follows(r, HandleReadError(r, ec)) /\ Follows(r, HandleWritten(r, ec))
  BY MembersFollow DEF HandleReadError, HandleWritten
<1> QED BY <1>1, <1>2

\* A handler of a session forgets no call but the one it carries out.
LEMMA HandlerKeepsCalls ==
    ASSUME SessionTypeOK, SessionTypeOK', NEW c \in Conns, RunHandler(c)
    PROVE  \A d \in Conns : KeepsCalls(sess[d], sess'[d])
<1> DEFINE r == sess[c]
           s == sess'[c]
<1>1. r \in SessionRecord /\ s \in SessionRecord /\ r.strand # << >>
  BY DEF SessionTypeOK, RunHandler, OnRun, OnRequestClose, OnForceClose, OnReadOk,
         OnReadFailed, OnWritten, RunHead
<1>2. Pop(r) \in SessionRecord /\ Pop(r).state = r.state /\ Pop(r).strand = Tail(r.strand)
  BY <1>1, StrandType DEF Pop, SessionRecord
<1>3. /\ Follows(Pop(r), s)
      /\ Head(r.strand) = "RequestClose" => s.state # "kOpen"
      /\ \A d \in Conns \ {c} : sess'[d] = sess[d]
  <2>1. ASSUME NEW h, NEW t, RunHead(c, h, t)
        PROVE  /\ s = t /\ Head(r.strand) = h
               /\ \A d \in Conns \ {c} : sess'[d] = sess[d]
    BY <2>1 DEF RunHead, SessionTypeOK
  <2>2. CASE OnRun(c)
    BY <1>2, <2>1, <2>2, MembersFollow DEF OnRun
  <2>3. CASE OnRequestClose(c)
    BY <1>2, <2>1, <2>3, MembersFollow DEF OnRequestClose
  <2>4. CASE OnForceClose(c)
    <3>1. Follows(Pop(r), Close(Pop(r), TRUE))
      BY <1>2, MembersFollow
    <3>2. RunHead(c, "ForceClose", Close(Pop(r), TRUE))
      BY <2>4 DEF OnForceClose
    <3>3. /\ s = Close(Pop(r), TRUE) /\ Head(r.strand) = "ForceClose"
          /\ \A d \in Conns \ {c} : sess'[d] = sess[d]
      BY <2>1, <3>2
    <3> QED BY <3>1, <3>3
  <2>5. CASE OnReadOk(c)
    BY <1>2, <2>1, <2>5, HandlersFollow DEF OnReadOk
  <2>6. CASE OnReadFailed(c)
    BY <1>2, <2>1, <2>6, HandlersFollow DEF OnReadFailed, ReadOutcomes
  <2>7. CASE OnWritten(c)
    BY <1>2, <2>1, <2>7, HandlersFollow DEF OnWritten, WriteOutcomes
  <2> QED BY <2>2, <2>3, <2>4, <2>5, <2>6, <2>7 DEF RunHandler
<1> HIDE DEF s
<1>4. KeepsCalls(Pop(r), s)
  BY <1>1, <1>2, <1>3, FollowsKeepsCalls
<1>5. ASSUME NEW h \in Calls
      PROVE  CallBound(r, h) <=> CallBound(Pop(r), h) /\ Head(r.strand) # h
  <2>1. r.strand \in Seq(Handlers)
    BY <1>1 DEF SessionRecord
  <2> HIDE DEF r
  <2> QED BY <1>1, <1>2, <2>1, TailCalls DEF CallBound
<1>6. KeepsCalls(r, s)
  BY <1>2, <1>3, <1>4, <1>5 DEF KeepsCalls, Told, Calls
<1>7. ASSUME NEW d \in Conns \ {c}
      PROVE  KeepsCalls(sess[d], sess'[d])
  BY <1>3 DEF KeepsCalls
<1> QED BY <1>6, <1>7 DEF s

LEMMA PostCalls ==
    ASSUME NEW r \in SessionRecord, NEW h \in Handlers
    PROVE  /\ \A call \in Calls : CallBound(Post(r, h), call) <=> CallBound(r, call) /\ h # call
           /\ Told(r) => Told(Post(r, h))
<1>1. r.strand \in Seq(Handlers) /\ Post(r, h).strand = Append(r.strand, h)
      /\ Post(r, h).state = r.state
  BY DEF SessionRecord, Post
<1>2. \A call \in Calls : CallBound(Post(r, h), call) <=> CallBound(r, call) /\ h # call
  BY <1>1, AppendCalls DEF CallBound
<1> QED BY <1>1, <1>2 DEF Told, Calls

LEMMA CompletionKeepsCalls ==
    ASSUME SessionTypeOK, NEW c \in Conns, Complete(c)
    PROVE  \A d \in Conns : KeepsCalls(sess[d], sess'[d])
<1>1. PICK op \in {"read", "write"}, ec \in Completions :
          sess' = [sess EXCEPT ![c] = Post(Done(sess[c], op), ec)]
  BY DEF Complete, CompleteRead, CompleteWrite, Completions
<1>2. /\ Done(sess[c], op) \in SessionRecord
      /\ Done(sess[c], op).strand = sess[c].strand /\ Done(sess[c], op).state = sess[c].state
      /\ ec \in Handlers \ Calls
  BY DEF SessionTypeOK, SessionRecord, Done, Handlers, Calls, Completions, ReadOutcomes,
         WriteOutcomes
<1>3. KeepsCalls(Done(sess[c], op), Post(Done(sess[c], op), ec))
  BY <1>2, PostCalls DEF KeepsCalls
<1>4. KeepsCalls(sess[c], Post(Done(sess[c], op), ec))
  BY <1>2, <1>3 DEF KeepsCalls, Told, CallBound
<1>5. ASSUME NEW d \in Conns
      PROVE  sess'[d] = IF d = c THEN Post(Done(sess[c], op), ec) ELSE sess[d]
  BY <1>1 DEF SessionTypeOK
<1>6. ASSUME NEW r PROVE KeepsCalls(r, r)
  BY DEF KeepsCalls
<1> QED BY <1>4, <1>5, <1>6

\* A call reaches every session it is made to, at once or through its strand.
LEMMA DispatchAllCalls ==
    ASSUME SessionTypeOK, NEW called \in SUBSET Conns, NEW inPlace \in SUBSET called,
           NEW h \in Calls, DispatchAll(called, h, inPlace)
    PROVE  \A c \in Conns :
              /\ Told(sess[c]) => Told(sess'[c])
              /\ h = "RequestClose" /\ c \in called => Told(sess'[c])
              /\ h = "RequestClose" =>
                    (CallBound(sess[c], "ForceClose") => CallBound(sess'[c], "ForceClose"))
<1> TAKE c \in Conns
<1>1. sess[c] \in SessionRecord /\ h \in Handlers
  BY DEF SessionTypeOK, Handlers, Calls
<1>2. CASE c \in inPlace
  <2>1. sess'[c] = Execute(sess[c], h)
    BY <1>2 DEF DispatchAll
  <2>2. Follows(sess[c], sess'[c]) /\ (h = "RequestClose" => sess'[c].state # "kOpen")
    BY <1>1, <2>1, MembersFollow DEF Execute, Calls
  <2>3. sess'[c] \in SessionRecord
    BY <1>1, <2>1, ExecuteType DEF Calls
  <2>4. KeepsCalls(sess[c], sess'[c])
    BY <1>1, <2>2, <2>3, FollowsKeepsCalls
  <2> QED BY <2>2, <2>4 DEF KeepsCalls, Told, Calls
<1>3. CASE c \in called \ inPlace
  <2>1. sess'[c] = Post(sess[c], h)
    BY <1>3 DEF DispatchAll
  <2> QED BY <1>1, <2>1, PostCalls DEF Told, Calls
<1>4. CASE c \notin called
  <2>1. sess'[c] = sess[c]
    BY <1>4 DEF DispatchAll
  <2> QED BY <1>4, <2>1
<1> QED BY <1>2, <1>3, <1>4

\* A new session has been called by nobody.
LEMMA OpenedUncalled ==
    ASSUME NEW inPlace \in BOOLEAN
    PROVE  CallBound(Dispatch(NewSession, "Run", inPlace), "ForceClose")
<1>1. NewSession \in SessionRecord /\ CallBound(NewSession, "ForceClose")
  BY NewSessionType DEF NewSession, CallBound
<1>2. CASE inPlace
  <2>1. Dispatch(NewSession, "Run", inPlace) = DoRead(NewSession)
    BY <1>2 DEF Dispatch, Execute
  <2>2. KeepsCalls(NewSession, DoRead(NewSession))
    BY <1>1, MembersFollow, FollowsKeepsCalls, DoReadType
  <2> QED BY <1>1, <2>1, <2>2 DEF KeepsCalls, Calls
<1>3. CASE ~inPlace
  <2>1. "Run" \in Handlers
    BY DEF Handlers
  <2> QED BY <1>1, <1>3, <2>1, PostCalls DEF Dispatch, Calls
<1> QED BY <1>2, <1>3

-----------------------------------------------------------------------------
(* The steps of main(), of its handlers and of its timer. *)

LEMMA ServiceInvInit == ServiceInit => WholeInv
<1> SUFFICES ASSUME ServiceInit
             PROVE  WholeInv
  OBVIOUS
<1>1. IInv /\ ChainInv
  BY InitIInv, ChainInvInit DEF ServiceInit, Init
<1>2. \A c \in Conns : CallBound(sess[c], "ForceClose")
  BY DEF ServiceInit, Init, SessionInit, NoSession, CallBound
<1>3. << >> \notin Forcing
  BY QueuesApart
<1> QED
  BY <1>1, <1>2, <1>3 DEF WholeInv, ServiceInv, ServiceInit, Init, PhasesInOrder, QueueInOrder,
     NothingForcedEarly, CallbackRegistered, NotificationIsPosted, AcceptsUntilShutdown,
     FewUntold

\* Most of what main() and its handlers do leaves the listener alone.
LEMMA ProcessSteps ==
    ASSUME WholeInv, UNCHANGED vars,
           \/ ConstructionFails \/ Exit \/ ArmTimer \/ TimerExpires \/ TimerStops
           \/ CallbackCancels \/ CallbackStops \/ UNCHANGED processVars
    PROVE  ServiceInv'
<1>1. UNCHANGED <<sess, sessions, shutdown_notified, on_shutdown_complete, posted,
                  shutting_down, accepting, strandL>>
  BY DEF vars, registryVars
<1>2. PhasesInOrder /\ QueueInOrder /\ NothingForcedEarly /\ CallbackRegistered
      /\ NotificationIsPosted /\ AcceptsUntilShutdown /\ FewUntold
  BY DEF WholeInv, ServiceInv
<1> USE DEF ConstructionFails, Exit, ArmTimer, TimerExpires, TimerStops, CallbackCancels,
            CallbackStops, processVars, Runnable
<1>3. PhasesInOrder' /\ QueueInOrder'
  BY <1>1, <1>2 DEF PhasesInOrder, QueueInOrder
<1>4. NothingForcedEarly'
  BY <1>1, <1>2 DEF NothingForcedEarly, CallBound, PhasesInOrder
<1>5. CallbackRegistered' /\ NotificationIsPosted' /\ AcceptsUntilShutdown' /\ FewUntold'
  BY <1>1, <1>2 DEF CallbackRegistered, NotificationIsPosted, AcceptsUntilShutdown, FewUntold, Untold
<1> QED BY <1>3, <1>4, <1>5 DEF ServiceInv

\* main() calls each function of the listener once, and in order.
LEMMA MainCalls ==
    ASSUME WholeInv
    PROVE  /\ Launch => CallFunction("SetOnShutdownComplete")
           /\ SignalArrives => CallFunction("RequestShutdown")
           /\ TimerForces => CallFunction("ForceShutdown")
<1>1. PhasesInOrder /\ QueueInOrder /\ NothingForcedEarly
  BY DEF WholeInv, ServiceInv
<1>2. Launch => CallFunction("SetOnShutdownComplete")
  BY <1>1, QueuesApart DEF Launch, CallFunction, PhasesInOrder
<1>3. SignalArrives => CallFunction("RequestShutdown")
  BY <1>1, Called DEF SignalArrives, CallFunction, QueueInOrder, Request
<1>4. ASSUME TimerForces
      PROVE  CallFunction("ForceShutdown")
  <2>1. timer = "expired" /\ signal = "done"
    BY <1>1, <1>4 DEF TimerForces, PhasesInOrder
  <2>2. strandL \in (Requesting \ Forcing) \cup {<< >>}
    BY <1>1, <2>1, QueuesApart DEF QueueInOrder, NothingForcedEarly, Forcing
  <2>3. \A i \in DOMAIN strandL : strandL[i] # "ForceShutdown"
    BY <2>2, Called DEF Forced
  <2> QED BY <1>1, <1>4, <2>1, <2>3 DEF TimerForces, CallFunction, NothingForcedEarly
<1> QED BY <1>2, <1>3, <1>4

LEMMA CallSteps ==
    ASSUME WholeInv, Launch \/ SignalArrives \/ TimerForces \/ StartListener
    PROVE  ServiceInv'
<1>1. /\ UNCHANGED <<sess, sessions, shutdown_notified, on_shutdown_complete, posted,
                      shutting_down>>
      /\ UNCHANGED accepting \/ (~shutting_down /\ accepting' = "pending")
  <2>1. CASE StartListener
    BY <2>1 DEF StartListener, Start, registryVars
  <2>2. CASE Launch \/ SignalArrives \/ TimerForces
    <3>1. \E f : Enqueue(f)
      BY <2>2 DEF Launch, SignalArrives, TimerForces
    <3> QED BY <3>1 DEF Enqueue, registryVars
  <2> QED BY <2>1, <2>2
<1>2. PhasesInOrder /\ QueueInOrder /\ NothingForcedEarly /\ CallbackRegistered
      /\ NotificationIsPosted /\ AcceptsUntilShutdown /\ FewUntold
  BY DEF WholeInv, ServiceInv
<1>3. NotificationIsPosted' /\ FewUntold'
  BY <1>1, <1>2 DEF NotificationIsPosted, FewUntold, Untold
<1>4. \A c \in Conns : CallBound(sess[c], "ForceClose") => CallBound(sess'[c], "ForceClose")
  BY <1>1
<1>5. CASE StartListener
  BY <1>1, <1>2, <1>3, <1>4, <1>5 DEF StartListener, Start, ServiceInv, PhasesInOrder, QueueInOrder,
     NothingForcedEarly, CallbackRegistered, AcceptsUntilShutdown
<1>6. CASE Launch
  <2>1. /\ strandL = << >> /\ strandL' = <<Registration>> /\ signal = "waiting"
        /\ UNCHANGED <<signal, timer, accepting>> /\ main = "started" /\ main' = "running"
    BY <1>2, <1>6, Called DEF Launch, Enqueue, PhasesInOrder, Registration
  <2>2. PhasesInOrder' /\ QueueInOrder' /\ NothingForcedEarly' /\ CallbackRegistered' /\ AcceptsUntilShutdown'
    BY <1>1, <1>2, <1>4, <2>1, QueuesApart DEF PhasesInOrder, QueueInOrder, NothingForcedEarly,
       CallbackRegistered, AcceptsUntilShutdown
  <2> QED BY <1>3, <2>2 DEF ServiceInv
<1>7. CASE SignalArrives
  <2>1. /\ strandL \in {<< >>, <<Registration>>} /\ strandL' = Append(strandL, Request)
        /\ signal = "waiting" /\ signal' = "arming" /\ ~shutting_down
        /\ timer = "idle"
        /\ UNCHANGED <<main, timer, accepting>> /\ main = "running"
    BY <1>2, <1>7 DEF SignalArrives, Runnable, Enqueue, QueueInOrder, PhasesInOrder, Request
  <2>2. strandL' \in Requesting \ Forcing /\ (strandL \in Registering => strandL' \in Registering)
    BY <2>1, Called, QueuesApart
  <2>3. PhasesInOrder' /\ QueueInOrder' /\ NothingForcedEarly' /\ CallbackRegistered' /\ AcceptsUntilShutdown'
    BY <1>1, <1>2, <1>4, <2>1, <2>2, QueuesApart DEF PhasesInOrder, QueueInOrder, NothingForcedEarly,
       CallbackRegistered, AcceptsUntilShutdown
  <2> QED BY <1>3, <2>3 DEF ServiceInv
<1>8. CASE TimerForces
  <2>1. /\ strandL' = Append(strandL, Forced) /\ signal = "done"
        /\ timer = "expired" /\ timer' = "forcing"
        /\ UNCHANGED <<main, signal, accepting>> /\ main = "running"
    BY <1>2, <1>8 DEF TimerForces, Runnable, Enqueue, PhasesInOrder, Forced
  <2>2. strandL \in (Requesting \ Forcing) \cup {<< >>}
    BY <1>2, <2>1, QueuesApart DEF QueueInOrder, NothingForcedEarly, Forcing
  <2>3. /\ strandL \in Requesting => strandL' \in Requesting
        /\ strandL \in Registering => strandL' \in Registering
        /\ strandL = << >> => strandL' = <<Forced>>
    BY <2>1, <2>2, Called
  <2>4. PhasesInOrder' /\ QueueInOrder' /\ NothingForcedEarly' /\ CallbackRegistered' /\ AcceptsUntilShutdown'
    BY <1>1, <1>2, <2>1, <2>2, <2>3, QueuesApart DEF PhasesInOrder, QueueInOrder, NothingForcedEarly,
       CallbackRegistered, AcceptsUntilShutdown
  <2> QED BY <1>3, <2>4 DEF ServiceInv
<1> QED BY <1>5, <1>6, <1>7, <1>8

-----------------------------------------------------------------------------
(* The steps of the io threads. *)

\* The untold only become fewer, unless a session is admitted.
LEMMA UntoldShrinks ==
    ASSUME IInv, FewUntold, UNCHANGED shutting_down,
           accepting' = "ok" <=> accepting = "ok",
           sessions' \subseteq sessions,
           \A c \in Conns : Told(sess[c]) => Told(sess'[c])
    PROVE  FewUntold'
<1>1. sessions \in SUBSET Conns
  BY DEF IInv, TypeOK
<1>2. Untold' \in SUBSET Untold /\ Untold \in SUBSET Conns
  BY <1>1 DEF Untold, Told
<1>3. Cardinality(Untold') <= Cardinality(Untold) /\ Cardinality(Untold) \in Nat
      /\ Cardinality(Untold') \in Nat
  BY <1>2, FiniteSessions
<1> QED BY <1>3 DEF FewUntold

\* A notification finds the callback that is registered (Listener.cpp:102-108).
LEMMA SettlePosts ==
    ASSUME NotificationIsPosted, NEW live, NEW closing \in BOOLEAN, NEW registered \in BOOLEAN,
           Settle(live, closing, registered),
           closing => registered \/ shutdown_notified,
           shutdown_notified \in BOOLEAN, posted \in BOOLEAN
    PROVE  /\ NotificationIsPosted'
           /\ registered \/ shutdown_notified => on_shutdown_complete' \/ shutdown_notified'
BY DEF NotificationIsPosted, Settle

LEMMA AcceptSteps ==
    ASSUME WholeInv, main = "running", UNCHANGED processVars, HandleAccept \/ CompleteAccept
    PROVE  ServiceInv'
<1>1. /\ PhasesInOrder /\ QueueInOrder /\ NothingForcedEarly /\ CallbackRegistered
      /\ NotificationIsPosted /\ AcceptsUntilShutdown /\ FewUntold /\ IInv
      /\ SessionTypeOK
  BY DEF WholeInv, ServiceInv, IInv, TypeOK
<1>2. UNCHANGED <<shutdown_notified, on_shutdown_complete, posted, shutting_down, strandL,
                  main, signal, timer>>
  BY DEF HandleAccept, AcceptAdmits, AcceptRefuses, AcceptFails, CompleteAccept, registryVars,
         processVars
<1>3. PhasesInOrder' /\ QueueInOrder' /\ CallbackRegistered' /\ NotificationIsPosted'
  BY <1>1, <1>2 DEF PhasesInOrder, QueueInOrder, CallbackRegistered, NotificationIsPosted
<1>4. ASSUME NEW c \in Conns, AcceptAdmits(c)
      PROVE  ServiceInv'
  <2>1. PICK inPlace \in BOOLEAN :
            sess' = [sess EXCEPT ![c] = Dispatch(NewSession, "Run", inPlace)]
    BY <1>4 DEF AcceptAdmits
  <2>2. /\ sess'[c] = Dispatch(NewSession, "Run", inPlace)
        /\ \A d \in Conns \ {c} : sess'[d] = sess[d]
    BY <1>1, <2>1 DEF SessionTypeOK
  <2>3. /\ accepting = "ok" /\ sessions' = sessions \cup {c}
        /\ accepting' = IF shutting_down THEN "none" ELSE "pending"
    BY <1>4 DEF AcceptAdmits, AcceptAgain
  <2>4. CallBound(sess'[c], "ForceClose")
    BY <2>2, OpenedUncalled
  <2>5. \A d \in Conns : CallBound(sess[d], "ForceClose") => CallBound(sess'[d], "ForceClose")
    BY <2>2, <2>4
  <2>6. NothingForcedEarly' /\ AcceptsUntilShutdown'
    BY <1>1, <1>2, <2>3, <2>5 DEF NothingForcedEarly, AcceptsUntilShutdown
  <2>7. ASSUME shutting_down
        PROVE  Cardinality(Untold') <= 1
    <3>1. Untold \in SUBSET Conns /\ sessions \in SUBSET Conns
      BY <1>1 DEF IInv, TypeOK, Untold
    <3>2. Cardinality(Untold) = 0
      <4>1. Cardinality(Untold) <= 0
        BY <1>1, <2>3, <2>7 DEF FewUntold
      <4>2. Cardinality(Untold) \in Nat
        BY <3>1, FiniteSessions
      <4> QED BY <4>1, <4>2
    <3>3. Untold = {}
      BY <3>1, <3>2, FiniteSessions, FS_EmptySet
    <3>4. Untold' \in SUBSET {c} /\ {c} \in SUBSET Conns
      BY <2>2, <2>3, <3>1, <3>3 DEF Untold
    <3>5. Cardinality({c}) = 1
      BY FS_Singleton
    <3> QED BY <3>4, <3>5, FiniteSessions
  <2>8. FewUntold'
    BY <1>2, <2>3, <2>7 DEF FewUntold
  <2> QED BY <1>3, <2>6, <2>8 DEF ServiceInv
<1>5. CASE AcceptRefuses \/ AcceptFails \/ CompleteAccept
  <2>1. UNCHANGED <<sess, sessions>>
    BY <1>5 DEF AcceptRefuses, AcceptFails, CompleteAccept, registryVars
  <2>2. NothingForcedEarly'
    BY <1>1, <1>2, <2>1 DEF NothingForcedEarly
  <2>3. /\ ~shutting_down => accepting' # "none"
        /\ shutting_down => accepting' # "ok"
    <3>1. CASE AcceptRefuses \/ AcceptFails
      BY <3>1 DEF AcceptRefuses, AcceptFails, AcceptAgain
    <3>2. CASE CompleteAccept
      BY <1>1, <3>2 DEF CompleteAccept, IInv, AcceptorClosed
    <3> QED BY <1>5, <3>1, <3>2
  <2>4. FewUntold'
    <3>1. Untold' = Untold
      BY <2>1 DEF Untold
    <3>2. Cardinality(Untold) \in Nat
      BY <1>1, FiniteSessions DEF IInv, TypeOK, Untold
    <3>3. shutting_down => Cardinality(Untold) <= 1
      BY <1>1, <3>2 DEF FewUntold
    <3> QED BY <1>2, <2>3, <3>1, <3>3 DEF FewUntold
  <2> QED BY <1>2, <1>3, <2>2, <2>3, <2>4 DEF ServiceInv, AcceptsUntilShutdown
<1> QED BY <1>4, <1>5 DEF HandleAccept

LEMMA SessionSteps ==
    ASSUME WholeInv, IInv', main = "running", UNCHANGED processVars,
           NEW c \in Conns, SessionHandler(c) \/ CompleteOperation(c)
    PROVE  ServiceInv'
<1>1. /\ PhasesInOrder /\ QueueInOrder /\ NothingForcedEarly /\ CallbackRegistered
      /\ NotificationIsPosted /\ AcceptsUntilShutdown /\ FewUntold /\ IInv
      /\ TypeOK /\ SessionTypeOK /\ SessionTypeOK'
  BY DEF WholeInv, ServiceInv, IInv, TypeOK
<1>2. UNCHANGED <<shutting_down, accepting, strandL, main, signal, timer>>
  BY DEF SessionHandler, CompleteOperation, processVars
<1>3. \A d \in Conns : KeepsCalls(sess[d], sess'[d])
  BY <1>1, HandlerKeepsCalls, CompletionKeepsCalls DEF SessionHandler, CompleteOperation
<1>4. PhasesInOrder' /\ QueueInOrder' /\ NothingForcedEarly' /\ AcceptsUntilShutdown'
  BY <1>1, <1>2, <1>3 DEF PhasesInOrder, QueueInOrder, NothingForcedEarly, AcceptsUntilShutdown,
     KeepsCalls, Calls
<1>5. CASE UNCHANGED registryVars
  <2>1. FewUntold'
    BY <1>1, <1>2, <1>3, <1>5, UntoldShrinks DEF registryVars, KeepsCalls
  <2> QED
    BY <1>1, <1>2, <1>4, <1>5, <2>1 DEF ServiceInv, registryVars, CallbackRegistered,
       NotificationIsPosted
<1>6. CASE Settle(sessions \ {c}, shutting_down, on_shutdown_complete)
  <2>1. sessions' \subseteq sessions
    BY <1>6 DEF Settle
  <2>2. FewUntold'
    BY <1>1, <1>2, <1>3, <2>1, UntoldShrinks DEF KeepsCalls
  <2>3. shutting_down => on_shutdown_complete \/ shutdown_notified
    BY <1>1, QueuesApart DEF QueueInOrder, CallbackRegistered
  <2>4. /\ NotificationIsPosted'
        /\ on_shutdown_complete \/ shutdown_notified
              => on_shutdown_complete' \/ shutdown_notified'
    BY <1>1, <1>6, <2>3, SettlePosts DEF TypeOK
  <2>5. CallbackRegistered'
    BY <1>1, <1>2, <2>4 DEF CallbackRegistered
  <2> QED BY <1>4, <2>2, <2>4, <2>5 DEF ServiceInv
<1> QED
  BY <1>5, <1>6 DEF SessionHandler, CompleteOperation, OnSessionClosed

\* The registration runs before anything else of the listener.
LEMMA RegistrationSteps ==
    ASSUME WholeInv, main = "running", UNCHANGED processVars, SetOnShutdownComplete
    PROVE  ServiceInv'
<1>1. /\ PhasesInOrder /\ QueueInOrder /\ NothingForcedEarly
      /\ NotificationIsPosted /\ AcceptsUntilShutdown /\ FewUntold /\ IInv /\ TypeOK
  BY DEF WholeInv, ServiceInv, IInv
<1>2. /\ strandL # << >> /\ Head(strandL) = Registration /\ strandL' = Tail(strandL)
      /\ Settle(sessions, shutting_down, TRUE)
      /\ UNCHANGED <<sess, shutting_down, accepting, main, signal, timer>>
  BY DEF SetOnShutdownComplete, RunFunction, processVars, Registration
<1>3. strandL \in {<< >>, <<Registration>>, <<Forced>>} \cup Requesting
  BY <1>1 DEF QueueInOrder
<1>4. /\ strandL \in Registering /\ strandL' \notin Registering
      /\ strandL = <<Registration>> => strandL' = << >>
      /\ strandL \in Requesting => strandL' \in Requesting
      /\ strandL \notin Forcing => strandL' \notin Forcing
  BY <1>2, <1>3, Popped
<1>5. ~shutting_down
  BY <1>1, <1>4, QueuesApart DEF QueueInOrder
<1>6. /\ PhasesInOrder' /\ QueueInOrder' /\ AcceptsUntilShutdown' /\ FewUntold'
  BY <1>1, <1>2, <1>4, <1>5, QueuesApart DEF PhasesInOrder, QueueInOrder, AcceptsUntilShutdown, FewUntold
<1>7. NothingForcedEarly'
  BY <1>1, <1>2, <1>4 DEF NothingForcedEarly
<1>8. NotificationIsPosted' /\ (on_shutdown_complete' \/ shutdown_notified')
  BY <1>1, <1>2, <1>5, SettlePosts DEF TypeOK
<1> QED BY <1>6, <1>7, <1>8 DEF ServiceInv, CallbackRegistered

\* The request tells every session, and finds the callback registered.
LEMMA RequestSteps ==
    ASSUME WholeInv, IInv', main = "running", UNCHANGED processVars, RequestShutdown
    PROVE  ServiceInv'
<1>1. /\ PhasesInOrder /\ QueueInOrder /\ NothingForcedEarly /\ CallbackRegistered
      /\ NotificationIsPosted /\ IInv /\ TypeOK /\ SessionTypeOK /\ sessions \in SUBSET Conns
  BY DEF WholeInv, ServiceInv, IInv, TypeOK
<1>2. /\ strandL # << >> /\ Head(strandL) = Request /\ strandL' = Tail(strandL)
      /\ Settle(sessions, TRUE, on_shutdown_complete)
      /\ shutting_down' = TRUE
      /\ UNCHANGED <<main, signal, timer>>
  BY DEF RequestShutdown, RunFunction, processVars, Request
<1>3. strandL \in {<< >>, <<Registration>>, <<Forced>>} \cup Requesting
  BY <1>1 DEF QueueInOrder
<1>4. /\ strandL \in Requesting \ Registering
      /\ strandL' \in {<< >>, <<Forced>>}
      /\ strandL \notin Forcing => strandL' = << >>
  BY <1>2, <1>3, Popped
<1>5. ~shutting_down /\ signal # "waiting"
  BY <1>1, <1>4, QueuesApart DEF QueueInOrder
<1>6. PICK inPlace \in InPlace(sessions) : DispatchAll(sessions, "RequestClose", inPlace)
  BY <1>5 DEF RequestShutdown
<1>7. \A c \in Conns :
         /\ c \in sessions => Told(sess'[c])
         /\ CallBound(sess[c], "ForceClose") => CallBound(sess'[c], "ForceClose")
  <2>1. inPlace \in SUBSET sessions
    BY DEF InPlace
  <2> QED BY <1>1, <1>6, <2>1, DispatchAllCalls DEF Calls
<1>8. PhasesInOrder' /\ QueueInOrder' /\ AcceptsUntilShutdown'
  BY <1>1, <1>2, <1>4, <1>5 DEF PhasesInOrder, QueueInOrder, AcceptsUntilShutdown
<1>9. NothingForcedEarly'
  BY <1>1, <1>2, <1>4, <1>7, QueuesApart DEF NothingForcedEarly
<1>10. on_shutdown_complete \/ shutdown_notified
  BY <1>1, <1>4, <1>5 DEF CallbackRegistered
<1>11. NotificationIsPosted' /\ (on_shutdown_complete' \/ shutdown_notified')
  BY <1>1, <1>2, <1>10, SettlePosts DEF TypeOK
<1>12. FewUntold'
  <2>1. sessions' = sessions
    BY <1>2 DEF Settle
  <2>2. Untold' = {}
    BY <1>1, <1>7, <2>1 DEF Untold, Told
  <2>3. Cardinality(Untold') = 0
    BY <2>2, FS_EmptySet
  <2> QED BY <2>3 DEF FewUntold
<1> QED BY <1>8, <1>9, <1>11, <1>12 DEF ServiceInv, CallbackRegistered

\* A forced shutdown comes after the request, and unmakes nothing of it.
LEMMA ForceSteps ==
    ASSUME WholeInv, IInv', main = "running", UNCHANGED processVars, ForceShutdown
    PROVE  ServiceInv'
<1>1. /\ PhasesInOrder /\ QueueInOrder /\ NothingForcedEarly /\ CallbackRegistered
      /\ NotificationIsPosted /\ FewUntold /\ IInv /\ TypeOK /\ SessionTypeOK
      /\ sessions \in SUBSET Conns
  BY DEF WholeInv, ServiceInv, IInv, TypeOK
<1>2. /\ strandL # << >> /\ Head(strandL) = Forced /\ strandL' = Tail(strandL)
      /\ shutting_down' = TRUE
      /\ UNCHANGED <<main, signal, timer>>
  BY DEF ForceShutdown, RunFunction, processVars, Forced
<1>3. strandL \in {<< >>, <<Registration>>, <<Forced>>} \cup Requesting
  BY <1>1 DEF QueueInOrder
<1>4. strandL = <<Forced>> /\ strandL' = << >>
  BY <1>2, <1>3, Popped
<1>5. shutting_down /\ timer \in {"forcing", "done"} /\ strandL \notin Registering
  BY <1>1, <1>4, QueuesApart DEF QueueInOrder, NothingForcedEarly
<1>6. PICK visited \in SUBSET sessions : \E inPlace \in InPlace(visited) :
          /\ DispatchAll(visited, "ForceClose", inPlace)
          /\ Settle(sessions \ inPlace, TRUE, on_shutdown_complete)
  BY DEF ForceShutdown
<1>7. PICK inPlace \in InPlace(visited) :
          /\ DispatchAll(visited, "ForceClose", inPlace)
          /\ Settle(sessions \ inPlace, TRUE, on_shutdown_complete)
  BY <1>6
<1>8. \A c \in Conns : Told(sess[c]) => Told(sess'[c])
  <2>1. inPlace \in SUBSET visited /\ visited \in SUBSET Conns
    BY <1>1 DEF InPlace
  <2> QED BY <1>1, <1>7, <2>1, DispatchAllCalls DEF Calls
<1>9. accepting' = accepting
  BY <1>5 DEF ForceShutdown
<1>10. FewUntold'
  <2>1. sessions' \subseteq sessions
    BY <1>7 DEF Settle
  <2> QED BY <1>1, <1>2, <1>5, <1>8, <1>9, <2>1, UntoldShrinks
<1>11. on_shutdown_complete \/ shutdown_notified
  BY <1>1, <1>5 DEF CallbackRegistered
<1>12. NotificationIsPosted' /\ (on_shutdown_complete' \/ shutdown_notified')
  BY <1>1, <1>7, <1>11, SettlePosts DEF TypeOK
<1>13. PhasesInOrder' /\ QueueInOrder' /\ AcceptsUntilShutdown' /\ NothingForcedEarly'
  BY <1>1, <1>2, <1>4, <1>5 DEF PhasesInOrder, QueueInOrder, AcceptsUntilShutdown, NothingForcedEarly
<1> QED BY <1>10, <1>12, <1>13 DEF ServiceInv, CallbackRegistered

-----------------------------------------------------------------------------
(* The theorems. *)

\* Every step of the service is a step of the listener, or none of its business.
LEMMA ServiceStep == WholeInv /\ [ServiceNext]_serviceVars => [Next]_vars
<1> SUFFICES ASSUME WholeInv, [ServiceNext]_serviceVars
             PROVE  [Next]_vars
  OBVIOUS
<1>1. CASE UNCHANGED serviceVars \/ Ended
  BY <1>1 DEF serviceVars, Ended
<1>2. CASE \/ ConstructionFails \/ Exit \/ ArmTimer \/ TimerExpires \/ TimerStops
           \/ CallbackCancels \/ CallbackStops
  BY <1>2 DEF ConstructionFails, Exit, ArmTimer, TimerExpires, TimerStops,
     CallbackCancels, CallbackStops
<1>3. CASE ~crashed /\ (Launch \/ SignalArrives \/ TimerForces)
  BY <1>3, MainCalls DEF Next, Functions
<1>4. CASE ~crashed /\ StartListener
  BY <1>4 DEF StartListener, Next
<1>5. CASE ~crashed /\ IoThreads
  BY <1>5 DEF IoThreads, Next, Serve
<1> QED BY <1>1, <1>2, <1>3, <1>4, <1>5 DEF ServiceNext, Shutdown

LEMMA ServiceInvNext ==
    ASSUME WholeInv, [ServiceNext]_serviceVars
    PROVE  ServiceInv'
<1>1. IInv'
  BY ServiceStep, NextIInv DEF WholeInv
<1>2. CASE UNCHANGED serviceVars \/ Ended
  BY <1>2, ProcessSteps DEF serviceVars, Ended
<1>3. CASE \/ ConstructionFails \/ Exit \/ ArmTimer \/ TimerExpires \/ TimerStops
           \/ CallbackCancels \/ CallbackStops
  <2>1. UNCHANGED vars
    BY <1>3 DEF ConstructionFails, Exit, ArmTimer, TimerExpires, TimerStops, CallbackCancels,
       CallbackStops
  <2> QED BY <1>3, <2>1, ProcessSteps
<1>4. CASE Launch \/ SignalArrives \/ TimerForces \/ StartListener
  BY <1>4, CallSteps
<1>5. CASE IoThreads
  <2>1. main = "running" /\ UNCHANGED processVars
    BY <1>5 DEF IoThreads
  <2>2. CASE HandleAccept \/ CompleteAccept
    BY <2>1, <2>2, AcceptSteps
  <2>3. CASE ListenerHandler
    BY <1>1, <2>1, <2>3, RegistrationSteps, RequestSteps, ForceSteps DEF ListenerHandler
  <2>4. ASSUME NEW c \in Conns, SessionHandler(c) \/ CompleteOperation(c)
        PROVE  ServiceInv'
    BY <1>1, <2>1, <2>4, SessionSteps
  <2> QED BY <1>5, <2>2, <2>3, <2>4 DEF IoThreads
<1> QED BY <1>2, <1>3, <1>4, <1>5 DEF ServiceNext, Shutdown

LEMMA WholeInvNext == WholeInv /\ [ServiceNext]_serviceVars => WholeInv'
BY ServiceStep, ServiceInvNext, NextIInv, ListenerKeepsChain DEF WholeInv

\* The invariant of the process, of its listener and of every session.
THEOREM ServiceInvariant == ServiceSpec => []WholeInv
BY ServiceInvInit, WholeInvNext, PTL DEF ServiceSpec

\* main() calls the listener's functions as the listener's own specification
\* allows, so what is proved of a listener holds of the service's
\* (main.cpp:85-138).
THEOREM ServiceImplementsListener == ServiceSpec => ImplementsListener
<1>1. ServiceInit => Init
  BY DEF ServiceInit
<1> QED BY <1>1, ServiceStep, ServiceInvariant, PTL DEF ServiceSpec, ImplementsListener

\* A drain is never noticed without the callback that stops the process being
\* posted (main.cpp:91, 105; Listener.cpp:102-108).
THEOREM NotificationNeverLost == ServiceSpec => []NotificationIsPosted
<1>1. WholeInv => NotificationIsPosted
  BY DEF WholeInv, ServiceInv
<1> QED BY <1>1, ServiceInvariant, PTL

\* A shutdown has told every session to close but one that came after it
\* (Listener.cpp:60-62, 164-166).
THEOREM DrainReachesSessions == ServiceSpec => []DrainTellsEverySession
<1>1. WholeInv => DrainTellsEverySession
  BY DEF WholeInv, ServiceInv, FewUntold, Untold, DrainTellsEverySession
<1> QED BY <1>1, ServiceInvariant, PTL

\* Nothing but a shutdown ends the accept loop (main.cpp:86, Listener.cpp:143-169).
THEOREM AcceptLoopGoesOn == ServiceSpec => []AcceptsUntilShutdown
<1>1. WholeInv => AcceptsUntilShutdown
  BY DEF WholeInv, ServiceInv
<1> QED BY <1>1, ServiceInvariant, PTL
=============================================================================
