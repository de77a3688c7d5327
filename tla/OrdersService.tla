---------------------------- MODULE OrdersService ----------------------------
(***************************************************************************)
(* CreateOrdersService: what main() adds to the listener.  It starts the   *)
(* listener, registers the callback that stops the io_context, waits for a *)
(* signal to begin a graceful shutdown, and gives that shutdown a deadline *)
(* after which it forces the sessions closed.                              *)
(*                                                                         *)
(* The signal handler, the timer's handler and the callback run outside    *)
(* every strand, on any of the io threads and at the same time: each of    *)
(* their calls is a step of its own.                                       *)
(***************************************************************************)
EXTENDS Listener

VARIABLES
    main,       \* the main thread: where it is between 85 and 141
    signal,     \* the signal handler and beginShutdown
    timer,      \* shutdownTimer and its handler
    callback,   \* the shutdown callback, run by ioc_ once it is posted
    stopped     \* ioc.stop() has been called

processVars == <<main, signal, timer, callback, stopped>>
serviceVars == <<vars, processVars>>

ServiceInit ==
    /\ Init
    /\ main = "created"
    /\ signal = "waiting"
    /\ timer = "idle"
    /\ callback = "idle"
    /\ stopped = FALSE

-----------------------------------------------------------------------------
(* The main thread. *)

\* The constructor throws if it cannot open, bind or listen: main() catches the
\* exception and returns.
ConstructionFails ==
    /\ main = "created"
    /\ main' = "exited"
    /\ UNCHANGED <<vars, signal, timer, callback, stopped>>

StartListener ==
    /\ main = "created"
    /\ Start
    /\ main' = "started"
    /\ UNCHANGED <<signal, timer, callback, stopped>>

\* No callback is registered.
SlipLaunchUnregistered ==
    /\ main = "started"
    /\ main' = "running"
    /\ UNCHANGED <<vars, signal, timer, callback, stopped>>

\* The callback is registered before there is an io thread, so it is the first
\* handler of the listener's strand; then the threads start.
Launch ==
    /\ main = "started"
    /\ Enqueue("SetOnShutdownComplete")
    /\ main' = "running"
    /\ UNCHANGED <<signal, timer, callback, stopped>>

\* The threads return from run() when the io_context is stopped, once the
\* handlers they are running have returned.
Exit ==
    /\ main = "running"
    /\ stopped
    /\ signal # "arming" /\ timer # "forcing" /\ callback # "stopping"
    /\ main' = "exited"
    /\ UNCHANGED <<vars, signal, timer, callback, stopped>>

-----------------------------------------------------------------------------
(* beginShutdown.  signals.async_wait is armed once: later signals are       *)
(* consumed by the signal set and nobody waits for them.                     *)

Runnable == main = "running" /\ ~stopped

\* RequestShutdown runs on the signal handler's thread instead of the strand.
SlipSignalBypassesStrand ==
    /\ Runnable
    /\ signal = "waiting"
    /\ shutting_down' = TRUE
    /\ CloseAcceptor
    /\ signal' = "arming"
    /\ UNCHANGED <<sess, registryVars, strandL, crashed, main, timer, callback, stopped>>

SignalArrives ==
    /\ Runnable
    /\ signal = "waiting"
    /\ Enqueue("RequestShutdown")
    /\ signal' = "arming"
    /\ UNCHANGED <<main, timer, callback, stopped>>

ArmTimer ==
    /\ signal = "arming"
    /\ signal' = "done"
    /\ timer' = "armed"
    /\ UNCHANGED <<vars, main, callback, stopped>>

TimerExpires ==
    /\ Runnable
    /\ timer = "armed"
    /\ timer' = "expired"
    /\ UNCHANGED <<vars, main, signal, callback, stopped>>

\* An expired wait is beyond the reach of cancel(): its handler runs.
TimerForces ==
    /\ Runnable
    /\ timer = "expired"
    /\ Enqueue("ForceShutdown")
    /\ timer' = "forcing"
    /\ UNCHANGED <<main, signal, callback, stopped>>

\* The forced shutdown does not stop the io_context.
SlipTimerDoesNotStop ==
    /\ timer = "forcing"
    /\ timer' = "done"
    /\ UNCHANGED <<vars, main, signal, callback, stopped>>

TimerStops ==
    /\ timer = "forcing"
    /\ timer' = "done"
    /\ stopped' = TRUE
    /\ UNCHANGED <<vars, main, signal, callback>>

-----------------------------------------------------------------------------
(* The shutdown callback. *)

CallbackCancels ==
    /\ Runnable
    /\ posted
    /\ callback = "idle"
    /\ timer' = IF timer = "armed" THEN "cancelled" ELSE timer
    /\ callback' = "stopping"
    /\ UNCHANGED <<vars, main, signal, stopped>>

CallbackStops ==
    /\ callback = "stopping"
    /\ callback' = "done"
    /\ stopped' = TRUE
    /\ UNCHANGED <<vars, main, signal, timer>>

-----------------------------------------------------------------------------
(* The io threads. *)

\* stop() keeps the reactor from delivering anything more; a strand that a
\* thread is running may still run the handlers it has.
IoThreads ==
    /\ main = "running"
    /\ \/ HandleAccept
       \/ ListenerHandler
       \/ \E c \in Conns : SessionHandler(c)
       \/ ~stopped /\ (CompleteAccept \/ \E c \in Conns : CompleteOperation(c))
    /\ UNCHANGED processVars

Shutdown ==
    \/ ArmTimer \/ TimerExpires \/ TimerForces \/ TimerStops
    \/ CallbackCancels \/ CallbackStops

\* The process is gone.
Ended == (main = "exited" \/ crashed) /\ UNCHANGED serviceVars

ServiceNext ==
    \/ ~crashed /\ ( \/ ConstructionFails \/ StartListener \/ Launch \/ Exit
                     \/ SignalArrives \/ Shutdown \/ IoThreads )
    \/ Ended

\* The main thread and the io threads run; clients, the network and signals are
\* under no obligation, except that a deadline ends every operation.
ServiceFairness ==
    /\ WF_serviceVars(~crashed /\ Launch)
    /\ WF_serviceVars(~crashed /\ Exit)
    /\ WF_serviceVars(~crashed /\ ArmTimer)
    /\ WF_serviceVars(~crashed /\ TimerExpires)
    /\ WF_serviceVars(~crashed /\ TimerForces)
    /\ WF_serviceVars(~crashed /\ TimerStops)
    /\ WF_serviceVars(~crashed /\ CallbackCancels)
    /\ WF_serviceVars(~crashed /\ CallbackStops)

ServiceSpec == ServiceInit /\ [][ServiceNext]_serviceVars /\ ServiceFairness

-----------------------------------------------------------------------------
(* What the service promises. *)

\* main() uses the listener as its own specification allows, so what is proved
\* of the listener holds in the service (main.cpp:85-138).
ImplementsListener == Init /\ [][Next]_vars

\* The notification is never lost: the callback is registered before the first
\* handler that can complete the drain, so that it is posted the moment the
\* drain is noticed (main.cpp:91, 105; Listener.cpp:102-108).
NotificationIsPosted == shutdown_notified => posted

\* The sessions still open in a drain have all been told to close, except one
\* whose accept had completed before the acceptor was closed
\* (Listener.cpp:60-62, 164-166).
DrainTellsEverySession ==
    shutting_down
        => LET untold == {c \in sessions : /\ sess[c].state = "kOpen"
                                           /\ CallBound(sess[c], "RequestClose")}
           IN  Cardinality(untold) <= (IF accepting = "ok" THEN 0 ELSE 1)

\* From its start to a shutdown the service accepts, or is about to: neither an
\* accept error, such as running out of descriptors, nor a client too many ends
\* the loop (main.cpp:86, Listener.cpp:143-148, 158-169).
AcceptsUntilShutdown ==
    main \in {"started", "running"} /\ ~shutting_down => accepting # "none"

\* "graceful shutdown complete" (main.cpp:93): when the callback runs, no
\* session is left that ioc.stop() would cut off.
GracefulStopIsComplete == callback = "stopping" => sessions = {}

\* "graceful shutdown timeout reached, forcing close" (main.cpp:117): the
\* ForceShutdown that the timer's handler dispatched has run before the process
\* ends.
ForcedCloseIsDone ==
    main = "exited" => \A i \in DOMAIN strandL : strandL[i] # "ForceShutdown"

\* A signal ends the process: by the drain if clients let it, by the deadline
\* if they do not (main.cpp:97-121, 140-142).
SignalEndsTheProcess == signal # "waiting" ~> main = "exited" \/ crashed
=============================================================================
