------------------------------- MODULE WsLink -------------------------------
(***************************************************************************)
(* One market-data link to a venue: the reconnect loop (ReconnectManager), *)
(* the Binance WebSocket client it drives, the client's stall watchdog and *)
(* the data source that starts, subscribes and stops them.  All of them    *)
(* are coroutines of one event loop; an action below is what one of them   *)
(* does between two awaits that really suspend.                            *)
(*                                                                         *)
(* The venue and the `websockets` library are external.  A connection ends *)
(* "lost" (the receive loop's iteration raises ConnectionClosed) or        *)
(* "finished" (closed in order by either side with code 1000 or 1001: the  *)
(* iteration ends without an exception).                                   *)
(*                                                                         *)
(* Abstractions: time (backoff delays, the idle timer and the hour of the  *)
(* restart window pass nondeterministically), the messages themselves, and *)
(* the attempt counter, which only sets the length of the backoff.         *)
(***************************************************************************)
EXTENDS Integers

CONSTANTS
    Streams,       \* stream names
    MaxRestarts,   \* max_restarts_per_hour
    PeerCloses     \* how the venue may end a connection

ASSUME ConstantsAssumption ==
    /\ MaxRestarts \in Nat
    /\ PeerCloses \subseteq {"lost", "finished"}

VARIABLES
    manager,        \* where ReconnectManager.run is
    ws,             \* the client's _ws and the state of that connection
    connected,      \* _is_connected
    disconnected,   \* _disconnected_event is set
    receiving,      \* _receive_task is running
    subscriptions,  \* the client's _subscriptions
    served,         \* streams the venue sends on the current connection
    watchdog,       \* the watchdog's _task and _stopped
    armed,          \* the watchdog's _armed
    restarts,       \* length of _restart_timestamps
    sessions,       \* connections opened within the hour (saturates)
    shutdown,       \* _shutdown_event is set
    stopping        \* progress of BinanceSource.stop

vars == <<manager, ws, connected, disconnected, receiving, subscriptions, served,
          watchdog, armed, restarts, sessions, shutdown, stopping>>

ManagerPc == {"connecting", "announcing", "listening", "backoff", "done"}
Ended == {"lost", "finished"}
Socket == {"none", "open"} \cup Ended
SessionLimit == MaxRestarts + 2   \* bound: sessions is counted up to here

TypeOK ==
    /\ manager \in ManagerPc
    /\ ws \in Socket
    /\ connected \in BOOLEAN
    /\ disconnected \in BOOLEAN
    /\ receiving \in BOOLEAN
    /\ subscriptions \in SUBSET Streams
    /\ served \in SUBSET Streams
    /\ watchdog \in {"fresh", "running", "stopped"}
    /\ armed \in BOOLEAN
    /\ restarts \in 0..MaxRestarts
    /\ sessions \in 0..SessionLimit
    /\ shutdown \in BOOLEAN
    /\ stopping \in {"no", "closing", "done"}

\* start() has built the client and created the reconnect task.
Init ==
    /\ manager = "connecting"
    /\ ws = "none"
    /\ connected = FALSE
    /\ disconnected = FALSE
    /\ receiving = FALSE
    /\ subscriptions = {}
    /\ served = {}
    /\ watchdog = "fresh"
    /\ armed = FALSE
    /\ restarts = 0
    /\ sessions = 0
    /\ shutdown = FALSE
    /\ stopping = "no"

-------------------------------------------------------------------------------
(* ReconnectManager.run *)

RestartUnchecked ==
    /\ manager' = "backoff"
    /\ restarts' = restarts + 1

\* The exception branch: _check_restart_rate allows another restart, or the
\* loop ends.
Restart ==
    IF restarts < MaxRestarts
    THEN manager' = "backoff" /\ restarts' = restarts + 1
    ELSE manager' = "done" /\ UNCHANGED restarts

ConnectFails ==
    /\ manager = "connecting"
    /\ Restart
    /\ UNCHANGED <<ws, connected, disconnected, receiving, subscriptions, served,
                   watchdog, armed, sessions, shutdown, stopping>>

\* classify_error says AUTH: the loop ends.
ConnectRefused ==
    /\ manager = "connecting"
    /\ manager' = "done"
    /\ UNCHANGED <<ws, connected, disconnected, receiving, subscriptions, served,
                   watchdog, armed, restarts, sessions, shutdown, stopping>>

OpenSocketEventKept ==
    /\ manager = "connecting"
    /\ manager' = "announcing"
    /\ ws' = "open"
    /\ served' = {}
    /\ connected' = TRUE
    /\ sessions' = IF sessions < SessionLimit THEN sessions + 1 ELSE sessions
    /\ UNCHANGED <<disconnected, receiving, subscriptions, watchdog, armed, restarts,
                   shutdown, stopping>>

\* The connection is open: _dispatch_connect marks it and awaits on_connect,
\* which fetches order-book snapshots by REST.
OpenSocket ==
    /\ manager = "connecting"
    /\ manager' = "announcing"
    /\ ws' = "open"
    /\ served' = {}
    /\ connected' = TRUE
    /\ disconnected' = FALSE
    /\ sessions' = IF sessions < SessionLimit THEN sessions + 1 ELSE sessions
    /\ UNCHANGED <<receiving, subscriptions, watchdog, armed, restarts, shutdown, stopping>>

FinishConnectNoResubscribe ==
    /\ manager = "announcing"
    /\ watchdog' = "running"
    /\ armed' = (armed \/ subscriptions # {})
    /\ receiving' = TRUE
    /\ manager' = "listening"
    /\ UNCHANGED <<ws, connected, disconnected, subscriptions, served, restarts, sessions,
                   shutdown, stopping>>

\* The rest of connect (watchdog, receive loop) and _resubscribe: a connection
\* that ended meanwhile makes the send raise.
FinishConnect ==
    /\ manager = "announcing"
    /\ watchdog' = "running"
    /\ armed' = (armed \/ subscriptions # {})
    /\ receiving' = TRUE
    /\ IF subscriptions # {} /\ ws # "open"
       THEN Restart /\ UNCHANGED served
       ELSE /\ manager' = "listening"
            /\ served' = subscriptions
            /\ UNCHANGED restarts
    /\ UNCHANGED <<ws, connected, disconnected, subscriptions, sessions, shutdown, stopping>>

NoticeDisconnectUnasked ==
    /\ manager = "listening"
    /\ disconnected
    /\ manager' = "connecting"
    /\ UNCHANGED <<ws, connected, disconnected, receiving, subscriptions, served,
                   watchdog, armed, restarts, sessions, shutdown, stopping>>

NoticeDisconnect ==
    /\ manager = "listening"
    /\ disconnected
    /\ ~ shutdown
    /\ manager' = "connecting"
    /\ UNCHANGED <<ws, connected, disconnected, receiving, subscriptions, served,
                   watchdog, armed, restarts, sessions, shutdown, stopping>>

\* The shutdown event ends the wait for a disconnect and the backoff alike.
NoticeShutdown ==
    /\ manager \in {"listening", "backoff"}
    /\ shutdown
    /\ manager' = "done"
    /\ UNCHANGED <<ws, connected, disconnected, receiving, subscriptions, served,
                   watchdog, armed, restarts, sessions, shutdown, stopping>>

\* The backoff (0.8 s at least) has elapsed; a receive loop whose connection
\* has ended was ready to run all that time and is over.
Retry ==
    /\ manager = "backoff"
    /\ ~ shutdown
    /\ receiving => ws = "open"
    /\ manager' = "connecting"
    /\ UNCHANGED <<ws, connected, disconnected, receiving, subscriptions, served,
                   watchdog, armed, restarts, sessions, shutdown, stopping>>

-------------------------------------------------------------------------------
(* The client: receive loop, subscriptions, watchdog *)

ReceiveLoopEndsUnannounced ==
    /\ receiving
    /\ ws # "open"
    /\ receiving' = FALSE
    /\ connected' = FALSE
    /\ UNCHANGED <<manager, ws, disconnected, subscriptions, served, watchdog, armed,
                   restarts, sessions, shutdown, stopping>>

\* A lost connection is announced by _dispatch_disconnect; one closed in order
\* ends the loop without a word.
ReceiveLoopEnds ==
    /\ receiving
    /\ ws # "open"
    /\ receiving' = FALSE
    /\ IF ws = "finished"
       THEN UNCHANGED <<connected, disconnected>>
       ELSE connected' = FALSE /\ disconnected' = TRUE
    /\ UNCHANGED <<manager, ws, subscriptions, served, watchdog, armed, restarts, sessions,
                   shutdown, stopping>>

SubscribeNotWatched(s) ==
    /\ stopping = "no"
    /\ subscriptions' = subscriptions \cup {s}
    /\ served' = IF ws = "open" THEN served \cup {s} ELSE served
    /\ UNCHANGED <<manager, ws, connected, disconnected, receiving, watchdog, armed, restarts,
                   sessions, shutdown, stopping>>

\* Before the first connection the stream is queued; on a connection that has
\* ended the send raises after the stream was recorded.
Subscribe(s) ==
    /\ stopping = "no"
    /\ subscriptions' = subscriptions \cup {s}
    /\ IF ws = "open"
       THEN /\ served' = served \cup {s}
            /\ armed' = (armed \/ watchdog # "stopped")
       ELSE UNCHANGED <<served, armed>>
    /\ UNCHANGED <<manager, ws, connected, disconnected, receiving, watchdog, restarts,
                   sessions, shutdown, stopping>>

\* Without a connection object unsubscribe returns at once.
Unsubscribe(s) ==
    /\ stopping = "no"
    /\ ws # "none"
    /\ subscriptions' = subscriptions \ {s}
    /\ served' = IF ws = "open" THEN served \ {s} ELSE served
    /\ UNCHANGED <<manager, ws, connected, disconnected, receiving, watchdog, armed, restarts,
                   sessions, shutdown, stopping>>

\* Nothing was received for stall_timeout_s: disarm, then close the connection.
\* A venue that answers the close handshake ends it in order.
StallFires ==
    /\ watchdog = "running"
    /\ armed
    /\ armed' = FALSE
    /\ IF ws = "open" THEN ws' \in Ended ELSE UNCHANGED ws
    /\ UNCHANGED <<manager, connected, disconnected, receiving, subscriptions, served,
                   watchdog, restarts, sessions, shutdown, stopping>>

-------------------------------------------------------------------------------
(* BinanceSource.stop: manager.stop, client.close, then the reconnect task is  *)
(* cancelled                                                                   *)

\* close() stops the watchdog, cancels the receive loop and awaits the close
\* handshake of an open connection.
BeginStop ==
    /\ stopping = "no"
    /\ ws = "open"
    /\ shutdown' = TRUE
    /\ watchdog' = "stopped"
    /\ armed' = FALSE
    /\ receiving' = FALSE
    /\ ws' \in Ended
    /\ stopping' = "closing"
    /\ UNCHANGED <<manager, connected, disconnected, subscriptions, served, restarts, sessions>>

FinishStopTaskKept ==
    /\ stopping = "closing"
    /\ ws' = "none"
    /\ connected' = FALSE
    /\ disconnected' = TRUE
    /\ stopping' = "done"
    /\ UNCHANGED <<manager, receiving, subscriptions, served, watchdog, armed, restarts,
                   sessions, shutdown>>

\* The close handshake is over: _dispatch_disconnect, and the task of the
\* manager is cancelled wherever it is.
FinishStop ==
    /\ stopping = "closing"
    /\ ws' = "none"
    /\ connected' = FALSE
    /\ disconnected' = TRUE
    /\ manager' = "done"
    /\ stopping' = "done"
    /\ UNCHANGED <<receiving, subscriptions, served, watchdog, armed, restarts, sessions,
                   shutdown>>

\* Without an open connection nothing in stop suspends.
StopUnconnected ==
    /\ stopping = "no"
    /\ ws # "open"
    /\ shutdown' = TRUE
    /\ watchdog' = "stopped"
    /\ armed' = FALSE
    /\ receiving' = FALSE
    /\ ws' = "none"
    /\ connected' = FALSE
    /\ disconnected' = TRUE
    /\ manager' = "done"
    /\ stopping' = "done"
    /\ UNCHANGED <<subscriptions, served, restarts, sessions>>

-------------------------------------------------------------------------------
(* The venue and time *)

PeerEnds ==
    /\ ws = "open"
    /\ ws' \in PeerCloses
    /\ UNCHANGED <<manager, connected, disconnected, receiving, subscriptions, served,
                   watchdog, armed, restarts, sessions, shutdown, stopping>>

\* All recorded restarts are more than an hour old.
HourPasses ==
    /\ restarts' = 0
    /\ sessions' = 0
    /\ UNCHANGED <<manager, ws, connected, disconnected, receiving, subscriptions, served,
                   watchdog, armed, shutdown, stopping>>

-------------------------------------------------------------------------------

Next ==
    \/ ConnectFails \/ ConnectRefused \/ OpenSocket \/ FinishConnect
    \/ NoticeDisconnect \/ NoticeShutdown \/ Retry
    \/ ReceiveLoopEnds \/ StallFires
    \/ \E s \in Streams : Subscribe(s) \/ Unsubscribe(s)
    \/ BeginStop \/ FinishStop \/ StopUnconnected
    \/ PeerEnds \/ HourPasses

Spec == Init /\ [][Next]_vars

(* Fairness: ready coroutines run; a close handshake ends (close_timeout); the *)
(* venue is not unreachable forever, and once in a while a connection lives    *)
(* long enough to be subscribed.                                               *)
Fairness ==
    /\ WF_vars(ReceiveLoopEnds)
    /\ WF_vars(NoticeDisconnect)
    /\ WF_vars(NoticeShutdown)
    /\ WF_vars(Retry)
    /\ WF_vars(FinishConnect)
    /\ WF_vars(FinishStop)
    /\ SF_vars(OpenSocket)
    /\ SF_vars(ws = "open" /\ FinishConnect)

FairSpec == Spec /\ Fairness

-------------------------------------------------------------------------------
(* Properties *)

\* While the link is up the venue sends exactly the streams the client believes
\* it is subscribed to, whatever subscriptions, unsubscriptions and
\* reconnections interleave.
ServedMatchesSubscriptions ==
    manager = "listening" /\ ws = "open" => served = subscriptions

\* An open link with subscriptions is always under the stall watchdog, also
\* after the watchdog has fired once and the link came back.
OpenLinkIsWatched ==
    manager = "listening" /\ ws = "open" /\ subscriptions # {} => armed /\ watchdog = "running"

\* The manager never opens a connection beside an open one or beside a receive
\* loop that still runs (a stale disconnect event would make it do so).
NoSecondLink ==
    manager = "connecting" => ws # "open" /\ ~ receiving

\* When stop has returned there is no connection and no reconnect loop, also
\* when stop raced a connect.
StopReleasesLink ==
    stopping = "done" => ws = "none" /\ manager = "done" /\ ~ connected

\* A connection that is lost while the manager listens is followed by one on
\* which every stream is served again, unless the manager gave up or was stopped
\* or the new connection was closed in order (see StallForcesReconnect).
LostLinkRecovers ==
    (manager = "listening" /\ ws = "lost")
        ~> \/ ws = "open" /\ manager = "listening" /\ served = subscriptions
           \/ ws = "finished"
           \/ manager = "done"

\* The stall handler closes the connection in order to reconnect: a listening
\* manager whose connection was closed opens another one, unless it is stopped.
StallForcesReconnect ==
    (manager = "listening" /\ ws = "finished") ~> (ws = "open" \/ manager = "done")

\* ReconnectManager's contract: at most max_restarts_per_hour restarts, that is
\* one connection more.
RestartsPerHourLimited == sessions <= MaxRestarts + 1

-------------------------------------------------------------------------------
(* What the manager promises *)

Loop == INSTANCE ReconnectLoop WITH
            loop  <- CASE manager \in {"connecting", "announcing"} -> "trying"
                       [] manager = "listening" -> "up"
                       [] manager = "backoff"   -> "pausing"
                       [] manager = "done"      -> "over",
            asked <- shutdown

\* Once stop has set the event, no attempt to connect begins, although the
\* disconnect that stop itself announces wakes the manager like any other, and
\* a loop that is over stays over.
LoopSpec == Loop!Spec

=============================================================================
