--------------------------- MODULE ExchangeProofs ---------------------------
(***************************************************************************)
(* Theorems of the links to the venues, each for all values of its         *)
(* constants: what they serve, when they are alone, and that both          *)
(* implement ReconnectLoop.  Each section begins with the argument.        *)
(***************************************************************************)
EXTENDS MCLinks, TLAPS

-------------------------------------------------------------------------------
(***************************************************************************)
(* Safety of the links to the venues: the market-data client of WsLink for *)
(* any set of streams, any restart limit and any way the venue closes      *)
(* connections, and the three clients of VenueLink for any channels.       *)
(*                                                                         *)
(* The argument for WsLink: an open connection is only ever seen by a      *)
(* manager that is announcing it, listening on it or done, and the         *)
(* disconnected event is never set under a listening manager while the     *)
(* receive loop of its connection still runs.                              *)
(*                                                                         *)
(* The argument for VenueLink: a client that opens a socket has none of    *)
(* that name open, because OKX's public client clears its sockets first    *)
(* and the private clients open theirs only when the old one is down; and  *)
(* a stop that finds the manager between two sockets has closed all but    *)
(* the one being opened.                                                   *)
(***************************************************************************)

\* Only an attentive manager has an open connection, and a connect begins with
\* no receive loop of an earlier connection left.
ConnectsFromRest ==
    /\ manager \in {"connecting", "backoff"} => ws # "open"
    /\ manager \in {"connecting", "announcing"} => ~ receiving
    /\ manager = "connecting" => stopping = "no"

\* A disconnect event a manager may act on speaks of its own connection.
EventIsFresh ==
    /\ manager = "announcing" => ~ disconnected
    /\ manager = "listening" /\ disconnected => ws # "open" /\ ~ receiving

\* What stop has done so far.
StopProgress ==
    /\ shutdown <=> stopping # "no"
    /\ stopping # "no" => ws # "open"
    /\ stopping = "no" => watchdog # "stopped"

\* connect has started the watchdog before the manager listens.
WatchdogStarted == manager = "listening" => watchdog # "fresh"

WsInv ==
    /\ TypeOK
    /\ ConnectsFromRest
    /\ EventIsFresh
    /\ StopProgress
    /\ WatchdogStarted
    /\ StopReleasesLink
    /\ ServedMatchesSubscriptions
    /\ OpenLinkIsWatched

LEMMA WsInitInv == Init => WsInv
<1> SUFFICES ASSUME Init PROVE WsInv
    OBVIOUS
<1>1. TypeOK
  <2>1. 0 \in 0..MaxRestarts /\ 0 \in 0..SessionLimit
        BY ConstantsAssumption, SMT DEF SessionLimit
  <2> QED
      BY <2>1, Zenon DEF Init, TypeOK, ManagerPc, Socket, Ended
<1>2. ConnectsFromRest /\ EventIsFresh /\ StopProgress /\ WatchdogStarted
      BY DEF Init, ConnectsFromRest, EventIsFresh, StopProgress, WatchdogStarted
<1>3. StopReleasesLink /\ ServedMatchesSubscriptions /\ OpenLinkIsWatched
      BY DEF Init, StopReleasesLink, ServedMatchesSubscriptions, OpenLinkIsWatched
<1> QED
    BY <1>1, <1>2, <1>3 DEF WsInv

LEMMA WsNextInv == WsInv /\ [Next]_vars => WsInv'
<1> SUFFICES ASSUME WsInv, [Next]_vars PROVE WsInv'
    OBVIOUS
<1> USE ConstantsAssumption
    DEF WsInv, TypeOK, ConnectsFromRest, EventIsFresh, StopProgress, WatchdogStarted,
        StopReleasesLink, ServedMatchesSubscriptions, OpenLinkIsWatched, ManagerPc, Socket, Ended, SessionLimit
<1>1. CASE ConnectFails
      BY <1>1 DEF ConnectFails, Restart
<1>2. CASE ConnectRefused
      BY <1>2 DEF ConnectRefused
<1>3. CASE OpenSocket
  <2>1. sessions' \in 0..SessionLimit
        BY <1>3 DEF OpenSocket
  <2>2. served' \in SUBSET Streams
        BY <1>3 DEF OpenSocket
  <2>3. TypeOK'
        BY <1>3, <2>1, <2>2 DEF OpenSocket
  <2> QED
      BY <1>3, <2>3 DEF OpenSocket
<1>4. CASE FinishConnect
  <2>1. /\ served' \in SUBSET Streams
        /\ restarts' \in 0..MaxRestarts
        BY <1>4 DEF FinishConnect, Restart
  <2>2. (armed \/ subscriptions # {}) \in BOOLEAN
        OBVIOUS
  <2>3. TypeOK'
        BY <1>4, <2>1, <2>2 DEF FinishConnect, Restart
  <2>4. ConnectsFromRest' /\ EventIsFresh' /\ StopProgress' /\ WatchdogStarted' /\ StopReleasesLink'
        BY <1>4 DEF FinishConnect, Restart
  <2>5. ServedMatchesSubscriptions'
        BY <1>4 DEF FinishConnect, Restart
  <2>6. OpenLinkIsWatched'
        BY <1>4 DEF FinishConnect, Restart
  <2> QED
      BY <2>3, <2>4, <2>5, <2>6
<1>5. CASE NoticeDisconnect
      BY <1>5 DEF NoticeDisconnect
<1>6. CASE NoticeShutdown
      BY <1>6 DEF NoticeShutdown
<1>7. CASE Retry
      BY <1>7 DEF Retry
<1>8. CASE ReceiveLoopEnds
      BY <1>8 DEF ReceiveLoopEnds
<1>9. CASE StallFires
      BY <1>9 DEF StallFires
<1>10. ASSUME NEW s \in Streams, Subscribe(s) PROVE WsInv'
  <2>1. /\ subscriptions' \in SUBSET Streams
        /\ served' \in SUBSET Streams
        BY <1>10 DEF Subscribe
  <2>2. armed' \in BOOLEAN
        BY <1>10 DEF Subscribe
  <2>3. TypeOK'
        BY <1>10, <2>1, <2>2 DEF Subscribe
  <2>4. ConnectsFromRest' /\ EventIsFresh' /\ StopProgress' /\ WatchdogStarted' /\ StopReleasesLink'
        BY <1>10 DEF Subscribe
  <2>5. ServedMatchesSubscriptions'
        BY <1>10 DEF Subscribe
  <2>6. OpenLinkIsWatched'
        BY <1>10 DEF Subscribe
  <2> QED
      BY <2>3, <2>4, <2>5, <2>6
<1>11. ASSUME NEW s \in Streams, Unsubscribe(s) PROVE WsInv'
      BY <1>11 DEF Unsubscribe
<1>12. CASE BeginStop
      BY <1>12 DEF BeginStop
<1>13. CASE FinishStop
      BY <1>13 DEF FinishStop
<1>14. CASE StopUnconnected
      BY <1>14 DEF StopUnconnected
<1>15. CASE PeerEnds
      BY <1>15 DEF PeerEnds
<1>16. CASE HourPasses
      BY <1>16 DEF HourPasses
<1>17. CASE UNCHANGED vars
      BY <1>17 DEF vars
<1> QED
    BY <1>1, <1>2, <1>3, <1>4, <1>5, <1>6, <1>7, <1>8, <1>9, <1>10, <1>11, <1>12, <1>13,
       <1>14, <1>15, <1>16, <1>17 DEF Next

LEMMA WsHolds == Spec => []WsInv
<1>1. Init => WsInv
      BY WsInitInv
<1>2. WsInv /\ [Next]_vars => WsInv'
      BY WsNextInv
<1> QED
    BY <1>1, <1>2, PTL DEF Spec

-------------------------------------------------------------------------------

\* While the manager listens on an open connection the venue serves exactly the
\* streams recorded in the client's _subscriptions, through any interleaving of
\* subscribe, unsubscribe and reconnection.
THEOREM StreamsServed == Spec => []ServedMatchesSubscriptions
<1>1. WsInv => ServedMatchesSubscriptions
      BY DEF WsInv
<1> QED
    BY <1>1, WsHolds, PTL

\* The stall watchdog is armed and running on every open link that has streams.
THEOREM LinkWatched == Spec => []OpenLinkIsWatched
<1>1. WsInv => OpenLinkIsWatched
      BY DEF WsInv
<1> QED
    BY <1>1, WsHolds, PTL

\* connect is never called while a connection is open or a receive loop runs.
THEOREM SingleLink == Spec => []NoSecondLink
<1>1. WsInv => NoSecondLink
      BY DEF WsInv, ConnectsFromRest, NoSecondLink
<1> QED
    BY <1>1, WsHolds, PTL

\* After stop there is no connection and no reconnect loop, whatever the manager
\* was doing when stop was called.
THEOREM StopReleases == Spec => []StopReleasesLink
<1>1. WsInv => StopReleasesLink
      BY DEF WsInv
<1> QED
    BY <1>1, WsHolds, PTL

-------------------------------------------------------------------------------
(* The loop of WsLink implements ReconnectLoop *)

\* Where the manager is tells which step of the loop it takes; that stop has
\* begun is what the shutdown event says (StopProgress).
LEMMA LoopSteps ==
    ASSUME WsInv, [Next]_vars
    PROVE  [Loop!Next]_(Loop!vars)
<1> USE DEF Loop!Next, Loop!vars
<1>1. manager \in {"connecting", "announcing", "listening", "backoff", "done"}
      BY DEF WsInv, TypeOK, ManagerPc
<1>2. ASSUME manager' = manager, shutdown' = shutdown PROVE UNCHANGED Loop!vars
      BY <1>2
<1>3. CASE ConnectFails \/ ConnectRefused
      BY <1>3 DEF ConnectFails, ConnectRefused, Restart, Loop!Conclude
<1>4. CASE OpenSocket
      BY <1>4 DEF OpenSocket
<1>5. CASE FinishConnect
      BY <1>5 DEF FinishConnect, Restart, Loop!Conclude
<1>6. CASE NoticeDisconnect \/ Retry
      BY <1>6 DEF NoticeDisconnect, Retry, Loop!Attempt
<1>7. CASE NoticeShutdown
      BY <1>7 DEF NoticeShutdown, Loop!End
<1>8. CASE BeginStop \/ StopUnconnected
      BY <1>1, <1>8 DEF BeginStop, StopUnconnected, Loop!Ask, WsInv, StopProgress
<1>9. CASE FinishStop
      BY <1>9 DEF FinishStop, Loop!End, WsInv, StopProgress
<1>10. CASE \/ ReceiveLoopEnds \/ StallFires \/ PeerEnds \/ HourPasses
            \/ \E s \in Streams : Subscribe(s) \/ Unsubscribe(s)
            \/ UNCHANGED vars
      BY <1>2, <1>10 DEF ReceiveLoopEnds, StallFires, PeerEnds, HourPasses, Subscribe, Unsubscribe, vars
<1> QED
    BY <1>3, <1>4, <1>5, <1>6, <1>7, <1>8, <1>9, <1>10 DEF Next

\* No attempt of Binance's client begins once its stop is asked for.
THEOREM BinanceLoop == Spec => LoopSpec
<1>1. Init => Loop!Init
      BY DEF Init, Loop!Init
<1>2. WsInv /\ [Next]_vars => [Loop!Next]_(Loop!vars)
      BY LoopSteps
<1> QED
    BY <1>1, <1>2, WsHolds, PTL DEF Spec, LoopSpec, Loop!Spec

-------------------------------------------------------------------------------
(* The links of VenueLink *)

\* A private client opens its socket only when the old one is down: a loss is
\* announced, and an attempt given up, only then.
PrivateLink ==
    client # "okx" =>
        /\ ~ globalDue /\ recorded \subseteq {"account"}
        /\ phase \notin {"clearing", "opening"}
        /\ phase = "loggingIn" => session
        /\ phase \in {"connecting", "backoff"} \/ lossSeen => ~ Open("private")

PublicLink ==
    client = "okx" =>
        /\ phase # "loggingIn" /\ owner = "idle"
        /\ phase \in {"clearing", "connecting"} => \A s \in SocketsOf : ~ Open(s)

\* How far a stop is, and which socket can be open by then.
HaltProgress ==
    /\ halt # "done" => orphans = {}
    /\ halt = "closing" =>
          /\ phase \notin {"clearing", "connecting"}
          /\ phase = "opening" => haltedIn = "opening"
          /\ \A s \in SocketsOf : Open(s) => haltedIn = "opening" /\ s = "business"
    /\ halt = "done" =>
          /\ phase = "done" /\ readers \subseteq orphans
          /\ \A s \in SocketsOf : ~ Open(s)

LinkInv ==
    /\ LinkTypeOK
    /\ PrivateLink /\ PublicLink /\ HaltProgress
    /\ VenueServesRecorded /\ HaltReleasesSockets

LEMMA LinkInitInv == LinkInit => LinkInv
BY DEF LinkInit, LinkInv, LinkTypeOK, PrivateLink, PublicLink, HaltProgress, VenueServesRecorded,
       HaltReleasesSockets, Clients, Phases, ClosedWays, Channels, SocketsOf, Open, AllOpen

\* What each socket is, by the client.
LEMMA WhichSockets ==
    ASSUME LinkTypeOK
    PROVE  /\ client = "okx" => SocketsOf = {"public", "business"}
           /\ client # "okx" => SocketsOf = {"private"}
           /\ client # "okx" => client \in {"okxPrivate", "binanceUser"}
BY DEF LinkTypeOK, SocketsOf, Clients

LEMMA ConnectAttemptFailsInv == ASSUME LinkInv, ConnectAttemptFails PROVE LinkInv'
<1> USE DEF ConnectAttemptFails, Fail
<1>1. LinkTypeOK' /\ PrivateLink' /\ PublicLink'
  BY DEF LinkInv, LinkTypeOK, PrivateLink, PublicLink, Clients, Phases, ClosedWays, Channels, SocketsOf, Open
<1>2. HaltProgress' /\ VenueServesRecorded' /\ HaltReleasesSockets'
  BY DEF LinkInv, LinkTypeOK, HaltProgress, VenueServesRecorded, HaltReleasesSockets, PublicLink, SocketsOf, Open, AllOpen
<1> QED BY <1>1, <1>2 DEF LinkInv

\* Closing sockets leaves none open.
LEMMA SocketsClosed ==
    ASSUME LinkTypeOK, CloseSockets, UNCHANGED client
    PROVE  /\ sockets' \in [SocketsOf -> {"none", "open"} \cup ClosedWays]
           /\ \A s \in SocketsOf : ~ Open(s)'
           /\ SocketsOf' = SocketsOf
BY DEF LinkTypeOK, CloseSockets, Open, SocketsOf, ClosedWays

LEMMA BeginConnectInv ==
    ASSUME LinkInv, BeginConnect, halt = "no",
           phase \in {"listening", "backoff"}, phase = "listening" => lossSeen,
           UNCHANGED <<client, recorded, feeds, lossSeen, watched, authed, session, owner, globalDue,
                       halt, haltedIn, orphans>>
    PROVE  LinkInv'
<1>1. CASE client = "okx"
  <2>1. SocketsOf' = SocketsOf /\ phase' = "clearing" /\ readers' = {} /\ CloseSockets
    BY <1>1 DEF BeginConnect, SocketsOf
  <2>2. LinkTypeOK'
    BY <2>1, SocketsClosed DEF LinkInv, LinkTypeOK, Phases
  <2> QED
    BY <1>1, <2>1, <2>2, SocketsClosed
    DEF LinkInv, PrivateLink, PublicLink, HaltProgress, VenueServesRecorded, HaltReleasesSockets
<1>2. CASE client # "okx"
  <2>1. SocketsOf' = SocketsOf /\ phase' = "connecting" /\ UNCHANGED <<readers, sockets>>
    BY <1>2 DEF BeginConnect, SocketsOf
  <2>2. LinkTypeOK'
    BY <2>1 DEF LinkInv, LinkTypeOK, Phases
  <2> QED
    BY <1>2, <2>1, <2>2
    DEF LinkInv, PrivateLink, PublicLink, HaltProgress, VenueServesRecorded, HaltReleasesSockets, Open
<1> QED BY <1>1, <1>2

LEMMA NoticesInv ==
    ASSUME LinkInv, NoticeLoss \/ RetryConnect \/ NoticeHalt
    PROVE  LinkInv'
<1>1. CASE NoticeLoss
  BY <1>1, BeginConnectInv DEF NoticeLoss
<1>2. CASE RetryConnect
  BY <1>2, BeginConnectInv DEF RetryConnect
<1>3. CASE NoticeHalt
  <2> USE <1>3 DEF NoticeHalt
  <2>1. LinkTypeOK' /\ PrivateLink' /\ PublicLink'
    BY DEF LinkInv, LinkTypeOK, PrivateLink, PublicLink, Phases, SocketsOf, Open
  <2>2. HaltProgress' /\ VenueServesRecorded' /\ HaltReleasesSockets'
    BY DEF LinkInv, LinkTypeOK, HaltProgress, VenueServesRecorded, HaltReleasesSockets, SocketsOf, Open
  <2> QED BY <2>1, <2>2 DEF LinkInv
<1> QED BY <1>1, <1>2, <1>3

LEMMA ClearInv == ASSUME LinkInv, Clear PROVE LinkInv'
<1> USE DEF Clear
<1>1. client = "okx" /\ SocketsOf' = SocketsOf
  BY DEF LinkInv, PrivateLink, SocketsOf
<1>2. LinkTypeOK' /\ PrivateLink' /\ PublicLink'
  BY <1>1 DEF LinkInv, LinkTypeOK, PrivateLink, PublicLink, Phases, Open
<1>3. HaltProgress' /\ VenueServesRecorded' /\ HaltReleasesSockets'
  BY <1>1 DEF LinkInv, HaltProgress, VenueServesRecorded, HaltReleasesSockets
<1> QED BY <1>2, <1>3 DEF LinkInv

LEMMA OpenPublicInv == ASSUME LinkInv, OpenPublic PROVE LinkInv'
<1> USE DEF OpenPublic
<1>1. SocketsOf = {"public", "business"} /\ SocketsOf' = SocketsOf
  BY DEF SocketsOf
<1>2. LinkTypeOK' /\ PrivateLink' /\ PublicLink'
  BY <1>1 DEF LinkInv, LinkTypeOK, PrivateLink, PublicLink, Phases, Open
<1>3. HaltProgress' /\ VenueServesRecorded' /\ HaltReleasesSockets'
  BY <1>1 DEF LinkInv, LinkTypeOK, HaltProgress, VenueServesRecorded, HaltReleasesSockets
<1> QED BY <1>2, <1>3 DEF LinkInv

LEMMA OpenLastInv == ASSUME LinkInv, OpenLast PROVE LinkInv'
<1>0. /\ UNCHANGED <<client, recorded, owner, globalDue, halt, haltedIn, orphans>>
      /\ SocketsOf' = SocketsOf /\ lossSeen' = FALSE /\ readers' = SocketsOf
      /\ watched' = (watched \/ recorded # {})
  BY DEF OpenLast, FinishOpening, SocketsOf
<1>1. CASE client = "okx"
  <2>1. /\ phase = "opening" /\ sockets' = [sockets EXCEPT !["business"] = "open"]
        /\ ResubscribeChannels /\ UNCHANGED <<authed, session>>
        /\ SocketsOf = {"public", "business"}
    BY <1>1 DEF OpenLast, FinishOpening, SocketsOf
  <2>2. /\ phase' \in {"listening", "backoff", "done"}
        /\ phase' = "listening" => feeds' = recorded
        /\ feeds' \subseteq recorded
    BY <2>1 DEF ResubscribeChannels, Fail
  <2>3. LinkTypeOK'
    BY <1>0, <2>1, <2>2 DEF LinkInv, LinkTypeOK, Phases
  <2>4. PrivateLink' /\ PublicLink' /\ VenueServesRecorded'
    BY <1>0, <1>1, <2>2 DEF LinkInv, PrivateLink, PublicLink, VenueServesRecorded
  <2>5. HaltProgress' /\ HaltReleasesSockets'
    BY <1>0, <2>1, <2>2 DEF LinkInv, LinkTypeOK, HaltProgress, HaltReleasesSockets, Open
  <2> QED BY <2>3, <2>4, <2>5 DEF LinkInv
<1>2. CASE client # "okx"
  <2>1. /\ phase = "connecting" /\ sockets' = [sockets EXCEPT !["private"] = "open"]
        /\ Relogin /\ SocketsOf = {"private"}
    BY <1>2 DEF OpenLast, FinishOpening, SocketsOf
  <2>2. /\ phase' \in {"listening", "loggingIn"}
        /\ phase' = "loggingIn" => session'
        /\ phase' = "listening" => feeds' = recorded \/ (feeds' = {} /\ ~ session')
        /\ feeds' \subseteq recorded
        /\ {session', authed'} \subseteq BOOLEAN
    <3>1. {session, authed} \subseteq BOOLEAN /\ client \in {"okxPrivate", "binanceUser"}
      BY <1>2, WhichSockets DEF LinkInv, LinkTypeOK
    <3>2. CASE recorded = {}
      BY <2>1, <3>1, <3>2 DEF Relogin
    <3>5. CASE recorded # {} /\ authed
      <4>1. phase' = "listening" /\ feeds' = {} /\ session' = FALSE /\ UNCHANGED authed
        BY <2>1, <3>5 DEF Relogin
      <4> QED BY <3>1, <4>1
    <3>3. CASE recorded # {} /\ ~ authed /\ client = "binanceUser"
      BY <2>1, <3>1, <3>3 DEF Relogin
    <3>4. CASE recorded # {} /\ ~ authed /\ client = "okxPrivate"
      BY <2>1, <3>1, <3>4 DEF Relogin
    <3> QED BY <3>1, <3>2, <3>3, <3>4, <3>5
  <2>3. LinkTypeOK'
    BY <1>0, <2>1, <2>2 DEF LinkInv, LinkTypeOK, Phases
  <2>4. PrivateLink' /\ PublicLink' /\ VenueServesRecorded'
    BY <1>0, <1>2, <2>2 DEF LinkInv, PrivateLink, PublicLink, VenueServesRecorded
  <2>5. HaltProgress' /\ HaltReleasesSockets'
    BY <1>0, <2>1, <2>2 DEF LinkInv, HaltProgress, HaltReleasesSockets
  <2> QED BY <2>3, <2>4, <2>5 DEF LinkInv
<1> QED BY <1>1, <1>2

\* What the send of a private client does, once the venue knows its session.
LEMMA SentSubscription ==
    ASSUME LinkInv, SendSubscription, session' \in BOOLEAN
    PROVE  /\ recorded' \in {recorded, {"account"}}
           /\ feeds' \in {feeds, {"account"}}
           /\ watched' \in BOOLEAN
           /\ Open("private") => recorded' = {"account"} /\ (session' => feeds' = recorded')
           /\ ~ session' \/ ~ Open("private") => feeds' = feeds
BY DEF LinkInv, LinkTypeOK, SendSubscription

LEMMA SubscribeAfterLoginInv == ASSUME LinkInv, SubscribeAfterLogin PROVE LinkInv'
<1>0. /\ UNCHANGED <<client, sockets, readers, lossSeen, authed, owner, globalDue, halt, haltedIn,
                     orphans, session>>
      /\ phase = "loggingIn" /\ SocketsOf' = SocketsOf /\ SendSubscription
      /\ IF Open("private") THEN phase' = "listening" ELSE phase' \in {"backoff", "done"}
  BY DEF SubscribeAfterLogin, SocketsOf, Fail
<1>1. client # "okx" /\ session /\ SocketsOf = {"private"} /\ session' \in BOOLEAN
  BY <1>0, WhichSockets DEF LinkInv, PrivateLink, PublicLink, LinkTypeOK
<1>2. LinkTypeOK'
  BY <1>0, <1>1, SentSubscription DEF LinkInv, LinkTypeOK, Phases, Channels
<1>3. PrivateLink' /\ PublicLink'
  BY <1>0, <1>1, SentSubscription DEF LinkInv, PrivateLink, PublicLink, Open
<1>4. VenueServesRecorded'
  BY <1>0, <1>1, SentSubscription DEF VenueServesRecorded
<1>5. HaltProgress' /\ HaltReleasesSockets'
  BY <1>0, <1>1 DEF LinkInv, HaltProgress, HaltReleasesSockets, Open
<1> QED BY <1>2, <1>3, <1>4, <1>5 DEF LinkInv

\* A socket that does not open takes nothing away from what is claimed.
LEMMA SocketsOnlyClose ==
    ASSUME LinkInv,
           UNCHANGED <<client, phase, recorded, feeds, session, owner, globalDue, halt, haltedIn,
                       orphans>>,
           readers' \subseteq readers,
           lossSeen' \in BOOLEAN, watched' \in BOOLEAN, authed' \in BOOLEAN,
           sockets' \in [SocketsOf -> {"none", "open"} \cup ClosedWays],
           \A s \in SocketsOf : Open(s)' => Open(s),
           lossSeen' => lossSeen \/ client = "okx" \/ ~ Open("private")'
    PROVE  LinkInv'
<1>1. SocketsOf' = SocketsOf BY DEF SocketsOf
<1>2. LinkTypeOK'
  BY <1>1 DEF LinkInv, LinkTypeOK
<1>3. PrivateLink' /\ PublicLink'
  <2>1. client # "okx" => SocketsOf = {"private"} BY DEF SocketsOf
  <2> QED BY <1>1, <2>1 DEF LinkInv, PrivateLink, PublicLink
<1>4. VenueServesRecorded'
  BY <1>1 DEF LinkInv, VenueServesRecorded, AllOpen
<1>5. HaltProgress' /\ HaltReleasesSockets'
  BY <1>1 DEF LinkInv, HaltProgress, HaltReleasesSockets
<1> QED BY <1>2, <1>3, <1>4, <1>5 DEF LinkInv

LEMMA ReceiveLoopsInv ==
    ASSUME LinkInv,
           \/ \E s \in SocketsOf : ReaderEnds(s) \/ SocketEnds(s)
           \/ HandlerRaises \/ LoginAnswered \/ Stall
    PROVE  LinkInv'
<1>0. /\ lossSeen \in BOOLEAN /\ watched \in BOOLEAN /\ authed \in BOOLEAN
      /\ sockets \in [SocketsOf -> {"none", "open"} \cup ClosedWays]
      /\ client # "okx" => SocketsOf = {"private"}
      /\ LinkTypeOK
  BY DEF LinkInv, LinkTypeOK, SocketsOf
<1>1. ASSUME NEW s \in SocketsOf, ReaderEnds(s) PROVE LinkInv'
  <2>0. /\ UNCHANGED <<client, phase, sockets, recorded, feeds, watched, session, owner, globalDue,
                       halt, haltedIn, orphans>>
        /\ readers' = readers \ {s} /\ ~ Open(s)
        /\ lossSeen' = (lossSeen \/ sockets[s] = "lost")
        /\ authed' = (authed /\ ~ (client = "okxPrivate" /\ sockets[s] = "lost"))
    BY <1>1 DEF ReaderEnds
  <2>1. lossSeen' \in BOOLEAN /\ watched' \in BOOLEAN /\ authed' \in BOOLEAN
    BY <1>0, <2>0
  <2>2. lossSeen' => lossSeen \/ client = "okx" \/ ~ Open("private")'
    BY <1>0, <2>0 DEF Open
  <2>3. \A t \in SocketsOf : Open(t)' => Open(t)
    BY <2>0 DEF Open
  <2> QED BY <1>0, <2>0, <2>1, <2>2, <2>3, SocketsOnlyClose
<1>2. ASSUME NEW s \in SocketsOf, SocketEnds(s) PROVE LinkInv'
  <2>1. /\ sockets' \in [SocketsOf -> {"none", "open"} \cup ClosedWays]
        /\ \A t \in SocketsOf : Open(t)' => Open(t)
    BY <1>0, <1>2 DEF SocketEnds, Open, ClosedWays
  <2> QED BY <1>0, <1>2, <2>1, SocketsOnlyClose DEF SocketEnds
<1>3. CASE HandlerRaises
  BY <1>0, <1>3, SocketsOnlyClose DEF HandlerRaises, Open
<1>4. CASE LoginAnswered
  BY <1>0, <1>4, SocketsOnlyClose DEF LoginAnswered, Open
<1>5. CASE Stall
  BY <1>0, <1>5, SocketsClosed, SocketsOnlyClose DEF Stall, LinkInv
<1> QED BY <1>1, <1>2, <1>3, <1>4, <1>5

\* The steps of an owner or a source leave the sockets, and the manager, as they are.
LEMMA OwnerSteps ==
    ASSUME LinkInv,
           UNCHANGED <<client, phase, sockets, readers, lossSeen, halt, haltedIn, orphans>>,
           recorded' \subseteq Channels, feeds' \subseteq Channels,
           {watched', authed', session', globalDue'} \subseteq BOOLEAN,
           owner' \in {"idle", "loggingIn"},
           client = "okx" => owner' = "idle",
           client # "okx" => ~ globalDue' /\ recorded' \subseteq {"account"} /\ (session => session'),
           VenueServesRecorded'
    PROVE  LinkInv'
<1>1. SocketsOf' = SocketsOf BY DEF SocketsOf
<1>2. LinkTypeOK'
  BY <1>1 DEF LinkInv, LinkTypeOK
<1>3. PrivateLink' /\ PublicLink'
  BY <1>1 DEF LinkInv, PrivateLink, PublicLink, Open
<1>4. HaltProgress' /\ HaltReleasesSockets'
  BY <1>1 DEF LinkInv, HaltProgress, HaltReleasesSockets, Open
<1> QED BY <1>2, <1>3, <1>4 DEF LinkInv

\* While every socket is up, each channel of a symbol is sent.
LEMMA ChannelsWhileUp ==
    ASSUME LinkTypeOK, client = "okx"
    PROVE  /\ AttemptedChannels \subseteq {"tickers", "candle", "trades"}
           /\ AllOpen => \A c \in Channels : Open(SocketFor(c)) /\ ~ HasEnded(SocketFor(c))
           /\ AllOpen => Open("public") /\ ~ HasEnded("public")
<1>1. SocketsOf = {"public", "business"} /\ \A c : SocketFor(c) \in SocketsOf
  BY DEF SocketsOf, SocketFor
<1>2. SymbolChannels \in Seq({"tickers", "candle", "trades"})
  BY DEF SymbolChannels
<1> QED BY <1>1, <1>2 DEF AttemptedChannels, AllOpen, Open, HasEnded, ClosedWays, LinkTypeOK

LEMMA SourceInv ==
    ASSUME LinkInv, Subscribing \/ Unsubscribing \/ SubscribeGlobal
    PROVE  LinkInv'
<1>0. /\ LinkTypeOK /\ VenueServesRecorded
      /\ {watched, authed, session, globalDue} \subseteq BOOLEAN /\ owner \in {"idle", "loggingIn"}
      /\ recorded \subseteq Channels /\ feeds \subseteq Channels
  BY DEF LinkInv, LinkTypeOK
<1>1. client = "okx" /\ owner = "idle"
  BY DEF LinkInv, PrivateLink, PublicLink, Subscribing, Unsubscribing, SubscribeGlobal
<1>2. CASE Subscribing
  <2> DEFINE sent == {c \in AttemptedChannels : Open(SocketFor(c))}
  <2>1. /\ recorded' = recorded \cup AttemptedChannels /\ feeds' = feeds \cup sent
        /\ watched' = (watched \/ sent # {})
        /\ UNCHANGED <<client, phase, sockets, readers, lossSeen, authed, session, owner, globalDue,
                       halt, haltedIn, orphans>>
    BY <1>2 DEF Subscribing
  <2>2. AttemptedChannels \subseteq Channels
    BY <1>0, <1>1, ChannelsWhileUp DEF Channels
  <2>3. AllOpen' <=> AllOpen
    BY <2>1 DEF AllOpen, Open, SocketsOf
  <2>4. VenueServesRecorded'
    BY <1>0, <1>1, <2>1, <2>2, <2>3, ChannelsWhileUp DEF VenueServesRecorded
  <2>5. recorded' \subseteq Channels /\ feeds' \subseteq Channels
    BY <1>0, <2>1, <2>2
  <2> QED BY <1>0, <1>1, <2>1, <2>4, <2>5, OwnerSteps
<1>3. CASE Unsubscribing
  <2> DEFINE dropped == {"tickers", "candle"}
  <2>1. /\ recorded' = recorded \ dropped
        /\ feeds' = IF HasEnded("public") THEN feeds ELSE feeds \ {c \in dropped : Open(SocketFor(c))}
        /\ UNCHANGED <<client, phase, sockets, readers, lossSeen, watched, authed, session, owner,
                       globalDue, halt, haltedIn, orphans>>
    BY <1>3 DEF Unsubscribing
  <2>3. AllOpen' <=> AllOpen
    BY <2>1 DEF AllOpen, Open, SocketsOf
  <2>4. VenueServesRecorded'
    BY <1>0, <1>1, <2>1, <2>3, ChannelsWhileUp DEF VenueServesRecorded, Channels
  <2> QED BY <1>0, <1>1, <2>1, <2>4, OwnerSteps
<1>4. CASE SubscribeGlobal
  <2> DEFINE sent == IF Open("public") THEN {"liquidations"} ELSE {}
  <2>1. /\ recorded' = recorded \cup sent /\ feeds' = feeds \cup sent
        /\ watched' = (watched \/ sent # {}) /\ globalDue' = FALSE
        /\ UNCHANGED <<client, phase, sockets, readers, lossSeen, authed, session, owner, halt,
                       haltedIn, orphans>>
    BY <1>4 DEF SubscribeGlobal
  <2>3. AllOpen' <=> AllOpen
    BY <2>1 DEF AllOpen, Open, SocketsOf
  <2>4. VenueServesRecorded'
    BY <1>0, <1>1, <2>1, <2>3 DEF VenueServesRecorded
  <2>5. recorded' \subseteq Channels /\ feeds' \subseteq Channels
    BY <1>0, <2>1 DEF Channels
  <2> QED BY <1>0, <1>1, <2>1, <2>4, <2>5, OwnerSteps
<1> QED BY <1>2, <1>3, <1>4

LEMMA OwnerInv ==
    ASSUME LinkInv, OwnerSubscribes \/ OwnerAfterLogin \/ OwnerUnsubscribes
    PROVE  LinkInv'
<1>0. /\ LinkTypeOK /\ VenueServesRecorded
      /\ {watched, authed, session, globalDue} \subseteq BOOLEAN /\ owner \in {"idle", "loggingIn"}
      /\ recorded \subseteq Channels /\ feeds \subseteq Channels
  BY DEF LinkInv, LinkTypeOK
<1>1. CASE OwnerSubscribes
  <2>1. client # "okx" /\ ~ globalDue /\ recorded \subseteq {"account"} /\ SocketsOf = {"private"}
    BY <1>1, WhichSockets DEF OwnerSubscribes, LinkInv, PrivateLink
  <2>2. /\ UNCHANGED <<client, phase, sockets, readers, lossSeen, globalDue, halt, haltedIn, orphans>>
        /\ AllOpen' <=> AllOpen
        /\ AllOpen <=> Open("private")
    BY <1>1, <2>1 DEF OwnerSubscribes, AllOpen, Open, SocketsOf
  <2>3. CASE client = "okxPrivate" /\ ~ authed
    <3>1. /\ session' = (session \/ Open("private"))
          /\ owner' = IF Open("private") THEN "loggingIn" ELSE "idle"
          /\ UNCHANGED <<recorded, feeds, watched, authed>>
      BY <1>1, <2>3 DEF OwnerSubscribes
    <3>2. VenueServesRecorded'
      BY <1>0, <2>1, <2>2, <3>1 DEF VenueServesRecorded
    <3> QED BY <1>0, <2>1, <2>2, <3>1, <3>2, OwnerSteps
  <2>4. CASE ~ (client = "okxPrivate" /\ ~ authed)
    <3>1. /\ session' = (session \/ (~ authed /\ Open("private")))
          /\ authed' = (authed \/ Open("private"))
          /\ SendSubscription /\ UNCHANGED owner
      BY <1>1, <2>4 DEF OwnerSubscribes
    <3>2. session' \in BOOLEAN BY <3>1
    <3>3. VenueServesRecorded'
      BY <1>0, <2>1, <2>2, <3>1, <3>2, SentSubscription DEF VenueServesRecorded
    <3>4. recorded' \subseteq {"account"} /\ recorded' \subseteq Channels /\ feeds' \subseteq Channels
      BY <1>0, <2>1, <3>1, <3>2, SentSubscription DEF Channels
    <3>5. {watched', authed', session', globalDue'} \subseteq BOOLEAN
      BY <1>0, <2>2, <3>1, <3>2, SentSubscription
    <3> QED BY <1>0, <2>1, <2>2, <3>1, <3>3, <3>4, <3>5, OwnerSteps
  <2> QED BY <2>3, <2>4
<1>2. CASE OwnerAfterLogin
  <2>1. /\ UNCHANGED <<client, phase, sockets, readers, lossSeen, authed, globalDue, halt, haltedIn,
                       orphans, session>>
        /\ owner' = "idle" /\ SendSubscription
        /\ AllOpen' <=> AllOpen
    BY <1>2 DEF OwnerAfterLogin, AllOpen, Open, SocketsOf
  <2>2. session' \in BOOLEAN BY <1>0, <2>1
  <2>3. client # "okx" /\ ~ globalDue /\ recorded \subseteq {"account"} /\ SocketsOf = {"private"}
    BY <1>2, WhichSockets DEF OwnerAfterLogin, LinkInv, PrivateLink, PublicLink
  <2>4. AllOpen <=> Open("private")
    BY <2>3 DEF AllOpen
  <2>5. VenueServesRecorded'
    BY <1>0, <2>1, <2>2, <2>3, <2>4, SentSubscription DEF VenueServesRecorded
  <2>6. recorded' \subseteq {"account"} /\ recorded' \subseteq Channels /\ feeds' \subseteq Channels
    BY <1>0, <2>1, <2>2, <2>3, SentSubscription DEF Channels
  <2>7. {watched', authed', session', globalDue'} \subseteq BOOLEAN
    BY <1>0, <2>1, <2>2, SentSubscription
  <2> QED BY <1>0, <2>1, <2>3, <2>5, <2>6, <2>7, OwnerSteps
<1>3. CASE OwnerUnsubscribes
  <2>1. /\ recorded' = {} /\ feeds' = {} /\ client # "okx"
        /\ UNCHANGED <<client, phase, sockets, readers, lossSeen, watched, authed, session, owner,
                       globalDue, halt, haltedIn, orphans>>
    BY <1>3 DEF OwnerUnsubscribes
  <2>2. VenueServesRecorded' BY <2>1 DEF VenueServesRecorded
  <2>3. ~ globalDue /\ recorded' \subseteq {"account"}
    BY <2>1 DEF LinkInv, PrivateLink
  <2> QED BY <1>0, <2>1, <2>2, <2>3, OwnerSteps
<1> QED BY <1>1, <1>2, <1>3

LEMMA HaltInv ==
    ASSUME LinkInv, BeginHalt \/ FinishHalt \/ HaltAtOnce
    PROVE  LinkInv'
<1>1. CASE BeginHalt
  <2>1. /\ UNCHANGED <<client, phase, recorded, feeds, lossSeen, session, owner, globalDue, orphans>>
        /\ halt = "no" /\ halt' = "closing" /\ haltedIn' = phase /\ readers' = {}
        /\ watched' = FALSE /\ authed' = FALSE /\ CloseSockets
        /\ \E s \in SocketsOf : Open(s)
    BY <1>1 DEF BeginHalt
  <2>2. /\ LinkTypeOK /\ orphans = {} /\ phase \notin {"clearing", "connecting"}
        /\ client # "okx" => SocketsOf = {"private"}
    BY <2>1, WhichSockets DEF LinkInv, HaltProgress, PrivateLink, PublicLink
  <2>3. LinkTypeOK'
    BY <2>1, <2>2, SocketsClosed DEF LinkTypeOK
  <2>4. PrivateLink' /\ PublicLink'
    BY <2>1, <2>2, SocketsClosed DEF LinkInv, PrivateLink, PublicLink
  <2>5. VenueServesRecorded' /\ HaltProgress' /\ HaltReleasesSockets'
    BY <2>1, <2>2, SocketsClosed DEF VenueServesRecorded, HaltProgress, HaltReleasesSockets
  <2> QED BY <2>3, <2>4, <2>5 DEF LinkInv
<1>2. CASE FinishHalt
  <2>1. /\ UNCHANGED <<client, recorded, watched, authed, session, owner, globalDue, haltedIn>>
        /\ halt = "closing" /\ halt' = "done" /\ orphans' = {s \in SocketsOf : Open(s)}
        /\ readers' = readers \cap orphans' /\ sockets' = [s \in SocketsOf |-> "none"]
        /\ feeds' \subseteq feeds /\ lossSeen' = TRUE /\ phase' = "done"
        /\ SocketsOf' = SocketsOf
    BY <1>2 DEF FinishHalt, SocketsOf
  <2>2. \A s \in SocketsOf : ~ Open(s)'
    BY <2>1 DEF Open
  <2>3. LinkTypeOK'
    BY <2>1 DEF LinkInv, LinkTypeOK, Phases
  <2>4. PrivateLink' /\ PublicLink'
    BY <2>1, <2>2, WhichSockets DEF LinkInv, PrivateLink, PublicLink
  <2>5. VenueServesRecorded' /\ HaltProgress' /\ HaltReleasesSockets'
    BY <2>1, <2>2 DEF LinkInv, VenueServesRecorded, HaltProgress, HaltReleasesSockets
  <2> QED BY <2>3, <2>4, <2>5 DEF LinkInv
<1>3. CASE HaltAtOnce
  <2>1. /\ UNCHANGED <<client, recorded, session, owner, globalDue, orphans>>
        /\ halt = "no" /\ halt' = "done" /\ haltedIn' = phase
        /\ readers' = {} /\ feeds' = {} /\ watched' = FALSE /\ authed' = FALSE
        /\ sockets' = [s \in SocketsOf |-> "none"] /\ lossSeen' = TRUE /\ phase' = "done"
        /\ SocketsOf' = SocketsOf
    BY <1>3 DEF HaltAtOnce, SocketsOf
  <2>2. /\ \A s \in SocketsOf : ~ Open(s)'
        /\ orphans = {}
    BY <2>1 DEF Open, LinkInv, HaltProgress
  <2>3. LinkTypeOK'
    BY <2>1 DEF LinkInv, LinkTypeOK, Phases
  <2>4. PrivateLink' /\ PublicLink'
    BY <2>1, <2>2, WhichSockets DEF LinkInv, PrivateLink, PublicLink
  <2>5. VenueServesRecorded' /\ HaltProgress' /\ HaltReleasesSockets'
    BY <2>1, <2>2 DEF VenueServesRecorded, HaltProgress, HaltReleasesSockets
  <2> QED BY <2>3, <2>4, <2>5 DEF LinkInv
<1> QED BY <1>1, <1>2, <1>3

LEMMA LinkNextInv == LinkInv /\ [LinkNext]_linkVars => LinkInv'
<1> SUFFICES ASSUME LinkInv, [LinkNext]_linkVars PROVE LinkInv' OBVIOUS
<1>1. CASE UNCHANGED linkVars
  BY <1>1 DEF linkVars, LinkInv, LinkTypeOK, PrivateLink, PublicLink, HaltProgress,
       VenueServesRecorded, HaltReleasesSockets, SocketsOf, Open, AllOpen
<1>2. CASE LinkNext
  BY <1>2, ConnectAttemptFailsInv, NoticesInv, ClearInv, OpenPublicInv, OpenLastInv,
     SubscribeAfterLoginInv, ReceiveLoopsInv, SourceInv, OwnerInv, HaltInv DEF LinkNext
<1> QED BY <1>1, <1>2

LEMMA LinkHolds == LinkSpec => []LinkInv
BY LinkInitInv, LinkNextInv, PTL DEF LinkSpec

\* Each client keeps to its types.
THEOREM LinkTypes == LinkSpec => []LinkTypeOK
BY LinkHolds, PTL DEF LinkInv

\* While every socket is up the venue sends what the client has recorded, for
\* each of the three clients.
THEOREM VenueServes == LinkSpec => []VenueServesRecorded
BY LinkHolds, PTL DEF LinkInv

\* A stop leaves nothing connected or read but the second socket of OKX's public
\* client when the stop came while that one was opening.
THEOREM HaltReleases == LinkSpec => []HaltReleasesSockets
BY LinkHolds, PTL DEF LinkInv

-------------------------------------------------------------------------------
(* The loop of VenueLink implements ReconnectLoop *)

\* Clearing, opening and logging in are all part of one attempt.
LEMMA LinkLoopSteps ==
    ASSUME LinkInv, [LinkNext]_linkVars
    PROVE  [LinkLoop!Next]_(LinkLoop!vars)
<1> USE DEF LinkLoop!Next, LinkLoop!vars
<1>1. phase \in Phases /\ halt \in {"no", "closing", "done"}
      BY DEF LinkInv, LinkTypeOK
<1>2. ASSUME phase' = phase, halt' = halt PROVE UNCHANGED LinkLoop!vars
      BY <1>2
<1>3. CASE ConnectAttemptFails
      BY <1>3 DEF ConnectAttemptFails, Fail, LinkLoop!Conclude
<1>4. CASE NoticeLoss \/ RetryConnect
      BY <1>4 DEF NoticeLoss, RetryConnect, BeginConnect, LinkLoop!Attempt
<1>5. CASE NoticeHalt
      BY <1>5 DEF NoticeHalt, LinkLoop!End
<1>6. CASE Clear \/ OpenPublic
      BY <1>6 DEF Clear, OpenPublic
<1>7. CASE OpenLast
  <2>1. phase \in {"connecting", "opening"} /\ halt' = halt
        BY <1>7 DEF OpenLast
  <2>2. phase' \in {"listening", "loggingIn", "backoff", "done"}
    <3>1. CASE client = "okx"
          BY <1>7, <3>1 DEF OpenLast, FinishOpening, ResubscribeChannels, Fail
    <3>2. CASE client # "okx"
      <4>1. Relogin /\ client \in {"okxPrivate", "binanceUser"} /\ authed \in BOOLEAN
            BY <1>7, <3>2 DEF OpenLast, FinishOpening, LinkInv, LinkTypeOK, Clients
      <4> QED
          BY <4>1 DEF Relogin
    <3> QED
        BY <3>1, <3>2
  <2> QED
      BY <2>1, <2>2 DEF LinkLoop!Conclude
<1>8. CASE SubscribeAfterLogin
      BY <1>8 DEF SubscribeAfterLogin, Fail, LinkLoop!Conclude
<1>9. CASE BeginHalt \/ HaltAtOnce
      BY <1>1, <1>9 DEF BeginHalt, HaltAtOnce, LinkLoop!Ask
<1>10. CASE FinishHalt
      BY <1>10 DEF FinishHalt, LinkLoop!End
<1>11. CASE \/ \E s \in SocketsOf : ReaderEnds(s) \/ SocketEnds(s)
            \/ HandlerRaises \/ LoginAnswered \/ Stall
      BY <1>2, <1>11 DEF ReaderEnds, SocketEnds, HandlerRaises, LoginAnswered, Stall
<1>12. CASE \/ Subscribing \/ Unsubscribing \/ SubscribeGlobal
            \/ OwnerSubscribes \/ OwnerAfterLogin \/ OwnerUnsubscribes
            \/ UNCHANGED linkVars
      BY <1>2, <1>12 DEF Subscribing, Unsubscribing, SubscribeGlobal, OwnerSubscribes, OwnerAfterLogin,
                         OwnerUnsubscribes, linkVars
<1> QED
    BY <1>3, <1>4, <1>5, <1>6, <1>7, <1>8, <1>9, <1>10, <1>11, <1>12 DEF LinkNext

\* No attempt of OKX's clients or of Binance's private one begins once its stop
\* is asked for.
THEOREM VenueLoops == LinkSpec => LinkLoopSpec
<1>1. LinkInit => LinkLoop!Init
      BY DEF LinkInit, LinkLoop!Init
<1>2. LinkInv /\ [LinkNext]_linkVars => [LinkLoop!Next]_(LinkLoop!vars)
      BY LinkLoopSteps
<1> QED
    BY <1>1, <1>2, LinkHolds, PTL DEF LinkSpec, LinkLoopSpec, LinkLoop!Spec

\* Whichever of the two links runs, both keep to their types, and neither loop
\* begins an attempt once its stop is asked for.
LEMMA LinksHold == LinksSpec => [](WsInv /\ LinkInv) /\ [][Next]_vars /\ [][LinkNext]_linkVars
<1>1. LinksInit => Init /\ LinkInit
      BY DEF LinksInit
<1>2. [LinksNext]_<<focus, vars, linkVars>> => [Next]_vars /\ [LinkNext]_linkVars
      BY DEF LinksNext
<1> QED
    BY <1>1, <1>2, WsInitInv, WsNextInv, LinkInitInv, LinkNextInv, PTL DEF LinksSpec

\* The links keep to their types.
THEOREM LinksTypes == LinksSpec => []LinksTypeOK
<1>1. WsInv /\ LinkInv => LinksTypeOK
      BY DEF WsInv, LinkInv, LinksTypeOK
<1> QED
    BY <1>1, LinksHold, PTL

\* What is asked to stop, stops: both loops implement ReconnectLoop.
THEOREM LoopsAsPromised == LinksSpec => LoopsKeepPromise
<1>1. LinksInit => Loop!Init /\ LinkLoop!Init
      BY DEF LinksInit, Init, LinkInit, Loop!Init, LinkLoop!Init
<1>2. WsInv /\ [Next]_vars => [Loop!Next]_(Loop!vars)
      BY LoopSteps
<1>3. LinkInv /\ [LinkNext]_linkVars => [LinkLoop!Next]_(LinkLoop!vars)
      BY LinkLoopSteps
<1> QED
    BY <1>1, <1>2, <1>3, LinksHold, PTL
       DEF LinksSpec, LoopsKeepPromise, LoopSpec, LinkLoopSpec, Loop!Spec, LinkLoop!Spec

=============================================================================
