------------------------------ MODULE VenueLink ------------------------------
(***************************************************************************)
(* The links that differ from the one of WsLink: OKX's public client, with *)
(* two sockets and one disconnect event, and the clients of private data,  *)
(* which log in before they subscribe.  A ReconnectManager drives each.    *)
(*                                                                         *)
(* The public client serves an OKXSource; nothing in the repository starts *)
(* the private ones, so `Owner` is whoever calls their subscribe.          *)
(*                                                                         *)
(* The venue and the `websockets` library are external, as in WsLink: a    *)
(* socket ends "lost" (the receive loop sees ConnectionClosed) or          *)
(* "finished" (closed in order: the loop just ends).  A venue handles the  *)
(* messages of a socket in order and takes every login.                    *)
(*                                                                         *)
(* Abstractions: one symbol, one kline interval; the books5 channel, which *)
(* does what "tickers" does; time; the limit of restarts (after an error   *)
(* the manager may always give up); messages other than login answers.     *)
(***************************************************************************)
EXTENDS Integers, Sequences

VARIABLES
    client,      \* the client class, fixed
    phase,       \* where ReconnectManager.run is
    sockets,     \* the client's sockets
    readers,     \* sockets with a receive loop
    recorded,    \* _subscriptions
    feeds,       \* streams the venue sends
    lossSeen,    \* _disconnected_event is set
    watched,     \* the watchdog is armed
    authed,      \* _authenticated
    session,     \* the venue has taken a login on the current socket
    owner,       \* the owner's subscribe sleeps after its login
    globalDue,   \* _subscribe_futures_global has yet to run
    halt,        \* progress of stop
    haltedIn,    \* history: the phase stop began in
    orphans      \* open sockets the client forgot

linkVars == <<client, phase, sockets, readers, recorded, feeds, lossSeen, watched, authed,
              session, owner, globalDue, halt, haltedIn, orphans>>

Clients == {"okx", "okxPrivate", "binanceUser"}
Phases == {"clearing", "connecting", "opening", "loggingIn", "listening", "backoff", "done"}
ClosedWays == {"lost", "finished"}
\* The order in which the source subscribes to a symbol.
SymbolChannels == <<"tickers", "candle", "trades">>
Channels == {"tickers", "candle", "trades", "liquidations", "account"}

SocketsOf == IF client = "okx" THEN {"public", "business"} ELSE {"private"}
SocketFor(channel) ==
    IF client # "okx" THEN "private" ELSE IF channel = "candle" THEN "business" ELSE "public"

Open(s) == sockets[s] = "open"
HasEnded(s) == sockets[s] \in ClosedWays

LinkTypeOK ==
    /\ client \in Clients
    /\ phase \in Phases
    /\ sockets \in [SocketsOf -> {"none", "open"} \cup ClosedWays]
    /\ readers \subseteq SocketsOf
    /\ recorded \subseteq Channels /\ feeds \subseteq Channels
    /\ {lossSeen, watched, authed, session, globalDue} \subseteq BOOLEAN
    /\ owner \in {"idle", "loggingIn"}
    /\ halt \in {"no", "closing", "done"}
    /\ haltedIn \in Phases \cup {"none"}
    /\ orphans \subseteq SocketsOf

LinkInit ==
    /\ client \in Clients
    /\ phase = "connecting"
    /\ sockets = [s \in SocketsOf |-> "none"]
    /\ readers = {} /\ recorded = {} /\ feeds = {}
    /\ lossSeen = FALSE /\ watched = FALSE
    /\ authed = FALSE /\ session = FALSE
    /\ owner = "idle"
    /\ globalDue = (client = "okx")
    /\ halt = "no" /\ haltedIn = "none" /\ orphans = {}

-------------------------------------------------------------------------------
(* ReconnectManager.run and connect *)

\* Open sockets are closed, each in one way or the other.
CloseSockets ==
    sockets' \in {f \in [SocketsOf -> {"none"} \cup ClosedWays] :
                    \A s \in SocketsOf : IF Open(s) THEN f[s] # "none" ELSE f[s] = sockets[s]}

\* After an error: a backoff, or the end of the loop (AUTH, too many restarts).
Fail == phase' \in {"backoff", "done"}

ConnectAttemptFails ==
    /\ phase \in {"connecting", "opening"}
    /\ Fail
    /\ UNCHANGED <<client, sockets, readers, recorded, feeds, lossSeen, watched, authed, session,
                   owner, globalDue, halt, haltedIn, orphans>>

\* connect of OKX's public client first cancels its receive loops and closes its
\* sockets; the private clients take their old socket for closed.
BeginConnect ==
    IF client = "okx"
    THEN phase' = "clearing" /\ readers' = {} /\ CloseSockets
    ELSE phase' = "connecting" /\ UNCHANGED <<readers, sockets>>

NoticeLoss ==
    /\ phase = "listening" /\ lossSeen /\ halt = "no"
    /\ BeginConnect
    /\ UNCHANGED <<client, recorded, feeds, lossSeen, watched, authed, session, owner, globalDue,
                   halt, haltedIn, orphans>>

\* The backoff is over, and by then so is a receive loop whose socket has ended.
RetryConnect ==
    /\ phase = "backoff" /\ halt = "no"
    /\ \A s \in readers : Open(s)
    /\ BeginConnect
    /\ UNCHANGED <<client, recorded, feeds, lossSeen, watched, authed, session, owner, globalDue,
                   halt, haltedIn, orphans>>

NoticeHalt ==
    /\ phase \in {"listening", "backoff"} /\ halt # "no"
    /\ phase' = "done"
    /\ UNCHANGED <<client, sockets, readers, recorded, feeds, lossSeen, watched, authed, session,
                   owner, globalDue, halt, haltedIn, orphans>>

\* The close handshakes are over.
Clear ==
    /\ phase = "clearing"
    /\ phase' = "connecting"
    /\ sockets' = [s \in SocketsOf |-> "none"]
    /\ feeds' = {}
    /\ UNCHANGED <<client, readers, recorded, lossSeen, watched, authed, session, owner, globalDue,
                   halt, haltedIn, orphans>>

OpenPublic ==
    /\ client = "okx" /\ phase = "connecting"
    /\ phase' = "opening"
    /\ sockets' = [sockets EXCEPT !["public"] = "open"]
    /\ UNCHANGED <<client, readers, recorded, feeds, lossSeen, watched, authed, session, owner,
                   globalDue, halt, haltedIn, orphans>>

\* _resubscribe of OKX's public client: of two sends the first that raises ends it.
ResubscribeChannels ==
    LET needed == {SocketFor(c) : c \in recorded}
    IN  IF \A s \in needed : sockets'[s] = "open"
        THEN phase' = "listening" /\ feeds' = recorded
        ELSE Fail /\ feeds' = IF sockets'["public"] = "open"
                              THEN {c \in recorded : SocketFor(c) = "public"} ELSE {}

\* _resubscribe of a private client on a new socket.  OKX's login is followed by
\* a sleep; Binance's counts as done once it is sent.
Relogin ==
    CASE recorded = {} ->
            phase' = "listening" /\ feeds' = {} /\ session' = FALSE /\ UNCHANGED authed
      [] recorded # {} /\ authed ->
            phase' = "listening" /\ feeds' = {} /\ session' = FALSE /\ UNCHANGED authed
      [] recorded # {} /\ ~ authed /\ client = "binanceUser" ->
            phase' = "listening" /\ feeds' = recorded /\ session' = TRUE /\ authed' = TRUE
      [] recorded # {} /\ ~ authed /\ client = "okxPrivate" ->
            phase' = "loggingIn" /\ feeds' = {} /\ session' = TRUE /\ UNCHANGED authed

FinishOpeningForgetful ==
    /\ lossSeen' = FALSE
    /\ watched' = (watched \/ recorded # {})
    /\ readers' = SocketsOf
    /\ phase' = "listening"
    /\ feeds' = {}
    /\ UNCHANGED <<authed, session>>

\* _dispatch_connect, the watchdog, the receive loops, and _resubscribe, whose
\* send arms the watchdog.
FinishOpening ==
    /\ lossSeen' = FALSE
    /\ watched' = (watched \/ recorded # {})
    /\ readers' = SocketsOf
    /\ IF client = "okx" THEN ResubscribeChannels /\ UNCHANGED <<authed, session>> ELSE Relogin

\* The last socket opens, and connect runs to its end.
OpenLast ==
    /\ IF client = "okx"
       THEN phase = "opening" /\ sockets' = [sockets EXCEPT !["business"] = "open"]
       ELSE phase = "connecting" /\ sockets' = [sockets EXCEPT !["private"] = "open"]
    /\ FinishOpening
    /\ UNCHANGED <<client, recorded, owner, globalDue, halt, haltedIn, orphans>>

\* The send of a private client: the venue only serves who has logged in.
SendSubscription ==
    IF Open("private")
    THEN /\ recorded' = {"account"}
         /\ feeds' = IF session' THEN {"account"} ELSE feeds
         /\ watched' = TRUE
    ELSE UNCHANGED <<recorded, feeds, watched>>

\* Half a second after the login the subscription goes out, whatever came back.
SubscribeAfterLogin ==
    /\ phase = "loggingIn"
    /\ IF Open("private") THEN phase' = "listening" ELSE Fail
    /\ UNCHANGED session
    /\ SendSubscription
    /\ UNCHANGED <<client, sockets, readers, lossSeen, authed, owner, globalDue, halt, haltedIn,
                   orphans>>

-------------------------------------------------------------------------------
(* Receive loops and the watchdog *)

ReaderEndsUnannounced(s) ==
    /\ s \in readers \ orphans /\ ~ Open(s)
    /\ readers' = readers \ {s}
    /\ UNCHANGED <<client, phase, sockets, recorded, feeds, lossSeen, watched, authed, session, owner,
                   globalDue, halt, haltedIn, orphans>>

\* One lost socket of two announces a loss for both.  Only OKX's private client
\* takes it that a lost socket ends its login.
ReaderEnds(s) ==
    /\ s \in readers \ orphans /\ ~ Open(s)
    /\ readers' = readers \ {s}
    /\ lossSeen' = (lossSeen \/ sockets[s] = "lost")
    /\ authed' = (authed /\ ~ (client = "okxPrivate" /\ sockets[s] = "lost"))
    /\ UNCHANGED <<client, phase, sockets, recorded, feeds, watched, session, owner, globalDue,
                   halt, haltedIn, orphans>>

\* The private clients do not guard the handling of a message: a callback that
\* raises ends the receive loop, and the socket stays open.
HandlerRaises ==
    /\ client # "okx" /\ readers # {} /\ Open("private")
    /\ readers' = {}
    /\ UNCHANGED <<client, phase, sockets, recorded, feeds, lossSeen, watched, authed, session,
                   owner, globalDue, halt, haltedIn, orphans>>

LoginAnswered ==
    /\ client = "okxPrivate" /\ readers # {} /\ Open("private") /\ session
    /\ authed' = TRUE
    /\ UNCHANGED <<client, phase, sockets, readers, recorded, feeds, lossSeen, watched, session,
                   owner, globalDue, halt, haltedIn, orphans>>

\* The watchdog disarms itself and closes every socket in turn.
Stall ==
    /\ watched
    /\ watched' = FALSE
    /\ CloseSockets
    /\ UNCHANGED <<client, phase, readers, recorded, feeds, lossSeen, authed, session, owner,
                   globalDue, halt, haltedIn, orphans>>

\* eventStreamTerminated makes Binance's client do as if the venue closed in order.
SocketEnds(s) ==
    /\ Open(s)
    /\ sockets' \in {[sockets EXCEPT ![s] = w] : w \in ClosedWays}
    /\ UNCHANGED <<client, phase, readers, recorded, feeds, lossSeen, watched, authed, session,
                   owner, globalDue, halt, haltedIn, orphans>>
-------------------------------------------------------------------------------
(* OKXSource: subscribe, unsubscribe, the liquidation stream of all symbols *)

\* The sends of the channels in turn: a channel is recorded before its send, and
\* the first send on a socket that has ended raises.
AttemptedChannels ==
    {SymbolChannels[i] : i \in {j \in DOMAIN SymbolChannels :
        \A k \in 1..(j - 1) : ~ HasEnded(SocketFor(SymbolChannels[k]))}}

Subscribing ==
    /\ client = "okx" /\ halt = "no"
    /\ LET sent == {c \in AttemptedChannels : Open(SocketFor(c))}
       IN  /\ recorded' = recorded \cup AttemptedChannels
           /\ feeds' = feeds \cup sent
           /\ watched' = (watched \/ sent # {})
    /\ UNCHANGED <<client, phase, sockets, readers, lossSeen, authed, session, owner, globalDue,
                   halt, haltedIn, orphans>>

\* The stream of trades is left as it is.  A public send that raises keeps the
\* business socket from being told.
Unsubscribing ==
    /\ client = "okx"
    /\ LET dropped == {"tickers", "candle"}
       IN  /\ recorded' = recorded \ dropped
           /\ feeds' = IF HasEnded("public") THEN feeds
                       ELSE feeds \ {c \in dropped : Open(SocketFor(c))}
    /\ UNCHANGED <<client, phase, sockets, readers, lossSeen, watched, authed, session, owner,
                   globalDue, halt, haltedIn, orphans>>

\* Once, two seconds after the start: without a public socket the client returns,
\* and on one that has ended the send raises.
SubscribeGlobal ==
    /\ globalDue
    /\ globalDue' = FALSE
    /\ LET sent == IF Open("public") THEN {"liquidations"} ELSE {}
       IN  /\ recorded' = recorded \cup sent
           /\ feeds' = feeds \cup sent
           /\ watched' = (watched \/ sent # {})
    /\ UNCHANGED <<client, phase, sockets, readers, lossSeen, authed, session, owner, halt,
                   haltedIn, orphans>>

-------------------------------------------------------------------------------
(* The owner of a private client *)

OwnerSubscribes ==
    /\ client # "okx" /\ halt = "no" /\ owner = "idle"
    /\ sockets["private"] # "none"
    /\ IF client = "okxPrivate" /\ ~ authed
       THEN /\ session' = (session \/ Open("private"))
            /\ owner' = IF Open("private") THEN "loggingIn" ELSE "idle"
            /\ UNCHANGED <<recorded, feeds, watched, authed>>
       ELSE /\ session' = (session \/ (~ authed /\ Open("private")))
            /\ authed' = (authed \/ Open("private"))
            /\ SendSubscription
            /\ UNCHANGED owner
    /\ UNCHANGED <<client, phase, sockets, readers, lossSeen, globalDue, halt, haltedIn, orphans>>

OwnerAfterLogin ==
    /\ owner = "loggingIn"
    /\ owner' = "idle"
    /\ UNCHANGED session
    /\ SendSubscription
    /\ UNCHANGED <<client, phase, sockets, readers, lossSeen, authed, globalDue, halt, haltedIn,
                   orphans>>

OwnerUnsubscribes ==
    /\ client # "okx" /\ Open("private")
    /\ recorded' = {} /\ feeds' = {}
    /\ UNCHANGED <<client, phase, sockets, readers, lossSeen, watched, authed, session, owner,
                   globalDue, halt, haltedIn, orphans>>

-------------------------------------------------------------------------------
(* ReconnectManager.stop, then the reconnect task is cancelled *)

\* close takes the sockets there are, and waits for their handshakes.
BeginHalt ==
    /\ halt = "no"
    /\ \E s \in SocketsOf : Open(s)
    /\ halt' = "closing" /\ haltedIn' = phase
    /\ readers' = {} /\ watched' = FALSE /\ authed' = FALSE
    /\ CloseSockets
    /\ UNCHANGED <<client, phase, recorded, feeds, lossSeen, session, owner, globalDue, orphans>>

\* It forgets the sockets there are by then.
FinishHalt ==
    /\ halt = "closing"
    /\ halt' = "done"
    /\ orphans' = {s \in SocketsOf : Open(s)}
    /\ readers' = readers \cap orphans'
    /\ sockets' = [s \in SocketsOf |-> "none"]
    /\ feeds' = {c \in feeds : SocketFor(c) \in orphans'}
    /\ lossSeen' = TRUE
    /\ phase' = "done"
    /\ UNCHANGED <<client, recorded, watched, authed, session, owner, globalDue, haltedIn>>

HaltAtOnceReading ==
    /\ halt = "no"
    /\ \A s \in SocketsOf : ~ Open(s)
    /\ halt' = "done" /\ haltedIn' = phase
    /\ feeds' = {} /\ watched' = FALSE /\ authed' = FALSE
    /\ sockets' = [s \in SocketsOf |-> "none"]
    /\ lossSeen' = TRUE
    /\ phase' = "done"
    /\ UNCHANGED <<client, readers, recorded, session, owner, globalDue, orphans>>

\* Without an open socket nothing suspends.
HaltAtOnce ==
    /\ halt = "no"
    /\ \A s \in SocketsOf : ~ Open(s)
    /\ halt' = "done" /\ haltedIn' = phase
    /\ readers' = {} /\ feeds' = {} /\ watched' = FALSE /\ authed' = FALSE
    /\ sockets' = [s \in SocketsOf |-> "none"]
    /\ lossSeen' = TRUE
    /\ phase' = "done"
    /\ UNCHANGED <<client, recorded, session, owner, globalDue, orphans>>

-------------------------------------------------------------------------------

LinkNext ==
    \/ ConnectAttemptFails \/ NoticeLoss \/ RetryConnect \/ NoticeHalt \/ Clear
    \/ OpenPublic \/ OpenLast \/ SubscribeAfterLogin
    \/ \E s \in SocketsOf : ReaderEnds(s) \/ SocketEnds(s)
    \/ HandlerRaises \/ LoginAnswered \/ Stall
    \/ Subscribing \/ Unsubscribing \/ SubscribeGlobal
    \/ OwnerSubscribes \/ OwnerAfterLogin \/ OwnerUnsubscribes
    \/ BeginHalt \/ FinishHalt \/ HaltAtOnce

AllOpen == \A s \in SocketsOf : Open(s)

(* Ready coroutines run, handshakes and attempts to connect end; the venue is  *)
(* not unreachable for ever, and now and then every socket lives until it is   *)
(* subscribed.                                                                 *)
LinkFairness ==
    /\ WF_linkVars(NoticeLoss) /\ WF_linkVars(RetryConnect) /\ WF_linkVars(NoticeHalt)
    /\ WF_linkVars(Clear) /\ WF_linkVars(FinishHalt) /\ WF_linkVars(SubscribeAfterLogin)
    /\ WF_linkVars(\E s \in SocketsOf : ReaderEnds(s))
    /\ WF_linkVars(ConnectAttemptFails \/ OpenPublic \/ OpenLast)
    /\ SF_linkVars(OpenPublic)
    /\ SF_linkVars(OpenLast /\ AllOpen')
    /\ SF_linkVars(SubscribeAfterLogin /\ AllOpen)

LinkSpec == LinkInit /\ [][LinkNext]_linkVars /\ LinkFairness

-------------------------------------------------------------------------------
(* Properties *)

\* While every socket is up the venue sends what the client has recorded, however
\* connects of two sockets, subscriptions, losses of one of them and logins
\* interleave; a private client that never logged in on this socket is served
\* nothing.
VenueServesRecorded ==
    phase = "listening" /\ halt = "no" /\ AllOpen =>
        \/ feeds = recorded
        \/ client # "okx" /\ feeds = {} /\ (session => owner = "loggingIn")

\* After a stop nothing is connected and nothing is read, unless the stop met the
\* second socket while it was opening: that one is forgotten open.
HaltReleasesSockets ==
    halt = "done" => (orphans \cup readers # {} => haltedIn = "opening" /\ orphans = {"business"})

\* A socket that is lost while it is read brings every socket and every recorded
\* stream back, unless the manager gives up or is stopped, a socket is closed in
\* order or a callback ends the receive loop, which nobody notices.  Binance's
\* private client comes back without a login when it had logged in before.
LostSocketRecovers ==
    \A s \in {"public", "business", "private"} :
        (s \in readers /\ phase = "listening" /\ sockets[s] = "lost")
            ~> \/ AllOpen /\ phase = "listening" /\ feeds = recorded
               \/ \E r \in SocketsOf : sockets[r] = "finished"
               \/ phase = "done"
               \/ AllOpen /\ readers = {}
               \/ client = "binanceUser" /\ AllOpen /\ phase = "listening" /\ ~ session

-------------------------------------------------------------------------------
(* What the manager promises *)

LinkLoop == INSTANCE ReconnectLoop WITH
                loop  <- CASE phase \in {"clearing", "connecting", "opening", "loggingIn"} -> "trying"
                           [] phase = "listening" -> "up"
                           [] phase = "backoff"   -> "pausing"
                           [] phase = "done"      -> "over",
                asked <- halt # "no"

\* Also with two sockets to close and open, and with a login between a connect
\* and its subscription: once stop is asked for no attempt begins, and a loop
\* that is over stays over.
LinkLoopSpec == LinkLoop!Spec

=============================================================================
