----------------------------- MODULE PolyBridge -----------------------------
(***************************************************************************)
(* The bridge from Polymarket to browsers: PolymarketWSClient, which       *)
(* reconnects by itself, and the WebSocket endpoint of local-api, which    *)
(* keeps one client for everybody and polls over REST when there is none.  *)
(*                                                                         *)
(* A client may have several sockets: its receive loops and reconnect      *)
(* loops outlive the attribute _ws_market.  A socket is numbered when it   *)
(* is opened.  Left out: the user channel, the ping task, delays, and what *)
(* the messages say.                                                       *)
(***************************************************************************)
EXTENDS Integers

CONSTANTS
    Frontends,     \* browsers at /api/v1/ws/polymarket, each of which comes once
    Tokens,        \* token ids
    Nobody,        \* no client, no frontend
    MaxClients,    \* bound: clients made in a behaviour
    MaxSockets     \* bound: sockets opened in a behaviour

ASSUME PolyAssumption ==
    /\ MaxClients \in Nat /\ MaxSockets \in Nat
    /\ Nobody \notin Frontends \cup Int

VARIABLES
    sharedClient,  \* _poly_ws_client
    bridgeLock,    \* the frontend that holds _poly_ws_lock
    clients,       \* clients[c]: closing flag, current socket, recorded tokens, reconnect loops
    made,          \* clients made so far
    sockets,       \* sockets[k]: its client, its state and the tokens it serves
    frontends,     \* frontends[f]: progress, the client it was given, the tokens it wants
    pollTokens,    \* _poll_subscribed_tokens
    polling        \* the task _poll_orderbooks runs

polyVars == <<sharedClient, bridgeLock, clients, made, sockets, frontends, pollTokens, polling>>

Clients == 1..MaxClients
Sockets == 1..MaxSockets
NoSocket == 0

\* "open": serving; "lost": closed, the receive loop has not noticed; "silent":
\* closed in order, so that the receive loop has ended without a word; "ended".
SocketStates == {"unused", "open", "lost", "silent", "ended"}

PolyTypeOK ==
    /\ sharedClient \in Clients \cup {Nobody}
    /\ bridgeLock \in Frontends \cup {Nobody}
    /\ clients \in [Clients -> [closing: BOOLEAN, current: Sockets \cup {NoSocket},
                                recorded: SUBSET Tokens, loops: Nat]]
    /\ made \in 0..MaxClients
    /\ sockets \in [Sockets -> [client: Clients \cup {Nobody}, state: SocketStates, tokens: SUBSET Tokens]]
    /\ frontends \in [Frontends -> [pc: {"away", "arrived", "connecting", "in", "gone"},
                                    given: Clients \cup {Nobody}, wants: SUBSET Tokens]]
    /\ pollTokens \subseteq Tokens
    /\ polling \in BOOLEAN

PolyInit ==
    /\ sharedClient = Nobody
    /\ bridgeLock = Nobody
    /\ clients = [c \in Clients |-> [closing |-> FALSE, current |-> NoSocket, recorded |-> {}, loops |-> 0]]
    /\ made = 0
    /\ sockets = [k \in Sockets |-> [client |-> Nobody, state |-> "unused", tokens |-> {}]]
    /\ frontends = [f \in Frontends |-> [pc |-> "away", given |-> Nobody, wants |-> {}]]
    /\ pollTokens = {}
    /\ polling = FALSE

-------------------------------------------------------------------------------
(* Helpers *)

\* is_connected says whether _ws_market is set, not whether it is open.
Connected(c) == c # Nobody /\ clients[c].current # NoSocket

SocketIn(k, state) == k \in Sockets /\ sockets[k].state = state

\* The socket opened next.
Fresh(k) == SocketIn(k, "unused") /\ \A j \in Sockets : j < k => sockets[j].state # "unused"

Opened(k, c, state, tokens) ==
    sockets' = [sockets EXCEPT ![k] = [client |-> c, state |-> state, tokens |-> tokens]]

-------------------------------------------------------------------------------
(* _ensure_poly_ws *)

\* A browser connects, and asks for the shared client.
Arrive(f) ==
    /\ frontends[f].pc = "away"
    /\ frontends' = [frontends EXCEPT ![f].pc = "arrived"]
    /\ UNCHANGED <<sharedClient, bridgeLock, clients, made, sockets, pollTokens, polling>>

TakeShared(f) ==
    /\ frontends[f].pc = "arrived"
    /\ bridgeLock = Nobody
    /\ Connected(sharedClient)
    /\ frontends' = [frontends EXCEPT ![f].pc = "in", ![f].given = sharedClient]
    /\ UNCHANGED <<sharedClient, bridgeLock, clients, made, sockets, pollTokens, polling>>

\* Under the lock: a client that is not connected is closed, and a new one
\* connects.
MakeClient(f) ==
    /\ frontends[f].pc = "arrived"
    /\ bridgeLock = Nobody
    /\ ~ Connected(sharedClient)
    /\ bridgeLock' = f
    /\ clients' = IF sharedClient = Nobody THEN clients
                  ELSE [clients EXCEPT ![sharedClient].closing = TRUE]
    /\ sharedClient' = Nobody
    /\ frontends' = [frontends EXCEPT ![f].pc = "connecting"]
    /\ UNCHANGED <<made, sockets, pollTokens, polling>>

\* A client made under the lock has its first socket.
ClientConnects(f, k) ==
    /\ frontends[f].pc = "connecting"
    /\ made < MaxClients
    /\ Fresh(k)
    /\ made' = made + 1
    /\ clients' = [clients EXCEPT ![made + 1].current = k]
    /\ Opened(k, made + 1, "open", {})
    /\ sharedClient' = made + 1
    /\ bridgeLock' = Nobody
    /\ frontends' = [frontends EXCEPT ![f].pc = "in", ![f].given = made + 1]
    /\ UNCHANGED <<pollTokens, polling>>

\* connect raises: the frontend gets what is shared now, which is nothing.
ClientFails(f) ==
    /\ frontends[f].pc = "connecting"
    /\ bridgeLock' = Nobody
    /\ frontends' = [frontends EXCEPT ![f].pc = "in", ![f].given = sharedClient]
    /\ UNCHANGED <<sharedClient, clients, made, sockets, pollTokens, polling>>

-------------------------------------------------------------------------------
(* Messages of a browser *)

\* subscribe_market records the tokens and sends them, if it has a socket; a
\* send on a lost socket raises after the recording.
SubscribeToken(f, t) ==
    /\ frontends[f].pc = "in"
    /\ frontends' = [frontends EXCEPT ![f].wants = @ \cup {t}]
    /\ pollTokens' = pollTokens \cup {t}
    /\ LET c == frontends[f].given
       IN  IF c # Nobody
           THEN /\ UNCHANGED polling
                /\ IF Connected(c)
                   THEN /\ clients' = [clients EXCEPT ![c].recorded = @ \cup {t}]
                        /\ sockets' = IF SocketIn(clients[c].current, "open")
                                      THEN [sockets EXCEPT ![clients[c].current].tokens = @ \cup {t}]
                                      ELSE sockets
                   ELSE UNCHANGED <<clients, sockets>>
           ELSE /\ polling' = (polling \/ ~ Connected(sharedClient))
                /\ UNCHANGED <<clients, sockets>>
    /\ UNCHANGED <<sharedClient, bridgeLock, made>>

\* Unsubscribing leaves the client alone, and ends the polling of the token for
\* everybody.
UnsubscribeToken(f, t) ==
    /\ frontends[f].pc = "in"
    /\ t \in frontends[f].wants
    /\ frontends' = [frontends EXCEPT ![f].wants = @ \ {t}]
    /\ pollTokens' = pollTokens \ {t}
    /\ UNCHANGED <<sharedClient, bridgeLock, clients, made, sockets, polling>>

Leave(f) ==
    /\ frontends[f].pc = "in"
    /\ frontends' = [frontends EXCEPT ![f] = [pc |-> "gone", given |-> Nobody, wants |-> {}]]
    /\ UNCHANGED <<sharedClient, bridgeLock, clients, made, sockets, pollTokens, polling>>

\* The polling task sees a connected shared client and ends.
StopPolling ==
    /\ polling
    /\ Connected(sharedClient)
    /\ polling' = FALSE
    /\ UNCHANGED <<sharedClient, bridgeLock, clients, made, sockets, frontends, pollTokens>>

-------------------------------------------------------------------------------
(* Sockets end *)

\* Lost without a closing handshake, or closed in order by the venue or by the
\* stall handler.
SocketCloses(k, state) ==
    /\ sockets[k].state = "open"
    /\ sockets' = [sockets EXCEPT ![k].state = state]
    /\ UNCHANGED <<sharedClient, bridgeLock, clients, made, frontends, pollTokens, polling>>

\* The receive loop of k ends: _ws_market is cleared, whichever socket that is,
\* and a reconnect loop is started.
ReceiveLoopGivesUp(k) ==
    LET c == sockets[k].client
    IN  /\ clients' = [clients EXCEPT ![c].current = NoSocket,
                                      ![c].loops = IF clients[c].closing THEN @ ELSE @ + 1]
        /\ sockets' = [sockets EXCEPT ![k].state = "ended"]

\* ConnectionClosed: the bridge is told, and forgets its client.
NoticeLost(k) ==
    /\ sockets[k].state = "lost"
    /\ ReceiveLoopGivesUp(k)
    /\ sharedClient' = Nobody
    /\ UNCHANGED <<bridgeLock, made, frontends, pollTokens, polling>>

\* Any other exception in the receive loop: the bridge is not told.
ReceiveLoopFails(k) ==
    /\ sockets[k].state = "open"
    /\ ReceiveLoopGivesUp(k)
    /\ UNCHANGED <<sharedClient, bridgeLock, made, frontends, pollTokens, polling>>

-------------------------------------------------------------------------------
(* _reconnect *)

\* How many loops are left when an attempt does not end its loop.
LoopsGoOn(c) == IF clients[c].closing THEN clients[c].loops - 1 ELSE clients[c].loops

\* A closed client's loop that sleeps or connects does not know of the close.
ReconnectForgetful(c, k) ==
    /\ clients[c].loops > 0
    /\ Fresh(k)
    /\ clients' = [clients EXCEPT ![c].current = k, ![c].loops = @ - 1]
    /\ Opened(k, c, "open", {})
    /\ UNCHANGED <<sharedClient, bridgeLock, made, frontends, pollTokens, polling>>

Reconnect(c, k) ==
    /\ clients[c].loops > 0
    /\ Fresh(k)
    /\ clients' = [clients EXCEPT ![c].current = k, ![c].loops = @ - 1]
    /\ Opened(k, c, "open", clients[c].recorded)
    /\ UNCHANGED <<sharedClient, bridgeLock, made, frontends, pollTokens, polling>>

\* Connected, but the socket is lost before the tokens are sent: this loop goes
\* on, and the receive loop will start another one.
ReconnectHalfway(c, k) ==
    /\ clients[c].loops > 0
    /\ clients[c].recorded # {}
    /\ Fresh(k)
    /\ clients' = [clients EXCEPT ![c].current = k, ![c].loops = LoopsGoOn(c)]
    /\ Opened(k, c, "lost", {})
    /\ UNCHANGED <<sharedClient, bridgeLock, made, frontends, pollTokens, polling>>

\* connect raises: only a loop of a closed client ends.
ReconnectFails(c) ==
    /\ clients[c].loops > 0
    /\ clients[c].closing
    /\ clients' = [clients EXCEPT ![c].loops = @ - 1]
    /\ UNCHANGED <<sharedClient, bridgeLock, made, sockets, frontends, pollTokens, polling>>

-------------------------------------------------------------------------------

PolyNext ==
    \/ \E f \in Frontends :
          \/ Arrive(f) \/ TakeShared(f) \/ MakeClient(f) \/ ClientFails(f) \/ Leave(f)
          \/ \E k \in Sockets : ClientConnects(f, k)
          \/ \E t \in Tokens : SubscribeToken(f, t) \/ UnsubscribeToken(f, t)
    \/ \E k \in Sockets :
          \/ SocketCloses(k, "lost") \/ SocketCloses(k, "silent")
          \/ NoticeLost(k) \/ ReceiveLoopFails(k)
          \/ \E c \in Clients : Reconnect(c, k) \/ ReconnectHalfway(c, k)
    \/ \E c \in Clients : ReconnectFails(c)
    \/ StopPolling

PolySpec == PolyInit /\ [][PolyNext]_polyVars

-------------------------------------------------------------------------------
(* Properties *)

\* Whatever is lost and reopened, by one reconnect loop of a client or by two
\* at once, the socket a client holds serves every token the client recorded.
RecordedTokensServed ==
    \A c \in Clients :
        LET k == clients[c].current
        IN  SocketIn(k, "open") => clients[c].recorded \subseteq sockets[k].tokens

=============================================================================
