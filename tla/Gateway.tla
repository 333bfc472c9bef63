------------------------------ MODULE Gateway ------------------------------
(***************************************************************************)
(* The WebSocket endpoints of local-api (ws.py) and the bridge from market *)
(* events to their clients (main.py): connecting within a limit per IP,    *)
(* one channel, broadcasts that run as tasks and wait on slow clients, and *)
(* the throttle of order books.                                            *)
(*                                                                         *)
(* The web server and the sockets are external.  A send to a client whose  *)
(* buffer is full has written its message and waits until the buffer has   *)
(* drained; waits on one client end in the order they began; a send to a   *)
(* socket that is gone raises, also one that is already waiting.           *)
(*                                                                         *)
(* Abstractions: one channel and one IP (the managers of the endpoints     *)
(* share the counts of IPs and nothing else); contents of events; answers  *)
(* and pings to a client; who may subscribe to what.                       *)
(***************************************************************************)
EXTENDS Integers, Sequences, SequencesExt, FiniteSets, SeqWithout

CONSTANTS
    Browsers,     \* clients, each connects once
    Slow,         \* bound: clients whose buffer may fill
    Mortal,       \* bound: clients whose socket may die
    MaxPerIp,     \* _MAX_WS_CONNECTIONS_PER_IP
    MaxTicks,     \* bound: tickers
    MaxBooks,     \* bound: order books
    MaxFlushers   \* bound: flush tasks created

ASSUME GatewayAssumption == 
    /\ IsFiniteSet(Browsers)
    /\ Slow \subseteq Browsers /\ Mortal \subseteq Browsers
    /\ {MaxPerIp, MaxTicks, MaxBooks, MaxFlushers} \subseteq Nat

VARIABLES
    endpoint,      \* where the endpoint's coroutine for a client is
    alive,         \* sockets that are up
    full,          \* sockets whose buffer is full
    connections,   \* keys of the manager's _connections, in their order
    channel,       \* clients subscribed to the channel
    ipCount,       \* _ip_connection_counts of the IP
    ipRead,        \* ip_count of a connect under way
    created,       \* events whose broadcast has yet to begin
    casts,         \* broadcasts that wait, in the order they began to
    latest,        \* history: the number of the last ticker and book written to each socket
    disorder,      \* history: an event was written after a newer one of its kind
    published,     \* number of tickers and order books so far
    pendingBook,   \* _pending_ob; 0 stands for none
    flushers,      \* flush tasks: created, and those that have begun
    raced,         \* history: the count changed during an accept
    leaked,        \* history: refusals that raised
    owed,          \* history: events not yet written to a client that was subscribed
                   \* when their broadcast began
    jumped         \* history: a client left the channel while a broadcast waited on it

gatewayVars == <<endpoint, alive, full, connections, channel, ipCount, ipRead, created,
                 casts, latest, disorder, published, pendingBook, flushers, raced, leaked, owed, jumped>>

Kinds == {"ticker", "depth"}
Event == [kind: Kinds, number: 1..(MaxTicks + MaxBooks)]
\* A broadcast that waits on a client, with the clients it has yet to visit and
\* those whose send raised.
Cast == [event: Event, waits: Browsers, ahead: Seq(Browsers), dead: SUBSET Browsers]

GatewayTypeOK ==
    /\ endpoint \in [Browsers -> {"none", "accepting", "refusing", "open", "gone"}]
    /\ alive \subseteq Browsers /\ full \subseteq Browsers /\ channel \subseteq Browsers
    /\ leaked \subseteq Browsers
    /\ connections \in Seq(Browsers)
    /\ ipCount \in 0..Cardinality(Browsers)
    /\ ipRead \in [Browsers -> 0..Cardinality(Browsers)]
    /\ created \in Seq(Event) /\ casts \in Seq(Cast)
    /\ latest \in [Browsers -> [Kinds -> Nat]]
    /\ published \in [Kinds -> Nat]
    /\ pendingBook \in 0..MaxBooks
    /\ flushers \in [created: 0..MaxFlushers, begun: 0..MaxFlushers]
    /\ {raced, jumped, disorder} \subseteq BOOLEAN
    /\ owed \in [Browsers -> SUBSET Event]

GatewayInit ==
    /\ endpoint = [b \in Browsers |-> "none"]
    /\ alive = Browsers /\ full = {} /\ connections = <<>> /\ channel = {}
    /\ ipCount = 0 /\ ipRead = [b \in Browsers |-> 0]
    /\ created = <<>> /\ casts = <<>>
    /\ latest = [b \in Browsers |-> [k \in Kinds |-> 0]] /\ disorder = FALSE
    /\ published = [k \in Kinds |-> 0]
    /\ pendingBook = 0
    /\ flushers = [created |-> 0, begun |-> 0]
    /\ raced = FALSE /\ leaked = {} /\ jumped = FALSE
    /\ owed = [b \in Browsers |-> {}]

Keys == ToSet(connections)

-------------------------------------------------------------------------------
(* ConnectionManager: connect and disconnect *)

\* The count is read before the accept is awaited ...
BeginAccept(b) ==
    /\ endpoint[b] = "none"
    /\ IF ipCount >= MaxPerIp
       THEN endpoint' = [endpoint EXCEPT ![b] = "gone"] /\ UNCHANGED ipRead
       ELSE endpoint' = [endpoint EXCEPT ![b] = "accepting"] /\ ipRead' = [ipRead EXCEPT ![b] = ipCount]
    /\ UNCHANGED <<alive, full, connections, channel, ipCount, created, casts, latest, disorder,
                   published, pendingBook, flushers, raced, leaked, owed, jumped>>

\* ... and written after it.  The agent's endpoint refuses a client without a user.
FinishAccept(b) ==
    /\ endpoint[b] = "accepting"
    /\ IF b \in alive
       THEN /\ \E e \in {"open", "refusing"} : endpoint' = [endpoint EXCEPT ![b] = e]
            /\ connections' = Append(connections, b)
            /\ ipCount' = ipRead[b] + 1
            /\ raced' = (raced \/ ipCount # ipRead[b])
       ELSE /\ endpoint' = [endpoint EXCEPT ![b] = "gone"]
            /\ UNCHANGED <<connections, ipCount, raced>>
    /\ ipRead' = [ipRead EXCEPT ![b] = 0]
    /\ UNCHANGED <<alive, full, channel, created, casts, latest, disorder, published,
                   pendingBook, flushers, leaked, owed, jumped>>

Minus(n, k) == IF n > k THEN n - k ELSE 0

DropUnguarded(gone) ==
    /\ connections' = Without(connections, gone)
    /\ ipCount' = Minus(ipCount, Cardinality(gone))

\* A broadcast that failed and the endpoint both disconnect a client; only the
\* first of them counts.
DropClients(gone) ==
    /\ connections' = Without(connections, gone)
    /\ ipCount' = Minus(ipCount, Cardinality(gone \cap Keys))

\* The endpoint's receive or send has raised: its finally clause.
EndpointEnds(b) ==
    /\ endpoint[b] = "open" /\ b \notin alive
    /\ endpoint' = [endpoint EXCEPT ![b] = "gone"]
    /\ DropClients({b})
    /\ UNCHANGED <<alive, full, channel, ipRead, created, casts, latest, disorder, published,
                   pendingBook, flushers, raced, leaked, owed, jumped>>

\* The refusal has no finally clause.
Refuse(b) ==
    /\ endpoint[b] = "refusing"
    /\ endpoint' = [endpoint EXCEPT ![b] = "gone"]
    /\ IF b \in alive
       THEN DropClients({b}) /\ UNCHANGED leaked
       ELSE leaked' = leaked \cup {b} /\ UNCHANGED <<connections, ipCount>>
    /\ UNCHANGED <<alive, full, channel, ipRead, created, casts, latest, disorder, published,
                   pendingBook, flushers, raced, owed, jumped>>

\* A client that a broadcast has dropped is no key any more.
JoinChannel(b) ==
    /\ endpoint[b] = "open"
    /\ b \in Keys
    /\ channel' = channel \cup {b}
    /\ UNCHANGED <<endpoint, alive, full, connections, ipCount, ipRead, created, casts, latest,
                   disorder, published, pendingBook, flushers, raced, leaked, owed, jumped>>

LeaveChannel(b) ==
    /\ endpoint[b] = "open" /\ b \in channel \cap Keys
    /\ channel' = channel \ {b}
    /\ owed' = [owed EXCEPT ![b] = {}]
    /\ jumped' = (jumped \/ \E i \in DOMAIN casts : casts[i].waits = b)
    /\ UNCHANGED <<endpoint, alive, full, connections, ipCount, ipRead, created, casts, latest,
                   disorder, published, pendingBook, flushers, raced, leaked>>

-------------------------------------------------------------------------------
(* broadcast, broadcast_raw *)

\* A send waits on a client with a full buffer, or behind others that wait.
WaitsAt(list, others) ==
    {k \in DOMAIN list : /\ list[k] \in channel \cap alive
                         /\ list[k] \in full \/ \E i \in DOMAIN others : others[i].waits = list[k]}

FirstOf(S) == CHOOSE n \in S : \A m \in S : n <= m

\* `event` is written to the clients `here`; `due` is what they were owed.
WriteTo(event, here, due) ==
    /\ owed' = [b \in Browsers |-> IF b \in here THEN due[b] \ {event} ELSE due[b]]
    /\ latest' = [b \in Browsers |-> IF b \in here THEN [latest[b] EXCEPT ![event.kind] = event.number]
                                               ELSE latest[b]]
    /\ disorder' = (disorder \/ \E b \in here : latest[b][event.kind] >= event.number)

VisitGivingUp(event, list, dead, others, due) ==
    LET raising == {k \in DOMAIN list : list[k] \in channel \ alive}
        n == IF raising = {} THEN Len(list) ELSE FirstOf(raising) - 1
        here == {list[k] : k \in 1..n} \cap channel
    IN  /\ WriteTo(event, here \cap alive, due)
        /\ casts' = others
        /\ DropClients(dead \cup {list[k] : k \in raising})

\* A broadcast goes through its list until a send waits, or to the end, where it
\* disconnects the clients whose send raised.  It looks at the subscriptions a
\* client has by then, or had when it was disconnected.  `others` are the other
\* broadcasts.
Visit(event, list, dead, others, due) ==
    LET stops == WaitsAt(list, others)
        n == IF stops = {} THEN Len(list) ELSE FirstOf(stops)
        here == {list[k] : k \in 1..n} \cap channel
    IN  /\ WriteTo(event, here \cap alive, due)
        /\ IF stops = {}
           THEN casts' = others /\ DropClients(dead \cup (here \ alive))
           ELSE /\ casts' = Append(others, [event |-> event, waits |-> list[n],
                                           ahead |-> SubSeq(list, n + 1, Len(list)),
                                           dead |-> dead \cup (here \ alive)])
                /\ UNCHANGED <<connections, ipCount>>

\* Tasks begin in the order of their events, with the clients of that moment.
BeginCast ==
    /\ created # <<>>
    /\ created' = Tail(created)
    /\ Visit(Head(created), connections, {}, casts,
             [b \in Browsers |-> IF b \in channel \cap Keys THEN owed[b] \cup {Head(created)}
                                                               ELSE owed[b]])
    /\ UNCHANGED <<endpoint, alive, full, channel, ipRead, published, pendingBook, flushers,
                   raced, leaked, jumped>>

WaitingOn(b) == {i \in DOMAIN casts : casts[i].waits = b}

\* The buffer has drained, or the socket is gone.
ResumeCast(b) ==
    /\ WaitingOn(b) # {}
    /\ b \in full => b \notin alive
    /\ LET i == FirstOf(WaitingOn(b))
       IN  Visit(casts[i].event, casts[i].ahead, casts[i].dead \cup ({b} \ alive), RemoveAt(casts, i),
                  owed)
    /\ UNCHANGED <<endpoint, alive, full, channel, ipRead, created, published, pendingBook,
                   flushers, raced, leaked, jumped>>

-------------------------------------------------------------------------------
(* Sockets *)

BufferFills(b) ==
    /\ b \in Slow \cap alive \cap channel
    /\ b \notin full
    /\ full' = full \cup {b}
    /\ UNCHANGED <<endpoint, alive, connections, channel, ipCount, ipRead, created, casts,
                   latest, disorder, published, pendingBook, flushers, raced, leaked, owed,
                   jumped>>

BufferDrains(b) ==
    /\ b \in full
    /\ full' = full \ {b}
    /\ UNCHANGED <<endpoint, alive, connections, channel, ipCount, ipRead, created, casts,
                   latest, disorder, published, pendingBook, flushers, raced, leaked, owed,
                   jumped>>

SocketDies(b) ==
    /\ b \in Mortal \cap alive
    /\ endpoint[b] \in {"accepting", "refusing", "open"}
    /\ alive' = alive \ {b}
    /\ owed' = [owed EXCEPT ![b] = {}]
    /\ jumped' = (jumped \/ WaitingOn(b) # {})
    /\ UNCHANGED <<endpoint, full, connections, channel, ipCount, ipRead, created, casts,
                   latest, disorder, published, pendingBook, flushers, raced, leaked>>

-------------------------------------------------------------------------------
(* _bridge_market_events *)

\* Without any client nothing is made of an event.
Ticker ==
    /\ published["ticker"] < MaxTicks
    /\ published' = [published EXCEPT !["ticker"] = @ + 1]
    /\ created' = IF connections = <<>> THEN created
                ELSE Append(created, [kind |-> "ticker", number |-> published'["ticker"]])
    /\ UNCHANGED <<endpoint, alive, full, connections, channel, ipCount, ipRead, casts, latest,
                   disorder, pendingBook, flushers, raced, leaked, owed, jumped>>

\* The newest book waits for the flush task, which is created when none has begun.
OrderBook ==
    /\ published["depth"] < MaxBooks
    /\ published' = [published EXCEPT !["depth"] = @ + 1]
    /\ IF connections = <<>>
       THEN UNCHANGED <<pendingBook, flushers>>
       ELSE /\ pendingBook' = published'["depth"]
            /\ flushers.begun = 0 => flushers.created < MaxFlushers
            /\ flushers' = IF flushers.begun = 0 THEN [flushers EXCEPT !.created = @ + 1] ELSE flushers
    /\ UNCHANGED <<endpoint, alive, full, connections, channel, ipCount, ipRead, created, casts,
                   latest, disorder, raced, leaked, owed, jumped>>

FlusherBegins ==
    /\ flushers.begun < flushers.created
    /\ flushers' = [flushers EXCEPT !.begun = @ + 1]
    /\ UNCHANGED <<endpoint, alive, full, connections, channel, ipCount, ipRead, created, casts,
                   latest, disorder, published, pendingBook, raced, leaked, owed, jumped>>

\* A flush task wakes up.
Flush ==
    /\ flushers.begun > 0 /\ pendingBook # 0
    /\ pendingBook' = 0
    /\ created' = IF connections = <<>> THEN created
                ELSE Append(created, [kind |-> "depth", number |-> pendingBook])
    /\ UNCHANGED <<endpoint, alive, full, connections, channel, ipCount, ipRead, casts, latest,
                   disorder, published, flushers, raced, leaked, owed, jumped>>

-------------------------------------------------------------------------------

GatewayNext ==
    \/ \E b \in Browsers :
          \/ BeginAccept(b) \/ FinishAccept(b) \/ EndpointEnds(b) \/ Refuse(b)
          \/ JoinChannel(b) \/ LeaveChannel(b)
          \/ BufferFills(b) \/ BufferDrains(b) \/ SocketDies(b)
          \/ ResumeCast(b)
    \/ BeginCast
    \/ Ticker \/ OrderBook \/ FlusherBegins \/ Flush

GatewaySpec == GatewayInit /\ [][GatewayNext]_gatewayVars

-------------------------------------------------------------------------------
(* Properties *)

\* Whoever stays subscribed gets every event whose broadcast began meanwhile, or
\* that broadcast still goes on: slow clients, clients that die and are dropped,
\* and clients that come and go neither hide a client from it nor end it early.
\* Each kind of event comes in its order and once, as long as nobody on whom a
\* broadcast waits leaves: then later ones overtake it.
BroadcastsReachSubscribers ==
    /\ \A b \in channel \cap alive \cap Keys :
          owed[b] \subseteq {casts[i].event : i \in DOMAIN casts}
    /\ ~ jumped => ~ disorder

\* The count of an IP is the number of its connections, however endpoints and
\* broadcasts both drop a client, unless a connect or a disconnect met another's
\* accept; every entry has its endpoint, unless a refusal raised.
CountsMatchConnections ==
    /\ ~ raced => ipCount = Len(connections)
    /\ \A b \in Keys : endpoint[b] \in {"open", "refusing"} \/ b \in leaked

=============================================================================
