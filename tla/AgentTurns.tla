----------------------------- MODULE AgentTurns -----------------------------
(***************************************************************************)
(* Turns of the chat with the agent, as the endpoint /agent/chat streams   *)
(* them: the table _active_turns, one producer task per turn, the queue    *)
(* through which it feeds a connection, and the resumption of a turn whose *)
(* connection was lost.                                                    *)
(*                                                                         *)
(* An event is its position in its turn; the last one is the event DONE.   *)
(* Every connection serves one request.  Left out: the input guard and the *)
(* text filter, which change what an event says; the database; and what a  *)
(* turn does to the runtime it shares with others, its context and, in     *)
(* smart mode, its model.                                                  *)
(***************************************************************************)
EXTENDS Naturals, Sequences, SequencesExt, FiniteSetsExt, SeqWithout

CONSTANTS
    Sessions,
    Connections,    \* requests of clients, numbered as they are made
    MaxTurns,       \* bound: turns started in a behaviour
    MaxEvents       \* bound: events of a turn

ASSUME TurnsAssumption ==
    /\ Connections \subseteq Nat /\ IsFiniteSet(Connections)
    /\ MaxTurns \in Nat /\ MaxEvents \in Nat \ {0}

VARIABLES
    activeTurn,    \* _active_turns: the turn of a session
    turns,         \* turns[t]: the TurnState
    turnQueues,    \* turnQueues[q]: the queue objects
    streams        \* streams[c]: the generator that answers connection c; what it
                   \* yielded, and of that, once the client is gone, what reached
                   \* it (`yielded`) and what was lost (`lost`)

turnsVars == <<activeTurn, turns, turnQueues, streams>>

Turns == 1..MaxTurns
NoTurn == 0
\* A turn has a queue of its own, and a new one for each resumption.
Queues == 1..(MaxTurns + Cardinality(Connections))
NoQueue == 0
EndMark == 0                       \* the None that ends a stream
TurnEvents == 1..MaxEvents

\* The producer task: "created" before its first step; "cancelled" before or
\* after it; "over".
Tasks == {"none", "created", "running", "cancelling", "neverRan", "over"}
StreamStates == {"away", "replaying", "live", "whole", "ended", "gone"}

TurnsTypeOK ==
    /\ activeTurn \in [Sessions -> Turns \cup {NoTurn}]
    /\ turns \in [Turns -> [status: {"unused", "running", "over"}, task: Tasks,
                            produced: 0..MaxEvents, collected: Seq(TurnEvents), cursor: Nat,
                            queue: Queues \cup {NoQueue}, shared: BOOLEAN, cut: BOOLEAN]]
    /\ turnQueues \in [Queues -> Seq(TurnEvents \cup {EndMark})]
    /\ streams \in [Connections -> [state: StreamStates, turn: Turns \cup {NoTurn}, at: Nat, rest: Seq(TurnEvents),
                                    queue: Queues \cup {NoQueue}, yielded: Seq(TurnEvents),
                                    lost: SUBSET TurnEvents]]

UnusedTurn == [status |-> "unused", task |-> "none", produced |-> 0, collected |-> <<>>, cursor |-> 0,
               queue |-> NoQueue, shared |-> FALSE, cut |-> FALSE]

TurnsInit ==
    /\ activeTurn = [s \in Sessions |-> NoTurn]
    /\ turns = [t \in Turns |-> UnusedTurn]
    /\ turnQueues = [q \in Queues |-> <<>>]
    /\ streams = [c \in Connections |->
                    [state |-> "away", turn |-> NoTurn, at |-> 0, rest |-> <<>>, queue |-> NoQueue,
                     yielded |-> <<>>, lost |-> {}]]

-------------------------------------------------------------------------------
(* Helpers *)

OpenStreams(t) == {c \in Connections : streams[c].turn = t /\ streams[c].state \in {"replaying", "live"}}

FreshQueue(q) ==
    q = 1 + Max({NoQueue} \cup {turns[t].queue : t \in Turns} \cup {streams[c].queue : c \in Connections})

\* Turns that ended longer ago than the TTL are forgotten: any of those ended.
Forgotten(stale) ==
    [s \in Sessions |-> IF activeTurn[s] \in stale THEN NoTurn ELSE activeTurn[s]]
EndedTurns == {t \in Turns : turns[t].status = "over"}

-------------------------------------------------------------------------------
(* _agent_stream *)

\* A new turn replaces the one of its session, whose producer is cancelled.  A
\* task that has not taken its first step never will.
StartTurn(s, c, stale) ==
    LET t   == 1 + Max({NoTurn} \cup {u \in Turns : turns[u].status # "unused"})
        old == Forgotten(stale)[s]
    IN  /\ t \in Turns
        /\ \E q \in Queues :
              /\ FreshQueue(q)
              /\ turns' = [u \in Turns |->
                    IF u = t THEN [UnusedTurn EXCEPT !.status = "running", !.task = "created", !.queue = q]
                    ELSE IF u = old /\ turns[u].task = "created" THEN [turns[u] EXCEPT !.task = "neverRan"]
                    ELSE IF u = old /\ turns[u].task = "running" THEN [turns[u] EXCEPT !.task = "cancelling"]
                    ELSE turns[u]]
              /\ streams' = [streams EXCEPT ![c].state = "live", ![c].turn = t, ![c].queue = q]
        /\ activeTurn' = [Forgotten(stale) EXCEPT ![s] = t]
        /\ UNCHANGED turnQueues

ResumeUndrained(s, c, stale) ==
    LET t == Forgotten(stale)[s]
    IN  /\ t # NoTurn
        /\ turns[t].status = "running"
        /\ \E q \in Queues :
              /\ FreshQueue(q)
              /\ turns' = [turns EXCEPT ![t].queue = q, ![t].shared = @ \/ OpenStreams(t) # {}]
              /\ streams' = [streams EXCEPT ![c].state = "replaying", ![c].turn = t, ![c].queue = q,
                               ![c].at = turns[t].cursor,
                               ![c].rest = SubSeq(turns[t].collected, turns[t].cursor + 1, Len(turns[t].collected))]
        /\ turnQueues' = [turnQueues EXCEPT ![turns[t].queue] = <<>>]
        /\ activeTurn' = Forgotten(stale)

\* The turn runs: it gets a new queue, what the old one still held is collected
\* again, and the stream replays from the cursor of the last stream.
Resume(s, c, stale) ==
    LET t         == Forgotten(stale)[s]
        collected == turns[t].collected \o Without(turnQueues[turns[t].queue], {EndMark})
    IN  /\ t # NoTurn
        /\ turns[t].status = "running"
        /\ \E q \in Queues :
              /\ FreshQueue(q)
              /\ turns' = [turns EXCEPT ![t].queue = q, ![t].collected = collected,
                                        ![t].shared = @ \/ OpenStreams(t) # {}]
              /\ streams' = [streams EXCEPT ![c].state = "replaying", ![c].turn = t, ![c].queue = q,
                               ![c].at = turns[t].cursor,
                               ![c].rest = SubSeq(collected, turns[t].cursor + 1, Len(collected))]
        /\ turnQueues' = [turnQueues EXCEPT ![turns[t].queue] = <<>>]
        /\ activeTurn' = Forgotten(stale)

\* The turn is over: everything is replayed.
ReplayWhole(s, c, stale) ==
    LET t == Forgotten(stale)[s]
    IN  /\ t # NoTurn
        /\ turns[t].status # "running"
        /\ streams' = [streams EXCEPT ![c].state = "whole", ![c].turn = t, ![c].rest = turns[t].collected]
        /\ activeTurn' = Forgotten(stale)
        /\ UNCHANGED <<turns, turnQueues>>

\* POST /agent/chat; a resumption that finds no turn starts one.
Chat(s, c) ==
    /\ streams[c].state = "away"
    /\ \A d \in Connections : d < c => streams[d].state # "away"
    /\ \E stale \in SUBSET EndedTurns :
          \/ StartTurn(s, c, stale)
          \/ Resume(s, c, stale)
          \/ ReplayWhole(s, c, stale)

-------------------------------------------------------------------------------
(* _produce_events *)

ProducerStarts(t) ==
    /\ turns[t].task = "created"
    /\ turns' = [turns EXCEPT ![t].task = "running"]
    /\ UNCHANGED <<activeTurn, turnQueues, streams>>

Put(t, items) == turnQueues' = [turnQueues EXCEPT ![turns[t].queue] = @ \o items]

Produce(t) ==
    /\ turns[t].task = "running"
    /\ turns[t].produced + 1 < MaxEvents
    /\ turns' = [turns EXCEPT ![t].produced = @ + 1, ![t].collected = Append(@, turns[t].produced + 1)]
    /\ Put(t, <<turns[t].produced + 1>>)
    /\ UNCHANGED <<activeTurn, streams>>

\* DONE, of process_message or made of its exception, is followed by the mark
\* in the same step.  The status, "completed" or "failed", is "over": nothing tells
\* the two apart.
Finish(t) ==
    /\ turns[t].task = "running"
    /\ turns' = [turns EXCEPT ![t].produced = @ + 1, ![t].collected = Append(@, turns[t].produced + 1),
                              ![t].status = "over", ![t].task = "over"]
    /\ Put(t, <<turns[t].produced + 1, EndMark>>)
    /\ UNCHANGED <<activeTurn, streams>>

CancelLandsSilently(t) ==
    /\ turns[t].task = "cancelling"
    /\ turns' = [turns EXCEPT ![t].task = "over"]
    /\ UNCHANGED <<activeTurn, turnQueues, streams>>

\* CancelledError: no event DONE, the status stays "running", the mark is put.
CancelLands(t) ==
    /\ turns[t].task = "cancelling"
    /\ turns' = [turns EXCEPT ![t].task = "over"]
    /\ Put(t, <<EndMark>>)
    /\ UNCHANGED <<activeTurn, streams>>

-------------------------------------------------------------------------------
(* _consume_turn_stream *)

\* The next event of the replay, which was sliced off when it began.
ReplayNext(c) ==
    LET t == streams[c].turn
    IN  /\ streams[c].state = "replaying"
        /\ streams[c].rest # <<>>
        /\ turns' = [turns EXCEPT ![t].cursor = Max({@, streams[c].at + 1})]
        /\ streams' = [streams EXCEPT ![c].at = @ + 1, ![c].rest = Tail(@),
                                      ![c].yielded = Append(@, Head(streams[c].rest))]
        /\ UNCHANGED <<activeTurn, turnQueues>>

\* The replay is over: events put meanwhile are in the queue, and are dropped
\* if the turn has ended meanwhile.
EndReplay(c) ==
    LET t == streams[c].turn
    IN  /\ streams[c].state = "replaying"
        /\ streams[c].rest = <<>>
        /\ turns' = [turns EXCEPT ![t].cursor = Len(turns[t].collected),
                                  ![t].cut = @ \/ turns[t].status # "running"]
        /\ streams' = [streams EXCEPT ![c].state = IF turns[t].status = "running" THEN "live" ELSE "ended",
                                      ![c].queue = turns[t].queue]
        /\ UNCHANGED <<activeTurn, turnQueues>>

\* An item arrives at the queue the stream waits on; the next wait is on the
\* queue the turn has by then.
TakeItem(c) ==
    LET t == streams[c].turn
        q == streams[c].queue
    IN  /\ streams[c].state = "live"
        /\ turnQueues[q] # <<>>
        /\ turnQueues' = [turnQueues EXCEPT ![q] = Tail(@)]
        /\ IF Head(turnQueues[q]) = EndMark
           THEN /\ streams' = [streams EXCEPT ![c].state = "ended"]
                /\ UNCHANGED turns
           ELSE /\ streams' = [streams EXCEPT ![c].yielded = Append(@, Head(turnQueues[q])),
                                              ![c].queue = turns[t].queue]
                /\ turns' = [turns EXCEPT ![t].cursor = Len(turns[t].collected)]
        /\ UNCHANGED <<activeTurn>>

\* Nothing came for the interval: a heartbeat, and a wait on the queue of now.
Heartbeat(c) ==
    /\ streams[c].state = "live"
    /\ turnQueues[streams[c].queue] = <<>>
    /\ streams' = [streams EXCEPT ![c].queue = turns[streams[c].turn].queue]
    /\ UNCHANGED <<activeTurn, turns, turnQueues>>

\* The replay of a turn that is over, which moves no cursor.
ReplayAll(c) ==
    /\ streams[c].state = "whole"
    /\ streams' = [streams EXCEPT ![c].state = "ended", ![c].rest = <<>>, ![c].yielded = streams[c].rest]
    /\ UNCHANGED <<activeTurn, turns, turnQueues>>

\* The client is gone, which the server notices late: any of the last events the
\* stream yielded may never have reached it, though the cursor has passed them.
\* The producer does not notice.  Whether the client of a stream that has ended got
\* its last events is left open: no cursor counts them any more.
Disconnect(c) ==
    /\ streams[c].state \in {"replaying", "live", "whole"}
    /\ LET yielded == streams[c].yielded
       IN  \E n \in 0..Len(yielded) :
              streams' = [streams EXCEPT ![c].state = "gone", ![c].rest = <<>>,
                                         ![c].yielded = SubSeq(yielded, 1, n),
                                         ![c].lost = ToSet(SubSeq(yielded, n + 1, Len(yielded)))]
    /\ UNCHANGED <<activeTurn, turns, turnQueues>>

-------------------------------------------------------------------------------

TurnsNext ==
    \/ \E c \in Connections :
          \/ \E s \in Sessions : Chat(s, c)
          \/ ReplayNext(c) \/ EndReplay(c) \/ TakeItem(c) \/ Heartbeat(c) \/ ReplayAll(c) \/ Disconnect(c)
    \/ \E t \in Turns :
          ProducerStarts(t) \/ Produce(t) \/ CancelLands(t) \/ Finish(t)

TurnsSpec == TurnsInit /\ [][TurnsNext]_turnsVars

-------------------------------------------------------------------------------
(* Properties *)

\* Where an event of turn t is on its way to a client, or has reached one.
Within(e, t) ==
    \/ \E c \in Connections : streams[c].turn = t /\ e \in ToSet(streams[c].yielded) \cup ToSet(streams[c].rest)
    \/ e \in ToSet(turnQueues[turns[t].queue])
    \/ e \in ToSet(SubSeq(turns[t].collected, turns[t].cursor + 1, Len(turns[t].collected)))

\* Event e of turn t was yielded to a client that was gone.
LostOnTheWay(e, t) == \E c \in Connections : streams[c].turn = t /\ e \in streams[c].lost

\* What a client misses of the running turn of its session, whose stream may break
\* as often as it likes, also in the middle of a replay and at whatever moment
\* between the cursor and the queue, is only what was yielded to it when it was
\* gone, which the next resumption skips: every other event has reached a client,
\* or comes with this stream or the next resumption.  Not so once two streams share
\* a turn, as when the client comes back before the server has noticed that it went.
OnlyInFlightIsMissed ==
    \A s \in Sessions :
        LET t == activeTurn[s]
        IN  t # NoTurn /\ turns[t].status = "running" /\ ~ turns[t].shared =>
                \A e \in 1..turns[t].produced : Within(e, t) \/ LostOnTheWay(e, t)

\* No stream is left to heartbeats for ever: whoever still listens to a turn
\* whose producer has stopped, cancelled by the next question or not, has the
\* end mark ahead.  Not so once two streams share a turn, which has one mark, or
\* if the producer was cancelled before its first step.
ListenersHearTheEnd ==
    \A c \in Connections :
        LET t == streams[c].turn
        IN  streams[c].state = "live" /\ turns[t].task = "over" /\ ~ turns[t].shared
                => EndMark \in ToSet(turnQueues[turns[t].queue])

=============================================================================
