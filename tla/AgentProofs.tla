---------------------------- MODULE AgentProofs ----------------------------
(***************************************************************************)
(* Theorems of the chat with the agent, its turns and the streams that     *)
(* deliver them, of the conversation the language model is sent, and of    *)
(* the live execution engine: each for all values of its constants.  They  *)
(* share no state; each section begins with the argument.                  *)
(***************************************************************************)
EXTENDS AgentTurns, ReactLoop, LiveEngine, DataFacts

-------------------------------------------------------------------------------
(***************************************************************************)
(* The chat with the agent, for any sessions and requests and turns of any *)
(* length.                                                                 *)
(*                                                                         *)
(* `Tended` says of one turn, as long as no two streams shared it, that    *)
(* its stream waits on its queue, that the end mark comes when nobody      *)
(* feeds that queue any more, and where its events are: the stream's slice *)
(* begins at the cursor, and what was collected beyond the slice is in the *)
(* queue.  No other turn and no stream of one touches its queue            *)
(* (`QueuesPlaced`), and only a turn that is still fed is resumed          *)
(* (`SessionsPlaced`).                                                     *)
(***************************************************************************)

OpenOf(t, str) == {c \in Connections : str[c].turn = t /\ str[c].state \in {"replaying", "live"}}

\* Turn t, in state r and with the items `que` in its queue, has one stream at
\* most, which waits on that queue ...
OneListener(t, r, str) ==
    \A c, d \in OpenOf(t, str) : c = d /\ str[c].queue = r.queue

\* ... and hears its end.
EndComes(t, r, que, str) ==
    r.task = "over" /\ OpenOf(t, str) # {} => EndMark \in ToSet(que)

\* What a stream yielded, whether it reached the client or not.
Given(w) == ToSet(w.yielded) \cup w.lost

\* Event e was yielded, or will be from a slice, from the queue or after the cursor.
Has(e, t, r, que, str) ==
    \/ \E c \in Connections : str[c].turn = t /\ e \in Given(str[c]) \cup ToSet(str[c].rest)
    \/ e \in ToSet(que)
    \/ \E p \in DOMAIN r.collected : r.cursor < p /\ r.collected[p] = e

\* The slice of stream c is what comes next, and the queue has the rest.
Sliced(c, r, que, str) ==
    /\ str[c].state = "replaying" => str[c].at = r.cursor
    /\ r.cursor + Len(str[c].rest) <= Len(r.collected)
    /\ \A i \in DOMAIN str[c].rest : str[c].rest[i] = r.collected[r.cursor + i]
    /\ \A p \in DOMAIN r.collected : r.cursor + Len(str[c].rest) < p => r.collected[p] \in ToSet(que)

EventsKept(t, r, que, str) ==
    /\ r.cursor <= Len(r.collected)
    /\ \A c \in OpenOf(t, str) : Sliced(c, r, que, str)
    /\ \A e \in 1..r.produced : Has(e, t, r, que, str)

Tended(t, r, que, str) ==
    ~ r.shared => /\ OneListener(t, r, str) /\ EndComes(t, r, que, str)
                  /\ r.status = "running" => EventsKept(t, r, que, str)

AllTended == \A t \in Turns : Tended(t, turns[t], turnQueues[turns[t].queue], streams)

StreamsPlaced ==
    \A c \in Connections :
        /\ streams[c].state = "away" => /\ streams[c].turn = NoTurn /\ streams[c].queue = NoQueue
                                        /\ Given(streams[c]) = {}
        /\ streams[c].state # "away" => streams[c].turn \in Turns /\ turns[streams[c].turn].status # "unused"
        /\ streams[c].state \in {"replaying", "live"} => streams[c].queue # NoQueue
        /\ streams[c].rest # <<>> => streams[c].state \in {"replaying", "whole"}
        /\ streams[c].state # "gone" => streams[c].lost = {}
        /\ streams[c].state = "whole" =>
              Given(streams[c]) = {} /\ turns[streams[c].turn].status = "over"

TurnPlaced(r) ==
    /\ r.status = "unused" => r.task = "none"
    /\ r.status # "unused" => r.queue # NoQueue /\ r.task # "none"
    /\ r.status = "over" => r.task = "over"
    /\ r.task # "over" => r.produced < MaxEvents
TurnsPlaced == \A t \in Turns : TurnPlaced(turns[t])

\* The turn of a session is no other's, and is fed unless it has ended.
SessionsPlaced ==
    /\ \A s \in Sessions : activeTurn[s] # NoTurn =>
          /\ turns[activeTurn[s]].status # "unused"
          /\ turns[activeTurn[s]].status = "running" => turns[activeTurn[s]].task \in {"created", "running"}
    /\ \A s, u \in Sessions : s # u /\ activeTurn[s] # NoTurn => activeTurn[u] # activeTurn[s]

QueuesPlaced ==
    /\ \A t, u \in Turns : t # u /\ turns[t].queue # NoQueue => turns[u].queue # turns[t].queue
    /\ \A c \in Connections, t \in Turns :
          turns[t].queue # NoQueue /\ streams[c].queue = turns[t].queue => streams[c].turn = t
    /\ \A q \in Queues : (\A t \in Turns : turns[t].queue < q) => turnQueues[q] = <<>>

TurnsInv ==
    /\ TurnsTypeOK /\ StreamsPlaced /\ TurnsPlaced /\ SessionsPlaced /\ QueuesPlaced /\ AllTended

-------------------------------------------------------------------------------
(* What a step leaves alone *)

\* A turn does not notice the streams of others.
LEMMA OthersUnnoticed ==
    ASSUME NEW t, NEW str, NEW now,
           \A c \in Connections : str[c].turn = t \/ now[c].turn = t => now[c] = str[c]
    PROVE  /\ OpenOf(t, now) = OpenOf(t, str)
           /\ \A r, que : Tended(t, r, que, str) => Tended(t, r, que, now)
<1>1. OpenOf(t, now) = OpenOf(t, str) BY DEF OpenOf
<1>2. \A c \in OpenOf(t, str) : now[c] = str[c] BY DEF OpenOf
<1> SUFFICES ASSUME NEW r, NEW que, Tended(t, r, que, str) PROVE Tended(t, r, que, now)
  BY <1>1
<1>3. OneListener(t, r, str) => OneListener(t, r, now) BY <1>1, <1>2 DEF OneListener
<1>4. EndComes(t, r, que, str) => EndComes(t, r, que, now) BY <1>1 DEF EndComes
<1>5. \A e : Has(e, t, r, que, str) => Has(e, t, r, que, now)
  <2> SUFFICES ASSUME NEW e, Has(e, t, r, que, str) PROVE Has(e, t, r, que, now)
    OBVIOUS
  <2>1. CASE \E c \in Connections : str[c].turn = t /\ e \in Given(str[c]) \cup ToSet(str[c].rest)
    <3>1. PICK c \in Connections : str[c].turn = t /\ e \in Given(str[c]) \cup ToSet(str[c].rest) BY <2>1
    <3>2. now[c] = str[c] BY <3>1
    <3> QED BY <3>1, <3>2 DEF Has
  <2> QED BY <2>1 DEF Has
<1>6. \A c \in OpenOf(t, str) : Sliced(c, r, que, str) => Sliced(c, r, que, now)
  BY <1>2 DEF Sliced
<1>7. EventsKept(t, r, que, str) => EventsKept(t, r, que, now)
  BY <1>1, <1>5, <1>6 DEF EventsKept
<1> QED BY <1>3, <1>4, <1>7 DEF Tended

\* Nor does it matter what its task does, short of its end, or what else comes
\* into its queue.
LEMMA StaysTended ==
    ASSUME NEW t, NEW str, NEW r, NEW s, NEW que, NEW more, Tended(t, r, que, str),
           s.collected = r.collected, s.cursor = r.cursor, s.produced = r.produced, s.queue = r.queue,
           s.shared = r.shared, s.status = r.status,
           ToSet(que) \subseteq ToSet(more),
           s.task = "over" => r.task = "over" \/ EndMark \in ToSet(more)
    PROVE  Tended(t, s, more, str)
<1>1. OneListener(t, r, str) => OneListener(t, s, str) BY DEF OneListener
<1>2. EndComes(t, r, que, str) => EndComes(t, s, more, str) BY DEF EndComes
<1>3. \A e : Has(e, t, r, que, str) => Has(e, t, s, more, str) BY DEF Has
<1>4. \A c : Sliced(c, r, que, str) => Sliced(c, s, more, str) BY DEF Sliced
<1>5. EventsKept(t, r, que, str) => EventsKept(t, s, more, str) BY <1>3, <1>4 DEF EventsKept
<1> QED BY <1>1, <1>2, <1>5 DEF Tended

\* A turn that is not in use has no stream.
LEMMA UnusedTended ==
    ASSUME StreamsPlaced, NEW t \in Turns, turns[t].status = "unused", NEW que
    PROVE  OpenStreams(t) = {} /\ OpenOf(t, streams) = {} /\ Tended(t, turns[t], que, streams)
<1>1. OpenStreams(t) = {} /\ OpenOf(t, streams) = {}
  <2>1. \A c \in Connections : streams[c].state \in {"replaying", "live"} => streams[c].turn # t BY DEF StreamsPlaced
  <2> QED BY <2>1 DEF OpenStreams, OpenOf
<1> QED BY <1>1 DEF Tended, OneListener, EndComes

\* What a step does to one turn and its streams leaves the others tended.
LEMMA OthersTended ==
    ASSUME TurnsInv, NEW t \in Turns,
           \A u \in Turns \ {t} : turns'[u] = turns[u],
           \A u \in Turns \ {t} : turns[u].queue # NoQueue => turnQueues'[turns[u].queue] = turnQueues[turns[u].queue],
           \A c \in Connections : \/ streams'[c] = streams[c]
                                  \/ streams[c].turn \in {t, NoTurn} /\ streams'[c].turn = t
    PROVE  \A u \in Turns \ {t} : Tended(u, turns'[u], turnQueues'[turns'[u].queue], streams')
<1> SUFFICES ASSUME NEW u \in Turns \ {t}
             PROVE  Tended(u, turns'[u], turnQueues'[turns'[u].queue], streams')
  OBVIOUS
<1>1. turns'[u] = turns[u] /\ u # NoTurn BY TurnsAssumption DEF Turns, NoTurn
<1>2. \A c \in Connections : streams[c].turn = u \/ streams'[c].turn = u => streams'[c] = streams[c] BY <1>1
<1>3. Tended(u, turns[u], turnQueues'[turns[u].queue], streams)
  <2>1. CASE turns[u].queue = NoQueue
    <3>1. turns[u].status = "unused" BY <2>1 DEF TurnsInv, TurnsPlaced, TurnPlaced
    <3> QED BY <3>1, UnusedTended DEF TurnsInv
  <2>2. CASE turns[u].queue # NoQueue
    <3>1. turnQueues'[turns[u].queue] = turnQueues[turns[u].queue] BY <2>2
    <3> QED BY <3>1 DEF TurnsInv, AllTended
  <2> QED BY <2>1, <2>2
<1> QED BY <1>1, <1>2, <1>3, OthersUnnoticed

TurnState == [status: {"unused", "running", "over"}, task: Tasks,
              produced: 0..MaxEvents, collected: Seq(TurnEvents), cursor: Nat,
              queue: Queues \cup {NoQueue}, shared: BOOLEAN, cut: BOOLEAN]
Items == TurnEvents \cup {EndMark}
StreamState == [state: StreamStates, turn: Turns \cup {NoTurn}, at: Nat, rest: Seq(TurnEvents),
                queue: Queues \cup {NoQueue}, yielded: Seq(TurnEvents), lost: SUBSET TurnEvents]

LEMMA TurnsTyped ==
    /\ TurnsTypeOK <=> /\ activeTurn \in [Sessions -> Turns \cup {NoTurn}] /\ turns \in [Turns -> TurnState]
                       /\ turnQueues \in [Queues -> Seq(Items)] /\ streams \in [Connections -> StreamState]
    /\ TurnsTypeOK' <=> /\ activeTurn' \in [Sessions -> Turns \cup {NoTurn}] /\ turns' \in [Turns -> TurnState]
                        /\ turnQueues' \in [Queues -> Seq(Items)] /\ streams' \in [Connections -> StreamState]
  BY DEF TurnsTypeOK, TurnState, Items, StreamState

\* TurnNumbers of turns, queues, events and marks.
LEMMA TurnNumbers ==
    /\ NoTurn \notin Turns /\ NoQueue \notin Queues /\ EndMark \notin TurnEvents
    /\ Turns \subseteq Nat /\ Queues \subseteq Nat /\ TurnEvents \subseteq Nat /\ MaxEvents \in Nat /\ MaxEvents > 0
    /\ Turns \subseteq 0..MaxTurns /\ MaxTurns \in Nat
    /\ Queues \subseteq 0..(MaxTurns + Cardinality(Connections)) /\ MaxTurns + Cardinality(Connections) \in Nat
<1>1. Cardinality(Connections) \in Nat BY TurnsAssumption, FS_CardinalityType
<1> QED BY <1>1, TurnsAssumption DEF Turns, NoTurn, Queues, NoQueue, TurnEvents, EndMark

-------------------------------------------------------------------------------
(* The producer *)

\* Turn t gets to state r and its queue to que.
LEMMA ProducerKeeps ==
    ASSUME TurnsInv, NEW t \in Turns, NEW r \in TurnState, NEW que \in Seq(Items),
           turns[t].status # "unused", turns' = [turns EXCEPT ![t] = r],
           turnQueues' = [turnQueues EXCEPT ![turns[t].queue] = que],
           UNCHANGED <<activeTurn, streams>>,
           r.queue = turns[t].queue, TurnPlaced(r),
           \/ r.status = turns[t].status /\ (turns[t].task \in {"created", "running"} => r.task \in {"created", "running"})
           \/ r.status = "over",
           Tended(t, r, que, streams)
    PROVE  TurnsInv'
<1>1. TurnsTypeOK /\ StreamsPlaced /\ TurnsPlaced /\ SessionsPlaced /\ QueuesPlaced BY DEF TurnsInv
<1>2. /\ activeTurn \in [Sessions -> Turns \cup {NoTurn}] /\ turns \in [Turns -> TurnState]
      /\ turnQueues \in [Queues -> Seq(Items)] /\ streams \in [Connections -> StreamState]
  BY <1>1, TurnsTyped
<1>3. /\ turns' \in [Turns -> TurnState] /\ turns'[t] = r /\ \A u \in Turns \ {t} : turns'[u] = turns[u]
  BY <1>2
<1>4. turns[t].queue \in Queues
  <2>1. turns[t] \in TurnState BY <1>2
  <2>2. turns[t].queue # NoQueue BY <1>1 DEF TurnsPlaced, TurnPlaced
  <2> QED BY <2>1, <2>2 DEF TurnState
<1>5. /\ turnQueues' \in [Queues -> Seq(Items)] /\ turnQueues'[turns[t].queue] = que
      /\ \A q \in Queues : q # turns[t].queue => turnQueues'[q] = turnQueues[q]
  BY <1>2, <1>4
<1>6. \A u \in Turns : turns'[u].queue = turns[u].queue BY <1>3
<1>7. TurnsTypeOK' BY <1>2, <1>3, <1>5, TurnsTyped
<1>8. \A u \in Turns : /\ turns'[u].status = "unused" <=> turns[u].status = "unused"
                       /\ turns[u].status = "over" => turns'[u].status = "over"
  <2>1. r.status # "unused" /\ (turns[t].status = "over" => r.status = "over")
    OBVIOUS
  <2> QED BY <2>1, <1>3
<1>9. StreamsPlaced'
  <2> SUFFICES ASSUME NEW c \in Connections
               PROVE  /\ streams[c].state # "away" => streams[c].turn \in Turns /\ turns'[streams[c].turn].status # "unused"
                      /\ streams[c].state = "whole" => turns'[streams[c].turn].status = "over"
    BY <1>1 DEF StreamsPlaced
  <2>1. streams[c].state # "away" => streams[c].turn \in Turns /\ turns'[streams[c].turn].status # "unused"
    BY <1>1, <1>8 DEF StreamsPlaced
  <2>2. streams[c].state = "whole" => streams[c].state # "away" /\ turns[streams[c].turn].status = "over"
    BY <1>1 DEF StreamsPlaced
  <2> QED BY <2>1, <2>2, <1>8
<1>10. TurnsPlaced' BY <1>1, <1>3 DEF TurnsPlaced
<1>11. SessionsPlaced'
  <2>1. \A u \in Turns : turns[u].status # "unused" /\ (turns[u].status = "running" => turns[u].task \in {"created", "running"})
                           => turns'[u].status # "unused" /\ (turns'[u].status = "running" => turns'[u].task \in {"created", "running"})
    BY <1>3
  <2>2. \A s \in Sessions : activeTurn[s] # NoTurn => activeTurn[s] \in Turns BY <1>2
  <2> QED BY <2>1, <2>2, <1>1 DEF SessionsPlaced
<1>12. QueuesPlaced'
  <2>1. \A q \in Queues : (\A u \in Turns : turns[u].queue < q) => turnQueues'[q] = <<>>
    <3> SUFFICES ASSUME NEW q \in Queues, \A u \in Turns : turns[u].queue < q PROVE turnQueues'[q] = <<>>
      OBVIOUS
    <3>1. turns[t].queue < q /\ turns[t].queue \in Nat BY <1>4, TurnNumbers
    <3>2. q # turns[t].queue BY <3>1
    <3> QED BY <3>2, <1>1, <1>5 DEF QueuesPlaced
  <2> QED BY <2>1, <1>1, <1>6 DEF QueuesPlaced
<1>13. AllTended'
  <2>1. \A u \in Turns \ {t} : turns[u].queue # NoQueue => turnQueues'[turns[u].queue] = turnQueues[turns[u].queue]
    <3> SUFFICES ASSUME NEW u \in Turns \ {t}, turns[u].queue # NoQueue
                 PROVE  turnQueues'[turns[u].queue] = turnQueues[turns[u].queue]
      OBVIOUS
    <3>1. turns[u] \in TurnState BY <1>2
    <3>2. turns[u].queue \in Queues BY <3>1 DEF TurnState
    <3>3. turns[u].queue # turns[t].queue BY <1>1 DEF QueuesPlaced
    <3> QED BY <3>2, <3>3, <1>5
  <2>2. \A u \in Turns \ {t} : Tended(u, turns'[u], turnQueues'[turns'[u].queue], streams')
    BY <2>1, <1>3, OthersTended
  <2>3. Tended(t, turns'[t], turnQueues'[turns'[t].queue], streams') BY <1>3, <1>5
  <2> QED BY <2>2, <2>3 DEF AllTended
<1> QED BY <1>7, <1>9, <1>10, <1>11, <1>12, <1>13 DEF TurnsInv

\* A turn that has a task.
LEMMA InUse ==
    ASSUME TurnsInv, NEW t \in Turns, turns[t].task \in {"created", "running", "cancelling"}
    PROVE  /\ turns[t] \in TurnState /\ turns[t].status = "running" /\ turns[t].queue \in Queues
           /\ turns[t].produced < MaxEvents /\ turnQueues[turns[t].queue] \in Seq(Items)
           /\ TurnPlaced(turns[t])
           /\ Tended(t, turns[t], turnQueues[turns[t].queue], streams)
           /\ turnQueues = [turnQueues EXCEPT ![turns[t].queue] = turnQueues[turns[t].queue]]
<1>1. turns[t] \in TurnState /\ turnQueues \in [Queues -> Seq(Items)] BY TurnsTyped DEF TurnsInv
<1>2. TurnPlaced(turns[t]) BY DEF TurnsInv, TurnsPlaced
<1>3. turns[t].status = "running" /\ turns[t].queue \in Queues /\ turns[t].produced < MaxEvents
  BY <1>1, <1>2 DEF TurnPlaced, TurnState
<1> QED BY <1>1, <1>2, <1>3 DEF TurnsInv, AllTended

LEMMA StartsKeeps ==
    ASSUME TurnsInv, NEW t \in Turns, ProducerStarts(t)
    PROVE  TurnsInv'
<1> DEFINE r == [turns[t] EXCEPT !.task = "running"]
           que == turnQueues[turns[t].queue]
<1>1. /\ turns[t].task = "created" /\ turns' = [turns EXCEPT ![t] = r]
      /\ UNCHANGED <<activeTurn, turnQueues, streams>>
  BY DEF ProducerStarts
<1>2. /\ turns[t] \in TurnState /\ turns[t].status = "running" /\ turns[t].queue \in Queues
      /\ turns[t].produced < MaxEvents /\ que \in Seq(Items)
      /\ Tended(t, turns[t], que, streams)
      /\ turnQueues = [turnQueues EXCEPT ![turns[t].queue] = que]
  BY <1>1, InUse
<1>3. /\ r \in TurnState /\ r.task = "running"
      /\ r.collected = turns[t].collected /\ r.cursor = turns[t].cursor /\ r.produced = turns[t].produced
      /\ r.queue = turns[t].queue /\ r.shared = turns[t].shared /\ r.status = turns[t].status
  BY <1>2 DEF TurnState, Tasks
<1> HIDE DEF r, que
<1>4. Tended(t, r, que, streams) BY <1>2, <1>3, StaysTended
<1>5. TurnPlaced(r)
  <2>1. r.queue # NoQueue BY <1>2, <1>3, TurnNumbers
  <2> QED BY <2>1, <1>2, <1>3 DEF TurnPlaced
<1>6. turnQueues' = [turnQueues EXCEPT ![turns[t].queue] = que] /\ UNCHANGED <<activeTurn, streams>> BY <1>1, <1>2
<1>7. turns[t].status # "unused" BY <1>2
<1> QED BY <1>1, <1>2, <1>3, <1>4, <1>5, <1>6, <1>7, ProducerKeeps

\* The task has put its events and is over, or was cancelled.
LEMMA CancelledKeeps ==
    ASSUME TurnsInv, NEW t \in Turns, CancelLands(t)
    PROVE  TurnsInv'
<1> DEFINE r == [turns[t] EXCEPT !.task = "over"]
           old == turnQueues[turns[t].queue]
           que == old \o <<EndMark>>
<1>1. /\ turns[t].task = "cancelling" /\ turns' = [turns EXCEPT ![t] = r]
      /\ turnQueues' = [turnQueues EXCEPT ![turns[t].queue] = que]
      /\ UNCHANGED <<activeTurn, streams>>
  BY DEF CancelLands, Put
<1>2. /\ turns[t] \in TurnState /\ turns[t].status = "running" /\ turns[t].queue \in Queues
      /\ old \in Seq(Items) /\ Tended(t, turns[t], old, streams)
  BY <1>1, InUse
<1>3. /\ r \in TurnState /\ r.task = "over"
      /\ r.collected = turns[t].collected /\ r.cursor = turns[t].cursor /\ r.produced = turns[t].produced
      /\ r.queue = turns[t].queue /\ r.shared = turns[t].shared /\ r.status = turns[t].status
  BY <1>2 DEF TurnState, Tasks
<1>4. que \in Seq(Items) /\ ToSet(old) \subseteq ToSet(que) /\ EndMark \in ToSet(que)
  <2>1. <<EndMark>> \in Seq(Items) /\ EndMark \in ToSet(<<EndMark>>)
    <3>1. EndMark \in Items BY DEF Items
    <3>2. 1 \in DOMAIN <<EndMark>> /\ <<EndMark>>[1] = EndMark OBVIOUS
    <3> QED BY <3>1, <3>2 DEF ToSet
  <2> HIDE DEF old
  <2> QED BY <2>1, <1>2, Joined
<1> HIDE DEF r, que, old
<1>5. Tended(t, r, que, streams) BY <1>2, <1>3, <1>4, StaysTended
<1>6. TurnPlaced(r)
  <2>1. r.queue # NoQueue BY <1>2, <1>3, TurnNumbers
  <2> QED BY <2>1, <1>2, <1>3 DEF TurnPlaced
<1>7. turns[t].status # "unused" /\ turns[t].task \notin {"created", "running"} BY <1>1, <1>2
<1> QED BY <1>1, <1>2, <1>3, <1>4, <1>5, <1>6, <1>7, ProducerKeeps

LEMMA ProduceKeeps ==
    ASSUME TurnsInv, NEW t \in Turns, Produce(t)
    PROVE  TurnsInv'
<1> DEFINE e == turns[t].produced + 1
           r == [turns[t] EXCEPT !.produced = e, !.collected = Append(turns[t].collected, e)]
           old == turnQueues[turns[t].queue]
           que == old \o <<e>>
<1>1. /\ turns[t].task = "running" /\ e < MaxEvents /\ turns' = [turns EXCEPT ![t] = r]
      /\ turnQueues' = [turnQueues EXCEPT ![turns[t].queue] = que]
      /\ UNCHANGED <<activeTurn, streams>>
  BY DEF Produce, Put
<1>2. /\ turns[t] \in TurnState /\ turns[t].status = "running" /\ turns[t].queue \in Queues
      /\ turns[t].produced < MaxEvents /\ old \in Seq(Items) /\ Tended(t, turns[t], old, streams)
  BY <1>1, InUse
<1>3. /\ turns[t].produced \in Nat /\ turns[t].collected \in Seq(TurnEvents) /\ turns[t].cursor \in Nat
      /\ turns[t].queue # NoQueue
  BY <1>2, TurnNumbers DEF TurnState
<1>4. e \in TurnEvents /\ e \in 0..MaxEvents /\ e \in Items /\ e = turns[t].produced + 1
  BY <1>1, <1>3, TurnNumbers DEF TurnEvents, Items
<1> HIDE DEF e
<1>5. /\ r \in TurnState /\ r.task = "running" /\ r.collected = Append(turns[t].collected, e)
      /\ r.cursor = turns[t].cursor /\ r.produced = e
      /\ r.queue = turns[t].queue /\ r.shared = turns[t].shared /\ r.status = "running"
  <2>1. Append(turns[t].collected, e) \in Seq(TurnEvents) BY <1>3, <1>4
  <2> QED BY <2>1, <1>1, <1>2, <1>4 DEF TurnState
<1>6. que \in Seq(Items) /\ ToSet(old) \subseteq ToSet(que) /\ e \in ToSet(que)
  <2>1. <<e>> \in Seq(Items) /\ e \in ToSet(<<e>>)
    <3>1. 1 \in DOMAIN <<e>> /\ <<e>>[1] = e OBVIOUS
    <3> QED BY <3>1, <1>4 DEF ToSet
  <2> HIDE DEF old
  <2> QED BY <2>1, <1>2, Joined
<1> DEFINE was == turns[t].collected
           now == r.collected
<1>7. /\ DOMAIN now = 1..(Len(was) + 1) /\ DOMAIN was = 1..Len(was) /\ Len(was) \in Nat
      /\ \A n \in 1..Len(was) : now[n] = was[n]
      /\ now[Len(was) + 1] = e /\ Len(now) = Len(was) + 1
  <2>1. now = Append(was, e) BY <1>5
  <2> HIDE DEF now
  <2> QED BY <2>1, <1>3, <1>4, AppendedMembers
<1> HIDE DEF r, que, old
<1>8. Tended(t, r, que, streams)
  <2> SUFFICES ASSUME ~ turns[t].shared
               PROVE  /\ OneListener(t, r, streams) /\ EndComes(t, r, que, streams)
                      /\ EventsKept(t, r, que, streams)
    BY <1>5 DEF Tended
  <2>1. OneListener(t, turns[t], streams) /\ EventsKept(t, turns[t], old, streams) BY <1>2 DEF Tended
  <2>2. OneListener(t, r, streams) /\ EndComes(t, r, que, streams) BY <2>1, <1>5 DEF OneListener, EndComes
  <2>3. turns[t].cursor <= Len(was) BY <2>1 DEF EventsKept
  <2>4. r.cursor <= Len(now) BY <2>3, <1>3, <1>5, <1>7
  <2>5. ASSUME NEW c \in OpenOf(t, streams) PROVE Sliced(c, r, que, streams)
    <3> DEFINE rest == streams[c].rest
               k == turns[t].cursor
    <3>1. /\ streams[c].state = "replaying" => streams[c].at = k
          /\ k + Len(rest) <= Len(was)
          /\ \A i \in DOMAIN rest : rest[i] = was[k + i]
          /\ \A p \in DOMAIN was : k + Len(rest) < p => was[p] \in ToSet(old)
      BY <2>1 DEF EventsKept, Sliced
    <3>2. rest \in Seq(TurnEvents)
      <4>1. streams[c] \in StreamState BY TurnsTyped DEF TurnsInv, OpenOf
      <4> QED BY <4>1 DEF StreamState
    <3>3. Len(rest) \in Nat /\ DOMAIN rest = 1..Len(rest) BY <3>2
    <3> HIDE DEF rest, was
    <3>4. k + Len(rest) <= Len(now) BY <3>1, <3>3, <1>3, <1>7
    <3>5. \A i \in DOMAIN rest : rest[i] = now[k + i]
      <4> SUFFICES ASSUME NEW i \in DOMAIN rest PROVE rest[i] = now[k + i]
        OBVIOUS
      <4>1. k + i \in 1..Len(was) BY <3>1, <3>3, <1>3, <1>7
      <4> QED BY <4>1, <3>1, <1>7
    <3>6. ASSUME NEW p \in DOMAIN now, k + Len(rest) < p PROVE now[p] \in ToSet(que)
      <4>1. p \in 1..Len(was) \/ p = Len(was) + 1 BY <1>7
      <4>2. CASE p \in 1..Len(was) BY <4>2, <3>1, <3>6, <1>6, <1>7
      <4>3. CASE p = Len(was) + 1 BY <4>3, <1>6, <1>7
      <4> QED BY <4>1, <4>2, <4>3
    <3> QED BY <3>1, <3>4, <3>5, <3>6, <1>5 DEF Sliced, rest
  <2>6. ASSUME NEW x \in 1..r.produced PROVE Has(x, t, r, que, streams)
    <3>1. CASE x = e BY <3>1, <1>6 DEF Has
    <3>2. CASE x # e
      <4>1. x \in 1..turns[t].produced BY <3>2, <1>3, <1>4, <1>5
      <4>2. Has(x, t, turns[t], old, streams) BY <4>1, <2>1 DEF EventsKept
      <4>3. ASSUME NEW p \in DOMAIN was, turns[t].cursor < p PROVE p \in DOMAIN now /\ now[p] = was[p]
        BY <1>7
      <4> QED BY <4>2, <4>3, <1>5, <1>6 DEF Has
    <3> QED BY <3>1, <3>2
  <2> QED BY <2>2, <2>4, <2>5, <2>6 DEF EventsKept
<1>9. TurnPlaced(r) BY <1>1, <1>3, <1>5 DEF TurnPlaced
<1>10. turns[t].status # "unused" /\ r.status = turns[t].status BY <1>2, <1>5
<1> HIDE DEF was, now
<1> QED BY <1>1, <1>5, <1>6, <1>8, <1>9, <1>10, ProducerKeeps

LEMMA FinishKeeps ==
    ASSUME TurnsInv, NEW t \in Turns, Finish(t)
    PROVE  TurnsInv'
<1> DEFINE e == turns[t].produced + 1
           r == [turns[t] EXCEPT !.produced = e, !.collected = Append(turns[t].collected, e),
                                 !.status = "over", !.task = "over"]
           old == turnQueues[turns[t].queue]
           que == old \o <<e, EndMark>>
<1>1. /\ turns[t].task = "running" /\ turns' = [turns EXCEPT ![t] = r]
      /\ turnQueues' = [turnQueues EXCEPT ![turns[t].queue] = que]
      /\ UNCHANGED <<activeTurn, streams>>
  BY DEF Finish, Put
<1>2. /\ turns[t] \in TurnState /\ turns[t].status = "running" /\ turns[t].queue \in Queues
      /\ turns[t].produced < MaxEvents /\ old \in Seq(Items) /\ Tended(t, turns[t], old, streams)
  BY <1>1, InUse
<1>3. /\ turns[t].produced \in Nat /\ turns[t].collected \in Seq(TurnEvents) /\ turns[t].queue # NoQueue
  BY <1>2, TurnNumbers DEF TurnState
<1>4. e \in TurnEvents /\ e \in 0..MaxEvents /\ e \in Items /\ EndMark \in Items
  BY <1>2, <1>3, TurnNumbers DEF TurnEvents, Items
<1> HIDE DEF e
<1>5. /\ r \in TurnState /\ r.task = "over" /\ r.queue = turns[t].queue /\ r.shared = turns[t].shared
      /\ r.status = "over"
  <2>1. Append(turns[t].collected, e) \in Seq(TurnEvents) BY <1>3, <1>4
  <2> QED BY <2>1, <1>2, <1>4 DEF TurnState, Tasks
<1>6. que \in Seq(Items) /\ EndMark \in ToSet(que)
  <2>1. <<e, EndMark>> \in Seq(Items) /\ EndMark \in ToSet(<<e, EndMark>>)
    <3>1. 2 \in DOMAIN <<e, EndMark>> /\ <<e, EndMark>>[2] = EndMark OBVIOUS
    <3> QED BY <3>1, <1>4 DEF ToSet
  <2> HIDE DEF old
  <2> QED BY <2>1, <1>2, Joined
<1> HIDE DEF r, que, old
<1>7. Tended(t, r, que, streams)
  <2>1. r.status # "running" BY <1>5
  <2>2. OneListener(t, turns[t], streams) => OneListener(t, r, streams) BY <1>5 DEF OneListener
  <2>3. EndComes(t, r, que, streams) BY <1>6 DEF EndComes
  <2> QED BY <2>1, <2>2, <2>3, <1>2, <1>5 DEF Tended
<1>8. TurnPlaced(r) BY <1>3, <1>5 DEF TurnPlaced
<1>9. turns[t].status # "unused" /\ r.status = "over" BY <1>2, <1>5
<1> QED BY <1>1, <1>5, <1>6, <1>7, <1>8, <1>9, ProducerKeeps

-------------------------------------------------------------------------------
(* The streams *)

\* What is the same of a turn however its streams go on.
SameTurn(r, t) ==
    /\ r.status = turns[t].status /\ r.task = turns[t].task /\ r.queue = turns[t].queue
    /\ r.shared = turns[t].shared /\ r.produced = turns[t].produced /\ r.collected = turns[t].collected

\* Stream c gets to state w, its turn t to state r.
StreamStep(c, t, r, w) ==
    /\ turns' = [turns EXCEPT ![t] = r] /\ streams' = [streams EXCEPT ![c] = w] /\ UNCHANGED activeTurn
    /\ r \in TurnState /\ w \in StreamState /\ SameTurn(r, t)
    /\ w.turn = t /\ w.state \notin {"away", "whole"}
    /\ w.queue \in {streams[c].queue, turns[t].queue}
    /\ w.state \in {"replaying", "live"} => w.queue # NoQueue
    /\ w.rest # <<>> => w.state = "replaying"
    /\ w.state # "gone" => w.lost = streams[c].lost /\ streams[c].state # "gone"

LEMMA StreamKeeps ==
    ASSUME TurnsInv, NEW c \in Connections, NEW t \in Turns, streams[c].turn = t, NEW r, NEW w,
           StreamStep(c, t, r, w), NEW que \in Seq(Items),
           \/ turnQueues' = turnQueues
           \/ /\ streams[c].queue \in Queues /\ turnQueues[streams[c].queue] # <<>>
              /\ turnQueues' = [turnQueues EXCEPT ![streams[c].queue] = que],
           Tended(t, r, turnQueues'[turns[t].queue], streams')
    PROVE  TurnsInv'
<1>1. TurnsTypeOK /\ StreamsPlaced /\ TurnsPlaced /\ SessionsPlaced /\ QueuesPlaced BY DEF TurnsInv
<1>2. /\ activeTurn \in [Sessions -> Turns \cup {NoTurn}] /\ turns \in [Turns -> TurnState]
      /\ turnQueues \in [Queues -> Seq(Items)] /\ streams \in [Connections -> StreamState]
  BY <1>1, TurnsTyped
<1>3. /\ turns' = [turns EXCEPT ![t] = r] /\ streams' = [streams EXCEPT ![c] = w] /\ activeTurn' = activeTurn
      /\ r \in TurnState /\ w \in StreamState
      /\ r.status = turns[t].status /\ r.task = turns[t].task /\ r.queue = turns[t].queue
      /\ r.produced = turns[t].produced
      /\ w.turn = t /\ w.state \notin {"away", "whole"}
      /\ w.queue \in {streams[c].queue, turns[t].queue}
      /\ w.state \in {"replaying", "live"} => w.queue # NoQueue
      /\ w.rest # <<>> => w.state = "replaying"
      /\ w.state # "gone" => w.lost = streams[c].lost /\ streams[c].state # "gone"
  BY DEF StreamStep, SameTurn
<1>4. /\ turns' \in [Turns -> TurnState] /\ turns'[t] = r /\ \A u \in Turns \ {t} : turns'[u] = turns[u]
      /\ streams' \in [Connections -> StreamState] /\ streams'[c] = w
      /\ \A d \in Connections \ {c} : streams'[d] = streams[d]
  BY <1>2, <1>3
<1>5. /\ turnQueues' \in [Queues -> Seq(Items)]
      /\ \A q \in Queues : (q = streams[c].queue /\ turnQueues[q] # <<>>) \/ turnQueues'[q] = turnQueues[q]
  <2>1. CASE turnQueues' = turnQueues BY <2>1, <1>2
  <2>2. CASE /\ streams[c].queue \in Queues /\ turnQueues[streams[c].queue] # <<>>
             /\ turnQueues' = [turnQueues EXCEPT ![streams[c].queue] = que]
    BY <2>2, <1>2
  <2> QED BY <2>1, <2>2
<1>6. \A u \in Turns : /\ turns'[u].status = turns[u].status /\ turns'[u].task = turns[u].task
                       /\ turns'[u].queue = turns[u].queue /\ turns'[u].produced = turns[u].produced
  BY <1>3, <1>4
<1>7. TurnsTypeOK' BY <1>2, <1>3, <1>4, <1>5, TurnsTyped
<1>8. t # NoTurn /\ turns[t].status # "unused" 
  <2>1. streams[c].state # "away" BY <1>1, TurnNumbers DEF StreamsPlaced
  <2> QED BY <2>1, <1>1, TurnNumbers DEF StreamsPlaced
<1>9. StreamsPlaced'
  <2> SUFFICES ASSUME NEW d \in Connections
               PROVE  /\ streams'[d].state = "away" => /\ streams'[d].turn = NoTurn /\ streams'[d].queue = NoQueue
                                                       /\ Given(streams'[d]) = {}
                      /\ streams'[d].state # "away" => streams'[d].turn \in Turns /\ turns'[streams'[d].turn].status # "unused"
                      /\ streams'[d].state \in {"replaying", "live"} => streams'[d].queue # NoQueue
                      /\ streams'[d].rest # <<>> => streams'[d].state \in {"replaying", "whole"}
                      /\ streams'[d].state # "gone" => streams'[d].lost = {}
                      /\ streams'[d].state = "whole" =>
                            Given(streams'[d]) = {} /\ turns'[streams'[d].turn].status = "over"
    BY DEF StreamsPlaced
  <2>1. CASE d = c
    <3>1. streams[c].state # "gone" => streams[c].lost = {} BY <1>1 DEF StreamsPlaced
    <3> QED BY <3>1, <2>1, <1>3, <1>4, <1>6, <1>8
  <2>2. CASE d # c
    <3>1. streams'[d] = streams[d] BY <2>2, <1>4
    <3>2. streams[d].state # "away" => turns'[streams[d].turn].status = turns[streams[d].turn].status
      BY <1>1, <1>6 DEF StreamsPlaced
    <3>3. streams[d].state = "whole" => streams[d].state # "away" OBVIOUS
    <3> QED BY <3>1, <3>2, <3>3, <1>1 DEF StreamsPlaced
  <2> QED BY <2>1, <2>2
<1>10. TurnsPlaced' BY <1>1, <1>6 DEF TurnsPlaced, TurnPlaced
<1>11. SessionsPlaced'
  <2>1. \A s \in Sessions : activeTurn[s] # NoTurn => activeTurn[s] \in Turns BY <1>2
  <2> QED BY <2>1, <1>1, <1>3, <1>6 DEF SessionsPlaced
<1>12. QueuesPlaced'
  <2>1. ASSUME NEW d \in Connections, NEW u \in Turns, turns[u].queue # NoQueue, streams'[d].queue = turns[u].queue
        PROVE  streams'[d].turn = u
    <3>1. CASE d # c BY <3>1, <2>1, <1>1, <1>4 DEF QueuesPlaced
    <3>2. CASE d = c /\ w.queue = streams[c].queue BY <3>2, <2>1, <1>1, <1>3, <1>4 DEF QueuesPlaced
    <3>3. CASE d = c /\ w.queue = turns[t].queue BY <3>3, <2>1, <1>1, <1>3, <1>4 DEF QueuesPlaced
    <3> QED BY <3>1, <3>2, <3>3, <1>3
  <2>2. \A q \in Queues : (\A u \in Turns : turns[u].queue < q) => turnQueues'[q] = <<>>
    BY <1>1, <1>5 DEF QueuesPlaced
  <2> QED BY <2>1, <2>2, <1>1, <1>6 DEF QueuesPlaced
<1>13. AllTended'
  <2>1. \A u \in Turns \ {t} : turns[u].queue # NoQueue => turnQueues'[turns[u].queue] = turnQueues[turns[u].queue]
    <3> SUFFICES ASSUME NEW u \in Turns \ {t}, turns[u].queue # NoQueue
                 PROVE  turnQueues'[turns[u].queue] = turnQueues[turns[u].queue]
      OBVIOUS
    <3>1. turns[u] \in TurnState BY <1>2
    <3>2. turns[u].queue \in Queues BY <3>1 DEF TurnState
    <3>3. turns[u].queue # streams[c].queue BY <1>1 DEF QueuesPlaced
    <3> QED BY <3>2, <3>3, <1>5
  <2>2. \A d \in Connections : \/ streams'[d] = streams[d]
                               \/ streams[d].turn \in {t, NoTurn} /\ streams'[d].turn = t
    BY <1>3, <1>4
  <2>3. \A u \in Turns \ {t} : Tended(u, turns'[u], turnQueues'[turns'[u].queue], streams')
    BY <2>1, <2>2, <1>4, OthersTended
  <2>4. Tended(t, turns'[t], turnQueues'[turns'[t].queue], streams') BY <1>3, <1>4
  <2> QED BY <2>3, <2>4 DEF AllTended
<1> QED BY <1>7, <1>9, <1>10, <1>11, <1>12, <1>13 DEF TurnsInv

\* A stream that has begun.
LEMMA Begun ==
    ASSUME TurnsInv, NEW c \in Connections, streams[c].state # "away"
    PROVE  /\ streams[c] \in StreamState /\ streams[c].turn \in Turns
           /\ turns[streams[c].turn] \in TurnState /\ turns[streams[c].turn].queue \in Queues
           /\ turnQueues \in [Queues -> Seq(Items)] /\ streams \in [Connections -> StreamState]
           /\ turns \in [Turns -> TurnState]
           /\ TurnPlaced(turns[streams[c].turn])
           /\ Tended(streams[c].turn, turns[streams[c].turn], turnQueues[turns[streams[c].turn].queue], streams)
           /\ turns = [turns EXCEPT ![streams[c].turn] = turns[streams[c].turn]]
<1> DEFINE t == streams[c].turn
<1>1. /\ turns \in [Turns -> TurnState]
      /\ turnQueues \in [Queues -> Seq(Items)] /\ streams \in [Connections -> StreamState]
  BY TurnsTyped DEF TurnsInv
<1>2. t \in Turns /\ turns[t].status # "unused" BY DEF TurnsInv, StreamsPlaced
<1>3. turns[t] \in TurnState /\ TurnPlaced(turns[t]) BY <1>1, <1>2 DEF TurnsInv, TurnsPlaced
<1>4. turns[t].queue \in Queues BY <1>2, <1>3 DEF TurnPlaced, TurnState
<1>5. Tended(t, turns[t], turnQueues[turns[t].queue], streams) BY <1>2 DEF TurnsInv, AllTended
<1> QED BY <1>1, <1>2, <1>3, <1>4, <1>5

\* The open streams of turn t when stream c gets to state w.
LEMMA OpenAfter ==
    ASSUME NEW c \in Connections, NEW t, NEW str, NEW now, NEW w, now[c] = w, w.turn = t,
           \A d \in Connections \ {c} : now[d] = str[d]
    PROVE  /\ w.state \in {"replaying", "live"} => OpenOf(t, now) = OpenOf(t, str) \cup {c}
           /\ w.state \notin {"replaying", "live"} => OpenOf(t, now) = OpenOf(t, str) \ {c}
  BY DEF OpenOf

\* It was the only one.
LEMMA OnlyStream ==
    ASSUME NEW c \in Connections, NEW t, NEW str, NEW r, OneListener(t, r, str),
           str[c].turn = t, str[c].state \in {"replaying", "live"}
    PROVE  OpenOf(t, str) = {c} /\ str[c].queue = r.queue
<1>1. c \in OpenOf(t, str) BY DEF OpenOf
<1> QED BY <1>1 DEF OneListener

\* Where event e is after stream c took a step, if it is there wherever it was.
LEMMA HasAfter ==
    ASSUME NEW c \in Connections, NEW t, NEW str, NEW now,
           \A d \in Connections \ {c} : now[d] = str[d],
           NEW e, NEW r, NEW s, NEW que, NEW more, Has(e, t, r, que, str),
           str[c].turn = t /\ e \in Given(str[c]) \cup ToSet(str[c].rest) => Has(e, t, s, more, now),
           e \in ToSet(que) => Has(e, t, s, more, now),
           \A p \in DOMAIN r.collected : r.cursor < p /\ r.collected[p] = e => Has(e, t, s, more, now)
    PROVE  Has(e, t, s, more, now)
<1>1. CASE \E d \in Connections : str[d].turn = t /\ e \in Given(str[d]) \cup ToSet(str[d].rest)
  <2>1. PICK d \in Connections : str[d].turn = t /\ e \in Given(str[d]) \cup ToSet(str[d].rest) BY <1>1
  <2>2. CASE d = c BY <2>1, <2>2
  <2>3. CASE d # c BY <2>1, <2>3 DEF Has
  <2> QED BY <2>2, <2>3
<1> QED BY <1>1 DEF Has

LEMMA ReplayNextKeeps ==
    ASSUME TurnsInv, NEW c \in Connections, ReplayNext(c)
    PROVE  TurnsInv'
<1> DEFINE t == streams[c].turn
           old == streams[c]
           k == Max({turns[t].cursor, streams[c].at + 1})
           r == [turns[t] EXCEPT !.cursor = k]
           w == [streams[c] EXCEPT !.at = streams[c].at + 1, !.rest = Tail(streams[c].rest),
                                   !.yielded = Append(streams[c].yielded, Head(streams[c].rest))]
           que == turnQueues[turns[t].queue]
           was == turns[t].collected
<1>1. /\ old.state = "replaying" /\ old.rest # <<>> /\ turns' = [turns EXCEPT ![t] = r]
      /\ streams' = [streams EXCEPT ![c] = w] /\ UNCHANGED <<activeTurn, turnQueues>>
  BY DEF ReplayNext
<1>2. /\ old \in StreamState /\ t \in Turns /\ turns[t] \in TurnState /\ turns[t].queue \in Queues
      /\ streams \in [Connections -> StreamState] /\ que \in Seq(Items)
      /\ Tended(t, turns[t], que, streams)
  BY <1>1, Begun
<1>3. /\ old.at \in Nat /\ old.rest \in Seq(TurnEvents) /\ old.yielded \in Seq(TurnEvents) /\ old.queue # NoQueue
      /\ turns[t].cursor \in Nat /\ was \in Seq(TurnEvents)
  BY <1>1, <1>2 DEF StreamState, TurnState, TurnsInv, StreamsPlaced
<1>4. k \in {turns[t].cursor, old.at + 1} /\ k \in Nat /\ (old.at = turns[t].cursor => k = turns[t].cursor + 1)
  <2> DEFINE S == {turns[t].cursor, old.at + 1}
             b == turns[t].cursor + old.at + 1
  <2>1. b \in Nat /\ S \in SUBSET (0..b) /\ S # {}
    <3> HIDE DEF t, old
    <3>1. b \in Nat /\ turns[t].cursor \in 0..b /\ streams[c].at + 1 \in 0..b BY <1>3 DEF old
    <3> QED BY <3>1 DEF old
  <2>2. Max(S) \in S /\ \A y \in S : y <= Max(S)
    <3> HIDE DEF S, b
    <3> QED BY <2>1, MaxIs
  <2> QED BY <2>2, <1>3
<1>5. /\ Head(old.rest) = old.rest[1] /\ 1 \in DOMAIN old.rest /\ Len(old.rest) \in Nat
      /\ Tail(old.rest) \in Seq(TurnEvents)
      /\ DOMAIN Tail(old.rest) = 1..(Len(old.rest) - 1) /\ DOMAIN old.rest = 1..Len(old.rest)
      /\ Len(Tail(old.rest)) = Len(old.rest) - 1 /\ Len(old.rest) > 0
      /\ \A n \in 1..(Len(old.rest) - 1) : Tail(old.rest)[n] = old.rest[n + 1]
      /\ ToSet(old.rest) = {Head(old.rest)} \cup ToSet(Tail(old.rest))
  <2> DEFINE q == streams[c].rest
  <2>1. q \in Seq(TurnEvents) /\ q # <<>> BY <1>1, <1>3
  <2> HIDE DEF q
  <2>2. Len(Tail(q)) = Len(q) - 1 /\ Len(q) > 0 BY <2>1
  <2>3. /\ Head(q) = q[1] /\ 1 \in DOMAIN q /\ Len(q) \in Nat /\ Tail(q) \in Seq(TurnEvents)
        /\ DOMAIN Tail(q) = 1..(Len(q) - 1) /\ DOMAIN q = 1..Len(q)
        /\ \A n \in 1..(Len(q) - 1) : Tail(q)[n] = q[n + 1]
        /\ ToSet(q) = {Head(q)} \cup ToSet(Tail(q))
    BY <2>1, TailMembers
  <2> QED BY <2>2, <2>3 DEF q
<1>6. /\ r \in TurnState /\ r.cursor = k /\ SameTurn(r, t)
      /\ r.queue = turns[t].queue /\ r.shared = turns[t].shared /\ r.status = turns[t].status
      /\ r.task = turns[t].task /\ r.collected = was /\ r.produced = turns[t].produced
  BY <1>2, <1>4 DEF TurnState, SameTurn
<1>7. /\ w \in StreamState /\ w.at = old.at + 1 /\ w.rest = Tail(old.rest)
      /\ Given(w) = Given(old) \cup {Head(old.rest)} /\ w.lost = old.lost
      /\ w.turn = t /\ w.state = "replaying" /\ w.queue = old.queue
  <2>1. Head(old.rest) \in TurnEvents
    <3>1. old.rest[1] \in TurnEvents BY <1>3, <1>5
    <3> QED BY <3>1, <1>5
  <2>2. old.at + 1 \in Nat /\ Append(old.yielded, Head(old.rest)) \in Seq(TurnEvents) BY <2>1, <1>3
  <2>3. /\ w.at = old.at + 1 /\ w.rest = Tail(old.rest) /\ w.yielded = Append(old.yielded, Head(old.rest))
        /\ w.lost = old.lost
        /\ w.turn = t /\ w.state = "replaying" /\ w.queue = old.queue
    BY <1>1, <1>2 DEF StreamState
  <2>4. w \in StreamState BY <2>2, <1>2, <1>5 DEF StreamState
  <2>5. ToSet(Append(old.yielded, Head(old.rest))) = ToSet(old.yielded) \cup {Head(old.rest)}
    BY <2>1, <1>3, AppendedMembers
  <2>6. Given(w) = Given(old) \cup {Head(old.rest)} BY <2>3, <2>5 DEF Given
  <2> QED BY <2>3, <2>4, <2>6
<1> HIDE DEF k, r, w, que
<1>8. streams'[c] = w /\ \A d \in Connections \ {c} : streams'[d] = streams[d] BY <1>1, <1>2
<1>9. StreamStep(c, t, r, w) BY <1>1, <1>3, <1>6, <1>7 DEF StreamStep
<1>10. OpenOf(t, streams') = OpenOf(t, streams)
  BY <1>1, <1>7, <1>8 DEF OpenOf
<1>11. Tended(t, r, que, streams')
  <2> SUFFICES ASSUME ~ turns[t].shared
               PROVE  /\ OneListener(t, r, streams') /\ EndComes(t, r, que, streams')
                      /\ r.status = "running" => EventsKept(t, r, que, streams')
    BY <1>6 DEF Tended
  <2>1. /\ OneListener(t, turns[t], streams) /\ EndComes(t, turns[t], que, streams)
        /\ turns[t].status = "running" => EventsKept(t, turns[t], que, streams)
    BY <1>2 DEF Tended
  <2>2. OpenOf(t, streams) = {c} /\ old.queue = turns[t].queue
    <3>1. streams[c].turn = t /\ streams[c].state \in {"replaying", "live"} BY <1>1
    <3> HIDE DEF t
    <3> QED BY <3>1, <2>1, OnlyStream
  <2>3. OneListener(t, r, streams') BY <2>2, <1>6, <1>7, <1>8, <1>10 DEF OneListener
  <2>4. EndComes(t, r, que, streams') BY <2>1, <1>6, <1>10 DEF EndComes
  <2>5. ASSUME r.status = "running" PROVE EventsKept(t, r, que, streams')
    <3>1. EventsKept(t, turns[t], que, streams) BY <2>1, <2>5, <1>6
    <3>2. Sliced(c, turns[t], que, streams) BY <3>1, <2>2 DEF EventsKept
    <3> DEFINE rest == streams[c].rest
               n == turns[t].cursor
    <3>3. /\ old.at = n /\ n + Len(rest) <= Len(was)
          /\ \A i \in DOMAIN rest : rest[i] = was[n + i]
          /\ \A p \in DOMAIN was : n + Len(rest) < p => was[p] \in ToSet(que)
      BY <3>2, <1>1 DEF Sliced
    <3>4. k = n + 1 /\ Len(was) \in Nat /\ DOMAIN was = 1..Len(was) BY <3>3, <1>3, <1>4
    <3>5. r.cursor <= Len(r.collected) BY <3>3, <3>4, <1>3, <1>5, <1>6
    <3>6. Sliced(c, r, que, streams')
      <4>1. w.at = r.cursor BY <3>3, <3>4, <1>6, <1>7
      <4>2. r.cursor + Len(w.rest) = n + Len(rest)
          <5>1. Len(w.rest) = Len(rest) - 1 /\ r.cursor = n + 1 BY <3>4, <1>5, <1>6, <1>7
          <5>2. Len(rest) \in Nat /\ n \in Nat BY <1>3, <1>5
          <5> HIDE DEF rest, n
          <5> QED BY <5>1, <5>2
      <4>3. ASSUME NEW i \in DOMAIN w.rest PROVE w.rest[i] = r.collected[r.cursor + i]
        <5>1. i \in 1..(Len(rest) - 1) /\ i + 1 \in DOMAIN rest /\ w.rest[i] = rest[i + 1] BY <4>3, <1>5, <1>7
        <5>2. k + i = n + (i + 1)
          <6>1. i \in Nat /\ n \in Nat BY <5>1, <1>3, <1>5
          <6> HIDE DEF n
          <6> QED BY <6>1, <3>4
        <5> QED BY <5>1, <5>2, <3>3, <1>6
      <4> HIDE DEF rest
      <4> QED BY <4>1, <4>2, <4>3, <3>3, <1>6, <1>8 DEF Sliced
    <3>7. ASSUME NEW e \in 1..r.produced PROVE Has(e, t, r, que, streams')
      <4>1. Has(e, t, turns[t], que, streams) BY <3>1, <3>7, <1>6 DEF EventsKept
      <4>2. ASSUME e \in Given(old) \cup ToSet(old.rest) PROVE Has(e, t, r, que, streams')
        <5>1. e \in Given(w) \cup ToSet(w.rest) BY <4>2, <1>5, <1>7
        <5> QED BY <5>1, <1>7, <1>8 DEF Has
      <4>3. e \in ToSet(que) => Has(e, t, r, que, streams') BY DEF Has
      <4>4. ASSUME NEW p \in DOMAIN was, n < p, was[p] = e PROVE Has(e, t, r, que, streams')
        <5>1. CASE p = n + 1
          <6>1. rest[1] = was[n + 1] BY <3>3, <1>5
          <6>2. e \in Given(w) BY <6>1, <5>1, <4>4, <1>5, <1>7
          <6> QED BY <6>2, <1>7, <1>8 DEF Has
        <5>2. CASE p # n + 1
          <6>1. r.cursor < p BY <5>2, <4>4, <3>4, <1>3, <1>6
          <6> QED BY <6>1, <4>4, <1>6 DEF Has
        <5> QED BY <5>1, <5>2
      <4> QED BY <4>1, <4>2, <4>3, <4>4, <1>8, HasAfter
    <3> HIDE DEF n, rest
    <3> QED BY <3>5, <3>6, <3>7, <2>2, <1>10 DEF EventsKept
  <2> QED BY <2>3, <2>4, <2>5
<1>12. turnQueues' = turnQueues /\ turnQueues'[turns[t].queue] = que BY <1>1 DEF que
<1> QED BY <1>2, <1>9, <1>11, <1>12, StreamKeeps

\* The one stream of a turn that no two shared.
LEMMA OnlyOpen ==
    ASSUME TurnsInv, NEW c \in Connections, NEW t, streams[c].turn = t,
           streams[c].state \in {"replaying", "live"}, ~ turns[t].shared
    PROVE  /\ OpenOf(t, streams) = {c} /\ streams[c].queue = turns[t].queue
           /\ EndComes(t, turns[t], turnQueues[turns[t].queue], streams)
           /\ turns[t].status = "running" =>
                 /\ EventsKept(t, turns[t], turnQueues[turns[t].queue], streams)
                 /\ Sliced(c, turns[t], turnQueues[turns[t].queue], streams)
<1>1. streams[c].state # "away" OBVIOUS
<1>2. Tended(t, turns[t], turnQueues[turns[t].queue], streams) BY <1>1, Begun
<1>3. /\ OneListener(t, turns[t], streams)
      /\ EndComes(t, turns[t], turnQueues[turns[t].queue], streams)
      /\ turns[t].status = "running" => EventsKept(t, turns[t], turnQueues[turns[t].queue], streams)
  BY <1>2 DEF Tended
<1>4. OpenOf(t, streams) = {c} /\ streams[c].queue = turns[t].queue BY <1>3, OnlyStream
<1>5. EventsKept(t, turns[t], turnQueues[turns[t].queue], streams)
         => Sliced(c, turns[t], turnQueues[turns[t].queue], streams)
  BY <1>4 DEF EventsKept
<1> QED BY <1>3, <1>4, <1>5

\* A slice that is empty, of which the cursor has reached the end.
LEMMA SlicedOff ==
    ASSUME NEW c, NEW r, NEW que, NEW str, r.collected \in Seq(TurnEvents), str[c].state # "replaying",
           str[c].rest = <<>>, r.cursor = Len(r.collected)
    PROVE  Sliced(c, r, que, str)
<1>1. Len(r.collected) \in Nat /\ DOMAIN r.collected = 1..Len(r.collected) OBVIOUS
<1>2. Len(str[c].rest) = 0 /\ DOMAIN str[c].rest = {} OBVIOUS
<1>3. r.cursor + Len(str[c].rest) = Len(r.collected) BY <1>1, <1>2
<1>4. \A q \in DOMAIN r.collected : ~ (Len(r.collected) < q) BY <1>1
<1> QED BY <1>1, <1>2, <1>3, <1>4 DEF Sliced

LEMMA EndReplayKeeps ==
    ASSUME TurnsInv, NEW c \in Connections, EndReplay(c)
    PROVE  TurnsInv'
<1>0. PICK t : streams[c].turn = t OBVIOUS
<1> DEFINE r == [turns[t] EXCEPT !.cursor = Len(turns[t].collected),
                                 !.cut = turns[t].cut \/ turns[t].status # "running"]
           w == [streams[c] EXCEPT !.state = IF turns[t].status = "running" THEN "live" ELSE "ended",
                                   !.queue = turns[t].queue]
           que == turnQueues[turns[t].queue]
           was == turns[t].collected
<1>1. /\ streams[c].state = "replaying" /\ streams[c].rest = <<>> /\ turns' = [turns EXCEPT ![t] = r]
      /\ streams' = [streams EXCEPT ![c] = w] /\ UNCHANGED <<activeTurn, turnQueues>>
  BY <1>0 DEF EndReplay
<1>2. /\ streams[c] \in StreamState /\ t \in Turns /\ turns[t] \in TurnState /\ turns[t].queue \in Queues
      /\ streams \in [Connections -> StreamState] /\ que \in Seq(Items)
  BY <1>0, <1>1, Begun
<1>3. was \in Seq(TurnEvents) /\ Len(was) \in Nat /\ turns[t].cursor \in Nat /\ turns[t].queue # NoQueue
  BY <1>2, TurnNumbers DEF TurnState
<1>4. /\ r \in TurnState /\ r.cursor = Len(was) /\ SameTurn(r, t)
      /\ r.queue = turns[t].queue /\ r.shared = turns[t].shared /\ r.status = turns[t].status
      /\ r.task = turns[t].task /\ r.collected = was /\ r.produced = turns[t].produced
  BY <1>2, <1>3 DEF TurnState, SameTurn
<1>5. /\ w \in StreamState /\ w.rest = <<>> /\ Given(w) = Given(streams[c]) /\ w.turn = t /\ w.lost = streams[c].lost
      /\ w.state \in {"live", "ended"} /\ w.queue = turns[t].queue
  <2>1. w.yielded = streams[c].yielded /\ w.lost = streams[c].lost BY <1>2 DEF StreamState
  <2>2. Given(w) = Given(streams[c]) BY <2>1 DEF Given
  <2> QED BY <2>1, <2>2, <1>0, <1>1, <1>2 DEF StreamState, StreamStates
<1> HIDE DEF r, w, que
<1>6. streams'[c] = w /\ \A d \in Connections \ {c} : streams'[d] = streams[d] BY <1>1, <1>2
<1>7. StreamStep(c, t, r, w) BY <1>1, <1>3, <1>4, <1>5 DEF StreamStep
<1>8. Tended(t, r, que, streams')
  <2> SUFFICES ASSUME ~ turns[t].shared
               PROVE  /\ OneListener(t, r, streams') /\ EndComes(t, r, que, streams')
                      /\ r.status = "running" => EventsKept(t, r, que, streams')
    BY <1>4 DEF Tended
  <2>1. /\ OpenOf(t, streams) = {c}
        /\ EndComes(t, turns[t], que, streams)
        /\ turns[t].status = "running" =>
              EventsKept(t, turns[t], que, streams) /\ Sliced(c, turns[t], que, streams)
    BY <1>0, <1>1, OnlyOpen DEF que
  <2>2. OpenOf(t, streams') \subseteq {c} BY <2>1, <1>0, <1>6 DEF OpenOf
  <2>3. OneListener(t, r, streams') BY <2>2, <1>4, <1>5, <1>6 DEF OneListener
  <2>4. EndComes(t, r, que, streams') BY <2>1, <2>2, <1>4 DEF EndComes
  <2>5. ASSUME r.status = "running" PROVE EventsKept(t, r, que, streams')
    <3>1. EventsKept(t, turns[t], que, streams) /\ Sliced(c, turns[t], que, streams) BY <2>1, <2>5, <1>4
    <3>2. r.cursor <= Len(r.collected) BY <1>3, <1>4
    <3>3. Sliced(c, r, que, streams') BY <1>3, <1>4, <1>5, <1>6, SlicedOff
    <3>4. ASSUME NEW e \in 1..r.produced PROVE Has(e, t, r, que, streams')
      <4>1. Has(e, t, turns[t], que, streams) BY <3>1, <3>4, <1>4 DEF EventsKept
      <4>2. e \in Given(streams[c]) \cup ToSet(streams[c].rest) => Has(e, t, r, que, streams')
        BY <1>1, <1>5, <1>6 DEF Has
      <4>3. e \in ToSet(que) => Has(e, t, r, que, streams') BY DEF Has
      <4>4. ASSUME NEW p \in DOMAIN was, turns[t].cursor < p, was[p] = e PROVE Has(e, t, r, que, streams')
        <5>1. turns[t].cursor + Len(streams[c].rest) = turns[t].cursor BY <1>1, <1>3
        <5>2. e \in ToSet(que) BY <5>1, <4>4, <3>1 DEF Sliced
        <5> QED BY <5>2, <4>3
      <4> QED BY <4>1, <4>2, <4>3, <4>4, <1>6, HasAfter
    <3> QED BY <3>2, <3>3, <3>4, <2>2 DEF EventsKept
  <2> QED BY <2>3, <2>4, <2>5
<1>9. turnQueues' = turnQueues /\ turnQueues'[turns[t].queue] = que BY <1>1 DEF que
<1> QED BY <1>0, <1>2, <1>7, <1>8, <1>9, StreamKeeps

\* The stream takes the end mark.
LEMMA EndTaken ==
    ASSUME TurnsInv, NEW c \in Connections, NEW t, streams[c].turn = t, TakeItem(c),
           Head(turnQueues[streams[c].queue]) = EndMark
    PROVE  TurnsInv'
<1> DEFINE r == turns[t]
           w == [streams[c] EXCEPT !.state = "ended"]
           q == streams[c].queue
           old == turnQueues[q]
           que == Tail(turnQueues[q])
<1>1. /\ streams[c].state = "live" /\ turnQueues[q] # <<>> /\ UNCHANGED <<activeTurn, turns>>
      /\ streams' = [streams EXCEPT ![c] = w] /\ turnQueues' = [turnQueues EXCEPT ![q] = que]
  BY DEF TakeItem
<1>2. /\ streams[c] \in StreamState /\ t \in Turns /\ turns[t] \in TurnState /\ turns[t].queue \in Queues
      /\ streams \in [Connections -> StreamState] /\ turnQueues \in [Queues -> Seq(Items)]
      /\ turns = [turns EXCEPT ![t] = turns[t]]
  BY <1>1, Begun
<1>3. q \in Queues /\ streams[c].rest = <<>> BY <1>1, <1>2 DEF TurnsInv, StreamsPlaced, StreamState
<1>4. old \in Seq(Items) /\ que \in Seq(Items) /\ ToSet(old) = {EndMark} \cup ToSet(que)
  <2>1. old \in Seq(Items) /\ old # <<>> /\ Head(old) = EndMark /\ que = Tail(old) BY <1>1, <1>2, <1>3
  <2> HIDE DEF q, old, que
  <2> QED BY <2>1, TailMembers
<1>5. /\ w \in StreamState /\ w.rest = <<>> /\ Given(w) = Given(streams[c]) /\ w.turn = t /\ w.lost = streams[c].lost
      /\ w.state = "ended" /\ w.queue = q
  <2>1. w.yielded = streams[c].yielded /\ w.lost = streams[c].lost BY <1>2 DEF StreamState
  <2>2. Given(w) = Given(streams[c]) BY <2>1 DEF Given
  <2> QED BY <2>1, <2>2, <1>2, <1>3 DEF StreamState, StreamStates
<1>6. turnQueues'[q] = que BY <1>1, <1>2, <1>3
<1> HIDE DEF w, que, old
<1>7. streams'[c] = w /\ \A d \in Connections \ {c} : streams'[d] = streams[d] BY <1>1, <1>2
<1>8. StreamStep(c, t, r, w) BY <1>1, <1>2, <1>5 DEF StreamStep, SameTurn
<1>9. Tended(t, r, turnQueues'[turns[t].queue], streams')
  <2> SUFFICES ASSUME ~ turns[t].shared
               PROVE  /\ OneListener(t, r, streams') /\ EndComes(t, r, turnQueues'[turns[t].queue], streams')
                      /\ r.status = "running" => EventsKept(t, r, turnQueues'[turns[t].queue], streams')
    BY DEF Tended
  <2>1. /\ OpenOf(t, streams) = {c} /\ q = turns[t].queue
        /\ turns[t].status = "running" => EventsKept(t, turns[t], old, streams)
    BY <1>1, OnlyOpen DEF old
  <2>2. turnQueues'[turns[t].queue] = que BY <2>1, <1>6
  <2>3. OpenOf(t, streams') = {} BY <2>1, <1>5, <1>7 DEF OpenOf
  <2>4. OneListener(t, r, streams') /\ EndComes(t, r, que, streams') BY <2>3 DEF OneListener, EndComes
  <2>5. ASSUME r.status = "running" PROVE EventsKept(t, r, que, streams')
    <3>1. EventsKept(t, turns[t], old, streams) BY <2>1, <2>5
    <3>2. ASSUME NEW e \in 1..r.produced PROVE Has(e, t, r, que, streams')
      <4>1. Has(e, t, turns[t], old, streams) BY <3>1, <3>2 DEF EventsKept
      <4>2. e # EndMark BY <3>2 DEF EndMark
      <4>3. e \in Given(streams[c]) \cup ToSet(streams[c].rest) => Has(e, t, r, que, streams')
        BY <1>3, <1>5, <1>7 DEF Has
      <4>4. e \in ToSet(old) => Has(e, t, r, que, streams') BY <4>2, <1>4 DEF Has
      <4>5. \A p \in DOMAIN turns[t].collected :
               turns[t].cursor < p /\ turns[t].collected[p] = e => Has(e, t, r, que, streams')
        BY DEF Has
      <4> QED BY <4>1, <4>3, <4>4, <4>5, <1>7, HasAfter
    <3> QED BY <3>1, <3>2, <2>3 DEF EventsKept
  <2> QED BY <2>2, <2>4, <2>5
<1> QED BY <1>1, <1>2, <1>3, <1>4, <1>8, <1>9, StreamKeeps

\* The stream takes an event.
LEMMA EventTaken ==
    ASSUME TurnsInv, NEW c \in Connections, NEW t, streams[c].turn = t, TakeItem(c),
           Head(turnQueues[streams[c].queue]) # EndMark
    PROVE  TurnsInv'
<1> DEFINE q == streams[c].queue
           old == turnQueues[q]
           que == Tail(turnQueues[q])
           x == Head(turnQueues[q])
           was == turns[t].collected
           r == [turns[t] EXCEPT !.cursor = Len(turns[t].collected)]
           w == [streams[c] EXCEPT !.yielded = Append(streams[c].yielded, x), !.queue = turns[t].queue]
<1>1. /\ streams[c].state = "live" /\ turnQueues[q] # <<>> /\ UNCHANGED <<activeTurn>>
      /\ turns' = [turns EXCEPT ![t] = r]
      /\ streams' = [streams EXCEPT ![c] = w] /\ turnQueues' = [turnQueues EXCEPT ![q] = que]
  BY DEF TakeItem
<1>2. /\ streams[c] \in StreamState /\ t \in Turns /\ turns[t] \in TurnState /\ turns[t].queue \in Queues
      /\ streams \in [Connections -> StreamState] /\ turnQueues \in [Queues -> Seq(Items)]
  BY <1>1, Begun
<1>3. /\ q \in Queues /\ streams[c].rest = <<>> /\ turns[t].queue # NoQueue
      /\ was \in Seq(TurnEvents) /\ Len(was) \in Nat /\ turns[t].cursor \in Nat
  <2>1. q \in Queues /\ streams[c].rest = <<>> BY <1>1, <1>2 DEF TurnsInv, StreamsPlaced, StreamState
  <2>2. was \in Seq(TurnEvents) /\ turns[t].cursor \in Nat BY <1>2 DEF TurnState
  <2> QED BY <2>1, <2>2, <1>2, TurnNumbers
<1>4. old \in Seq(Items) /\ que \in Seq(Items) /\ ToSet(old) = {x} \cup ToSet(que) /\ x \in TurnEvents
  <2>1. old \in Seq(Items) /\ old # <<>> /\ x = Head(old) /\ que = Tail(old) BY <1>1, <1>2, <1>3
  <2> HIDE DEF q, old, que, x
  <2>2. que \in Seq(Items) /\ ToSet(old) = {x} \cup ToSet(que) /\ x = old[1] /\ 1 \in DOMAIN old
    BY <2>1, TailMembers
  <2>3. x \in Items BY <2>1, <2>2
  <2> QED BY <2>1, <2>2, <2>3 DEF Items, x, q
<1> HIDE DEF x
<1>5. /\ w \in StreamState /\ w.rest = <<>> /\ Given(w) = Given(streams[c]) \cup {x} /\ w.lost = streams[c].lost /\ w.turn = t
      /\ w.state = "live" /\ w.queue = turns[t].queue
  <2>1. streams[c].yielded \in Seq(TurnEvents) BY <1>2 DEF StreamState
  <2>2. Append(streams[c].yielded, x) \in Seq(TurnEvents) BY <2>1, <1>4
  <2>3. ToSet(Append(streams[c].yielded, x)) = ToSet(streams[c].yielded) \cup {x} BY <2>1, <1>4, AppendedMembers
  <2>4. w.yielded = Append(streams[c].yielded, x) /\ w.lost = streams[c].lost BY <1>2 DEF StreamState
  <2>5. Given(w) = Given(streams[c]) \cup {x} BY <2>3, <2>4 DEF Given
  <2> QED BY <2>2, <2>5, <1>1, <1>2, <1>3 DEF StreamState
<1>6. /\ r \in TurnState /\ r.cursor = Len(was) /\ SameTurn(r, t)
      /\ r.queue = turns[t].queue /\ r.shared = turns[t].shared /\ r.status = turns[t].status
      /\ r.task = turns[t].task /\ r.collected = was /\ r.produced = turns[t].produced
  BY <1>2, <1>3 DEF TurnState, SameTurn
<1>7. turnQueues'[q] = que BY <1>1, <1>2, <1>3
<1> HIDE DEF w, r, que, old
<1>8. streams'[c] = w /\ \A d \in Connections \ {c} : streams'[d] = streams[d] BY <1>1, <1>2
<1>9. StreamStep(c, t, r, w) BY <1>1, <1>3, <1>5, <1>6 DEF StreamStep
<1>10. Tended(t, r, turnQueues'[turns[t].queue], streams')
  <2> SUFFICES ASSUME ~ turns[t].shared
               PROVE  /\ OneListener(t, r, streams') /\ EndComes(t, r, turnQueues'[turns[t].queue], streams')
                      /\ r.status = "running" => EventsKept(t, r, turnQueues'[turns[t].queue], streams')
    BY <1>6 DEF Tended
  <2>1. /\ OpenOf(t, streams) = {c} /\ q = turns[t].queue
        /\ EndComes(t, turns[t], old, streams)
        /\ turns[t].status = "running" => EventsKept(t, turns[t], old, streams) /\ Sliced(c, turns[t], old, streams)
    BY <1>1, OnlyOpen DEF old
  <2>2. turnQueues'[turns[t].queue] = que BY <2>1, <1>7
  <2>3. OpenOf(t, streams') = {c} BY <2>1, <1>5, <1>8 DEF OpenOf
  <2>4. OneListener(t, r, streams') BY <2>3, <1>5, <1>6, <1>8 DEF OneListener
  <2>5. EndComes(t, r, que, streams')
    <3>1. x # EndMark BY DEF x
    <3> QED BY <3>1, <2>1, <1>4, <1>6 DEF EndComes
  <2>6. ASSUME r.status = "running" PROVE EventsKept(t, r, que, streams')
    <3>1. EventsKept(t, turns[t], old, streams) /\ Sliced(c, turns[t], old, streams) BY <2>1, <2>6, <1>6
    <3>2. ASSUME NEW e \in 1..r.produced PROVE Has(e, t, r, que, streams')
      <4>1. Has(e, t, turns[t], old, streams) BY <3>1, <3>2, <1>6 DEF EventsKept
      <4>2. e \in Given(streams[c]) \cup ToSet(streams[c].rest) => Has(e, t, r, que, streams')
        BY <1>3, <1>5, <1>8 DEF Has
      <4>3. e \in ToSet(old) => Has(e, t, r, que, streams')
        <5>1. e \in ToSet(old) => e \in Given(w) \/ e \in ToSet(que) BY <1>4, <1>5
        <5> QED BY <5>1, <1>5, <1>8 DEF Has
      <4>4. ASSUME NEW p \in DOMAIN was, turns[t].cursor < p, was[p] = e PROVE Has(e, t, r, que, streams')
        <5>1. turns[t].cursor + Len(streams[c].rest) = turns[t].cursor BY <1>3
        <5>2. e \in ToSet(old) BY <5>1, <4>4, <3>1 DEF Sliced
        <5> QED BY <5>2, <4>3
      <4> QED BY <4>1, <4>2, <4>3, <4>4, <1>8, HasAfter
    <3>3. r.cursor <= Len(r.collected) BY <1>3, <1>6
    <3>4. Sliced(c, r, que, streams') BY <1>3, <1>5, <1>6, <1>8, SlicedOff
    <3> QED BY <3>2, <3>3, <3>4, <2>3 DEF EventsKept
  <2> QED BY <2>2, <2>4, <2>5, <2>6
<1> QED BY <1>1, <1>2, <1>3, <1>4, <1>9, <1>10, StreamKeeps

LEMMA TakeItemKeeps ==
    ASSUME TurnsInv, NEW c \in Connections, TakeItem(c)
    PROVE  TurnsInv'
<1>1. PICK t : streams[c].turn = t OBVIOUS
<1> QED BY <1>1, EndTaken, EventTaken

LEMMA HeartbeatKeeps ==
    ASSUME TurnsInv, NEW c \in Connections, Heartbeat(c)
    PROVE  TurnsInv'
<1>0. PICK t : streams[c].turn = t OBVIOUS
<1> DEFINE r == turns[t]
           w == [streams[c] EXCEPT !.queue = turns[t].queue]
           que == turnQueues[turns[t].queue]
<1>1. /\ streams[c].state = "live" /\ UNCHANGED <<activeTurn, turns, turnQueues>>
      /\ streams' = [streams EXCEPT ![c] = w]
  BY <1>0 DEF Heartbeat
<1>2. /\ streams[c] \in StreamState /\ t \in Turns /\ turns[t] \in TurnState /\ turns[t].queue \in Queues
      /\ streams \in [Connections -> StreamState] /\ que \in Seq(Items)
      /\ turns = [turns EXCEPT ![t] = turns[t]]
      /\ Tended(t, turns[t], que, streams)
  BY <1>0, <1>1, Begun
<1>3. turns[t].queue # NoQueue /\ streams[c].rest = <<>>
  BY <1>1, <1>2, TurnNumbers DEF TurnsInv, StreamsPlaced
<1>4. /\ w \in StreamState /\ w.rest = <<>> /\ w.turn = t /\ w.state = "live" /\ w.queue = turns[t].queue
      /\ w.lost = streams[c].lost
  BY <1>0, <1>1, <1>2, <1>3 DEF StreamState
<1>5. ~ turns[t].shared => streams' = streams
  <2> SUFFICES ASSUME ~ turns[t].shared PROVE streams' = streams
    OBVIOUS
  <2>1. streams[c].queue = turns[t].queue BY <1>0, <1>1, OnlyOpen
  <2>2. w = streams[c] BY <2>1, <1>2 DEF StreamState
  <2> HIDE DEF w
  <2> QED BY <2>2, <1>1, <1>2
<1> HIDE DEF w, que
<1>6. StreamStep(c, t, r, w) BY <1>1, <1>2, <1>3, <1>4 DEF StreamStep, SameTurn
<1>7. Tended(t, r, que, streams') BY <1>2, <1>5 DEF Tended
<1>8. turnQueues' = turnQueues /\ turnQueues'[turns[t].queue] = que BY <1>1 DEF que
<1> QED BY <1>0, <1>2, <1>6, <1>7, <1>8, StreamKeeps

LEMMA ReplayAllKeeps ==
    ASSUME TurnsInv, NEW c \in Connections, ReplayAll(c)
    PROVE  TurnsInv'
<1>0. PICK t : streams[c].turn = t OBVIOUS
<1> DEFINE r == turns[t]
           w == [streams[c] EXCEPT !.state = "ended", !.rest = <<>>, !.yielded = streams[c].rest]
           que == turnQueues[turns[t].queue]
<1>1. /\ streams[c].state = "whole" /\ UNCHANGED <<activeTurn, turns, turnQueues>>
      /\ streams' = [streams EXCEPT ![c] = w]
  BY <1>0 DEF ReplayAll
<1>2. /\ streams[c] \in StreamState /\ t \in Turns /\ turns[t] \in TurnState /\ turns[t].queue \in Queues
      /\ streams \in [Connections -> StreamState] /\ que \in Seq(Items)
      /\ turns = [turns EXCEPT ![t] = turns[t]]
      /\ Tended(t, turns[t], que, streams)
  BY <1>0, <1>1, Begun
<1>3. turns[t].status # "running" BY <1>0, <1>1 DEF TurnsInv, StreamsPlaced
<1>4. /\ w \in StreamState /\ w.rest = <<>> /\ w.turn = t /\ w.state = "ended" /\ w.queue = streams[c].queue
      /\ w.lost = streams[c].lost
  <2>1. streams[c].rest \in Seq(TurnEvents) BY <1>2 DEF StreamState
  <2>2. <<>> \in Seq(TurnEvents) OBVIOUS
  <2> QED BY <2>1, <2>2, <1>0, <1>2 DEF StreamState, StreamStates
<1> HIDE DEF w, que
<1>5. streams'[c] = w /\ \A d \in Connections \ {c} : streams'[d] = streams[d] BY <1>1, <1>2
<1>6. StreamStep(c, t, r, w) BY <1>1, <1>2, <1>4 DEF StreamStep, SameTurn
<1>7. Tended(t, r, que, streams')
  <2>1. OpenOf(t, streams') = OpenOf(t, streams) /\ c \notin OpenOf(t, streams) BY <1>1, <1>4, <1>5 DEF OpenOf
  <2>2. OneListener(t, r, streams) => OneListener(t, r, streams')
    <3>1. \A d \in OpenOf(t, streams) : streams'[d] = streams[d] BY <2>1, <1>5 DEF OpenOf
    <3> QED BY <3>1, <2>1 DEF OneListener
  <2>3. EndComes(t, r, que, streams) => EndComes(t, r, que, streams') BY <2>1 DEF EndComes
  <2> QED BY <2>2, <2>3, <1>2, <1>3 DEF Tended
<1>8. turnQueues' = turnQueues /\ turnQueues'[turns[t].queue] = que BY <1>1 DEF que
<1> QED BY <1>0, <1>2, <1>6, <1>7, <1>8, StreamKeeps

\* A sequence broken off after its first n members.
LEMMA BrokenOff ==
    ASSUME NEW S, NEW s \in Seq(S), NEW n \in 0..Len(s)
    PROVE  /\ SubSeq(s, 1, n) \in Seq(S) /\ ToSet(SubSeq(s, n + 1, Len(s))) \subseteq S
           /\ ToSet(s) \subseteq ToSet(SubSeq(s, 1, n)) \cup ToSet(SubSeq(s, n + 1, Len(s)))
<1> DEFINE len == Len(s)
           first == SubSeq(s, 1, n)
           rest == SubSeq(s, n + 1, len)
<1>1. len \in Nat /\ n \in Nat /\ n <= len /\ DOMAIN s = 1..len /\ \A i \in 1..len : s[i] \in S OBVIOUS
<1>2. /\ rest \in Seq(S) /\ \A p \in DOMAIN s : n < p => s[p] \in ToSet(rest)
  BY <1>1, After
<1>3. ToSet(rest) \subseteq S BY <1>2 DEF ToSet
<1>4. first \in Seq(S) /\ Len(first) = n /\ \A i \in 1..n : first[i] = s[i]
  <2>1. /\ first \in Seq(S) /\ Len(first) = (IF 1 <= n THEN n - 1 + 1 ELSE 0)
        /\ \A i \in 1..(n - 1 + 1) : first[i] = s[1 + i - 1]
    <3>1. \A i \in 1..n : s[i] \in S BY <1>1
    <3> HIDE DEF len
    <3> QED BY <3>1, <1>1, SubSeqProperties
  <2>2. n - 1 + 1 = n /\ \A i \in 1..n : 1 + i - 1 = i BY <1>1
  <2>3. Len(first) = n BY <2>1, <2>2, <1>1
  <2> QED BY <2>1, <2>2, <2>3
<1>5. ASSUME NEW p \in DOMAIN s PROVE s[p] \in ToSet(first) \cup ToSet(rest)
  <2>1. CASE n < p BY <2>1, <1>2
  <2>2. CASE ~ (n < p)
    <3>1. p \in 1..n /\ DOMAIN first = 1..n BY <2>2, <1>1, <1>4
    <3> QED BY <3>1, <1>4 DEF ToSet
  <2> QED BY <2>1, <2>2
<1>6. ToSet(s) \subseteq ToSet(first) \cup ToSet(rest) BY <1>5 DEF ToSet
<1> QED BY <1>3, <1>4, <1>6 DEF len, first, rest

LEMMA DisconnectKeeps ==
    ASSUME TurnsInv, NEW c \in Connections, Disconnect(c)
    PROVE  TurnsInv'
<1>0. PICK t : streams[c].turn = t OBVIOUS
<1> DEFINE r == turns[t]
           given == streams[c].yielded
           que == turnQueues[turns[t].queue]
           was == turns[t].collected
           n == turns[t].cursor
<1>9. PICK k \in 0..Len(given) :
         streams' = [streams EXCEPT ![c] = [streams[c] EXCEPT !.state = "gone", !.rest = <<>>,
                                               !.yielded = SubSeq(given, 1, k),
                                               !.lost = ToSet(SubSeq(given, k + 1, Len(given)))]]
  BY <1>0 DEF Disconnect
<1> DEFINE w == [streams[c] EXCEPT !.state = "gone", !.rest = <<>>, !.yielded = SubSeq(given, 1, k),
                                   !.lost = ToSet(SubSeq(given, k + 1, Len(given)))]
<1>1. /\ streams[c].state \in {"replaying", "live", "whole"} /\ UNCHANGED <<activeTurn, turns, turnQueues>>
      /\ streams' = [streams EXCEPT ![c] = w]
  BY <1>0, <1>9 DEF Disconnect
<1>2. /\ streams[c] \in StreamState /\ t \in Turns /\ turns[t] \in TurnState /\ turns[t].queue \in Queues
      /\ streams \in [Connections -> StreamState] /\ que \in Seq(Items)
      /\ turns = [turns EXCEPT ![t] = turns[t]]
      /\ Tended(t, turns[t], que, streams)
  <2>1. streams[c].state # "away" BY <1>1
  <2> QED BY <2>1, <1>0, Begun
<1>3. turns[t].status = "running" => streams[c].state \in {"replaying", "live"}
  BY <1>0, <1>1 DEF TurnsInv, StreamsPlaced
<1>4. /\ w \in StreamState /\ w.rest = <<>> /\ w.turn = t /\ w.state = "gone" /\ w.queue = streams[c].queue
      /\ streams[c].state \in {"replaying", "live"} => Given(streams[c]) \subseteq Given(w)
  <2> DEFINE first == SubSeq(given, 1, k)
             rest == ToSet(SubSeq(given, k + 1, Len(given)))
  <2>1. /\ <<>> \in Seq(TurnEvents) /\ first \in Seq(TurnEvents) /\ rest \subseteq TurnEvents
        /\ ToSet(given) \subseteq ToSet(first) \cup rest
    <3>1. given \in Seq(TurnEvents) BY <1>2 DEF StreamState
    <3> HIDE DEF given
    <3> QED BY <3>1, BrokenOff
  <2> HIDE DEF first, rest
  <2>2. w = [streams[c] EXCEPT !.state = "gone", !.rest = <<>>, !.yielded = first, !.lost = rest]
    BY DEF first, rest
  <2> HIDE DEF w
  <2>3. w \in StreamState /\ w.rest = <<>> /\ w.turn = t /\ w.state = "gone" /\ w.queue = streams[c].queue
        /\ w.yielded = first /\ w.lost = rest
    BY <2>1, <2>2, <1>0, <1>2 DEF StreamState, StreamStates
  <2>4. streams[c].state \in {"replaying", "live"} => streams[c].lost = {}
    BY <1>2 DEF TurnsInv, StreamsPlaced
  <2> QED BY <2>1, <2>3, <2>4 DEF Given
<1> HIDE DEF w, que
<1>5. streams'[c] = w /\ \A d \in Connections \ {c} : streams'[d] = streams[d] BY <1>1, <1>2
<1>6. StreamStep(c, t, r, w) BY <1>1, <1>2, <1>4 DEF StreamStep, SameTurn
<1>7. Tended(t, r, que, streams')
  <2>1. OpenOf(t, streams') \subseteq OpenOf(t, streams) /\ c \notin OpenOf(t, streams') BY <1>4, <1>5 DEF OpenOf
  <2>2. OneListener(t, r, streams) => OneListener(t, r, streams')
    <3>1. \A d \in OpenOf(t, streams') : streams'[d] = streams[d] BY <2>1, <1>5 DEF OpenOf
    <3> QED BY <3>1, <2>1 DEF OneListener
  <2>3. EndComes(t, r, que, streams) => EndComes(t, r, que, streams') BY <2>1 DEF EndComes
  <2>4. ASSUME ~ turns[t].shared, turns[t].status = "running" PROVE EventsKept(t, r, que, streams')
    <3>1. streams[c].state \in {"replaying", "live"} BY <2>4, <1>3
    <3>2. OpenOf(t, streams) = {c} /\ EventsKept(t, turns[t], que, streams) /\ Sliced(c, turns[t], que, streams)
      BY <3>1, <2>4, <1>0, OnlyOpen DEF que
    <3>3. ASSUME NEW e \in 1..r.produced PROVE Has(e, t, r, que, streams')
      <4>1. Has(e, t, turns[t], que, streams) BY <3>2, <3>3 DEF EventsKept
      <4>2. ASSUME e \in Given(streams[c]) \cup ToSet(streams[c].rest) PROVE Has(e, t, r, que, streams')
        <5>1. CASE e \in Given(streams[c]) BY <5>1, <3>1, <1>4, <1>5 DEF Has
        <5>2. CASE e \in ToSet(streams[c].rest)
          <6> DEFINE rest == streams[c].rest
          <6>1. rest \in Seq(TurnEvents) /\ was \in Seq(TurnEvents) /\ n \in Nat BY <1>2 DEF StreamState, TurnState
          <6>2. PICK i \in DOMAIN rest : rest[i] = e BY <5>2 DEF ToSet
          <6>3. rest[i] = was[n + i] /\ n + Len(rest) <= Len(was) BY <3>2 DEF Sliced
          <6>4. n + i \in DOMAIN was /\ n < n + i
            <7>1. DOMAIN rest = 1..Len(rest) /\ Len(rest) \in Nat /\ DOMAIN was = 1..Len(was) /\ Len(was) \in Nat
              BY <6>1
            <7> HIDE DEF rest, was, n
            <7> QED BY <7>1, <6>1, <6>2, <6>3
          <6> QED BY <6>2, <6>3, <6>4 DEF Has
        <5> QED BY <4>2, <5>1, <5>2
      <4>3. e \in ToSet(que) => Has(e, t, r, que, streams') BY DEF Has
      <4>4. \A p \in DOMAIN was : n < p /\ was[p] = e => Has(e, t, r, que, streams') BY DEF Has
      <4> QED BY <4>1, <4>2, <4>3, <4>4, <1>5, HasAfter
    <3>4. OpenOf(t, streams') = {} BY <3>2, <2>1
    <3> QED BY <3>2, <3>3, <3>4 DEF EventsKept
  <2> QED BY <2>2, <2>3, <2>4, <1>2 DEF Tended
<1>8. turnQueues' = turnQueues /\ turnQueues'[turns[t].queue] = que BY <1>1 DEF que
<1> QED BY <1>0, <1>2, <1>6, <1>7, <1>8, StreamKeeps

-------------------------------------------------------------------------------
(* The endpoint *)

LEMMA FreshIs ==
    ASSUME TurnsInv, NEW q \in Queues, FreshQueue(q)
    PROVE  /\ \A t \in Turns : turns[t].queue \in Nat /\ turns[t].queue < q
           /\ \A c \in Connections : streams[c].queue \in Nat /\ streams[c].queue < q
           /\ turnQueues[q] = <<>> /\ q # NoQueue
<1> DEFINE S == {NoQueue} \cup {turns[t].queue : t \in Turns} \cup {streams[c].queue : c \in Connections}
           b == MaxTurns + Cardinality(Connections)
<1>1. turns \in [Turns -> TurnState] /\ streams \in [Connections -> StreamState] BY TurnsTyped DEF TurnsInv
<1>2. (\A t \in Turns : turns[t].queue \in Queues \cup {NoQueue})
      /\ (\A c \in Connections : streams[c].queue \in Queues \cup {NoQueue})
  BY <1>1 DEF TurnState, StreamState
<1>3. b \in Nat /\ Queues \cup {NoQueue} \subseteq 0..b BY TurnNumbers DEF NoQueue
<1>4. S \in SUBSET (0..b) /\ S # {} BY <1>2, <1>3
<1>5. q = 1 + Max(S) BY DEF FreshQueue
<1>6. (\A t \in Turns : turns[t].queue \in S) /\ (\A c \in Connections : streams[c].queue \in S) OBVIOUS
<1> HIDE DEF S
<1>7. Max(S) \in S /\ \A y \in S : y <= Max(S) BY <1>3, <1>4, MaxIs
<1>8. \A y \in S : y \in Nat /\ y < q
  <2>1. S \subseteq Nat BY <1>3, <1>4
  <2> DEFINE m == Max(S)
  <2>2. m \in Nat /\ q = 1 + m /\ \A y \in S : y <= m BY <2>1, <1>5, <1>7
  <2> HIDE DEF m
  <2> QED BY <2>1, <2>2
<1>9. \A t \in Turns : turns[t].queue < q BY <1>6, <1>8
<1>10. turnQueues[q] = <<>> BY <1>9 DEF TurnsInv, QueuesPlaced
<1> QED BY <1>6, <1>8, <1>10, TurnNumbers

\* Connection c, which was not used yet, gets to state w, for turn t.
LEMMA ChatKeeps ==
    ASSUME TurnsInv, NEW c \in Connections, streams[c].state = "away", NEW t \in Turns, NEW w \in StreamState,
           NEW tab \in [Turns -> TurnState], NEW qs \in [Queues -> Seq(Items)],
           NEW act \in [Sessions -> Turns \cup {NoTurn}],
           turns' = tab, streams' = [streams EXCEPT ![c] = w], turnQueues' = qs, activeTurn' = act,
           w.turn = t, Given(w) = {},
           \/ w.state \in {"replaying", "live"} /\ w.queue = tab[t].queue
           \/ w.state = "whole" /\ w.queue = NoQueue /\ tab[t].status = "over",
           w.rest # <<>> => w.state \in {"replaying", "whole"},
           \A u \in Turns : TurnPlaced(tab[u]), tab[t].status # "unused",
           \A u \in Turns \ {t} : tab[u].status = turns[u].status /\ tab[u].queue = turns[u].queue,
           turns[t].status \in {tab[t].status, "unused"},
           tab[t].queue = turns[t].queue \/ (tab[t].queue \in Queues /\ FreshQueue(tab[t].queue)),
           \A q \in Queues : qs[q] \in {turnQueues[q], <<>>},
           SessionsPlaced',
           \A u \in Turns : Tended(u, tab[u], qs[tab[u].queue], streams')
    PROVE  TurnsInv'
<1>1. TurnsTypeOK /\ StreamsPlaced /\ TurnsPlaced /\ QueuesPlaced BY DEF TurnsInv
<1>2. turns \in [Turns -> TurnState] /\ streams \in [Connections -> StreamState] BY <1>1, TurnsTyped
<1>3. /\ streams' \in [Connections -> StreamState] /\ streams'[c] = w
      /\ \A d \in Connections \ {c} : streams'[d] = streams[d]
  BY <1>2
<1>4. TurnsTypeOK' BY <1>3, TurnsTyped
<1>5. StreamsPlaced'
  <2> SUFFICES ASSUME NEW d \in Connections
               PROVE  /\ streams'[d].state = "away" => /\ streams'[d].turn = NoTurn /\ streams'[d].queue = NoQueue
                                                       /\ Given(streams'[d]) = {}
                      /\ streams'[d].state # "away" => streams'[d].turn \in Turns /\ tab[streams'[d].turn].status # "unused"
                      /\ streams'[d].state \in {"replaying", "live"} => streams'[d].queue # NoQueue
                      /\ streams'[d].rest # <<>> => streams'[d].state \in {"replaying", "whole"}
                      /\ streams'[d].state # "gone" => streams'[d].lost = {}
                      /\ streams'[d].state = "whole" =>
                            Given(streams'[d]) = {} /\ tab[streams'[d].turn].status = "over"
    BY DEF StreamsPlaced
  <2>1. CASE d = c
    <3>1. tab[t].queue # NoQueue BY DEF TurnPlaced
    <3>2. w.lost = {} BY DEF Given
    <3> QED BY <3>1, <3>2, <2>1, <1>3
  <2>2. CASE d # c
    <3>1. streams'[d] = streams[d] BY <2>2, <1>3
    <3>2. streams[d].state # "away" => streams[d].turn \in Turns /\ turns[streams[d].turn].status # "unused"
      BY <1>1 DEF StreamsPlaced
    <3>3. \A u \in Turns : turns[u].status # "unused" => tab[u].status = turns[u].status OBVIOUS
    <3>4. streams[d].state = "whole" =>
             streams[d].state # "away" /\ Given(streams[d]) = {} /\ turns[streams[d].turn].status = "over"
      BY <1>1 DEF StreamsPlaced
    <3>5. streams[d].state = "whole" => Given(streams[d]) = {} /\ tab[streams[d].turn].status = "over"
      BY <3>2, <3>3, <3>4
    <3>6. streams[d].state # "away" => streams[d].turn \in Turns /\ tab[streams[d].turn].status # "unused"
      BY <3>2, <3>3
    <3> QED BY <3>1, <3>5, <3>6, <1>1 DEF StreamsPlaced
  <2> QED BY <2>1, <2>2
<1>6. TurnsPlaced' BY DEF TurnsPlaced
<1>7. QueuesPlaced'
  <2>1. CASE tab[t].queue = turns[t].queue
    <3>1. \A u \in Turns : tab[u].queue = turns[u].queue BY <2>1
    <3>2. ASSUME NEW d \in Connections, NEW u \in Turns, tab[u].queue # NoQueue, streams'[d].queue = tab[u].queue
          PROVE  streams'[d].turn = u
      <4>1. CASE d # c BY <4>1, <3>1, <3>2, <1>1, <1>3 DEF QueuesPlaced
      <4>2. CASE d = c
        <5>1. w.queue = tab[t].queue /\ tab[u].queue = tab[t].queue BY <4>2, <3>2, <1>3
        <5> QED BY <5>1, <4>2, <3>1, <3>2, <1>1, <1>3 DEF QueuesPlaced
      <4> QED BY <4>1, <4>2
    <3>3. \A q \in Queues : (\A u \in Turns : tab[u].queue < q) => qs[q] = <<>>
      BY <3>1, <1>1 DEF QueuesPlaced
    <3> QED BY <3>1, <3>2, <3>3, <1>1 DEF QueuesPlaced
  <2>2. CASE tab[t].queue \in Queues /\ FreshQueue(tab[t].queue)
    <3> DEFINE f == tab[t].queue
    <3>1. /\ \A u \in Turns : turns[u].queue \in Nat /\ turns[u].queue < f
          /\ \A d \in Connections : streams[d].queue \in Nat /\ streams[d].queue < f
          /\ f \in Nat
      BY <2>2, FreshIs, TurnNumbers
    <3>2. \A u \in Turns \ {t} : tab[u].queue = turns[u].queue /\ tab[u].queue # f BY <3>1
    <3>3. ASSUME NEW u \in Turns, NEW v \in Turns, u # v, tab[u].queue # NoQueue PROVE tab[v].queue # tab[u].queue
      <4>1. CASE u = t BY <4>1, <3>2, <3>3
      <4>2. CASE v = t BY <4>2, <3>2, <3>3
      <4>3. CASE u # t /\ v # t BY <4>3, <3>2, <3>3, <1>1 DEF QueuesPlaced
      <4> QED BY <4>1, <4>2, <4>3
    <3>4. ASSUME NEW d \in Connections, NEW u \in Turns, tab[u].queue # NoQueue, streams'[d].queue = tab[u].queue
          PROVE  streams'[d].turn = u
      <4>1. CASE d # c /\ u = t
        <5>1. streams[d].queue = f BY <4>1, <3>4, <1>3
        <5> QED BY <5>1, <3>1
      <4>2. CASE d # c /\ u # t BY <4>2, <3>2, <3>4, <1>1, <1>3 DEF QueuesPlaced
      <4>3. CASE d = c
        <5>1. w.queue = f BY <4>3, <3>4, <1>3
        <5>2. u = t BY <5>1, <4>3, <3>2, <3>4, <1>3
        <5> QED BY <5>2, <4>3, <1>3
      <4> QED BY <4>1, <4>2, <4>3
    <3>5. ASSUME NEW q \in Queues, \A u \in Turns : tab[u].queue < q PROVE qs[q] = <<>>
      <4>1. q \in Nat /\ f < q BY <3>5, TurnNumbers
      <4>2. \A u \in Turns : turns[u].queue < q BY <4>1, <3>1
      <4>3. turnQueues[q] = <<>> BY <4>2, <1>1 DEF QueuesPlaced
      <4> QED BY <4>3
    <3> QED BY <3>3, <3>4, <3>5 DEF QueuesPlaced
  <2> QED BY <2>1, <2>2
<1>8. AllTended' BY DEF AllTended
<1> QED BY <1>4, <1>5, <1>6, <1>7, <1>8 DEF TurnsInv

\* A connection not used yet.
LEMMA NotYetUsed ==
    ASSUME TurnsInv, NEW c \in Connections, streams[c].state = "away"
    PROVE  /\ streams \in [Connections -> StreamState] /\ turns \in [Turns -> TurnState]
           /\ turnQueues \in [Queues -> Seq(Items)] /\ activeTurn \in [Sessions -> Turns \cup {NoTurn}]
           /\ streams[c] \in StreamState /\ streams[c].turn = NoTurn /\ streams[c].queue = NoQueue
           /\ Given(streams[c]) = {} /\ streams[c].rest = <<>>
           /\ streams = [streams EXCEPT ![c] = streams[c]]
<1>1. /\ streams \in [Connections -> StreamState] /\ turns \in [Turns -> TurnState]
      /\ turnQueues \in [Queues -> Seq(Items)] /\ activeTurn \in [Sessions -> Turns \cup {NoTurn}]
  BY TurnsTyped DEF TurnsInv
<1>2. /\ streams[c].turn = NoTurn /\ streams[c].queue = NoQueue
      /\ Given(streams[c]) = {} /\ streams[c].rest = <<>>
  BY DEF TurnsInv, StreamsPlaced
<1> QED BY <1>1, <1>2

\* What is remembered of the sessions.
LEMMA TurnRemembered ==
    ASSUME TurnsInv, NEW stale \in SUBSET EndedTurns
    PROVE  /\ Forgotten(stale) \in [Sessions -> Turns \cup {NoTurn}]
           /\ \A s \in Sessions : Forgotten(stale)[s] # NoTurn =>
                 /\ Forgotten(stale)[s] = activeTurn[s] /\ Forgotten(stale)[s] \in Turns
                 /\ turns[Forgotten(stale)[s]].status # "unused"
                 /\ turns[Forgotten(stale)[s]].status = "running" =>
                       turns[Forgotten(stale)[s]].task \in {"created", "running"}
           /\ \A s, u \in Sessions : s # u /\ Forgotten(stale)[s] # NoTurn => Forgotten(stale)[u] # Forgotten(stale)[s]
<1>1. activeTurn \in [Sessions -> Turns \cup {NoTurn}] BY TurnsTyped DEF TurnsInv
<1>2. /\ Forgotten(stale) \in [Sessions -> Turns \cup {NoTurn}]
      /\ \A s \in Sessions : Forgotten(stale)[s] \in {activeTurn[s], NoTurn}
  BY <1>1 DEF Forgotten
<1> QED BY <1>1, <1>2 DEF TurnsInv, SessionsPlaced

LEMMA RememberedPlaced ==
    ASSUME TurnsInv, NEW stale \in SUBSET EndedTurns, activeTurn' = Forgotten(stale),
           \A u \in Turns : turns'[u].status = turns[u].status /\ turns'[u].task = turns[u].task
    PROVE  SessionsPlaced'
<1>1. \A s \in Sessions : Forgotten(stale)[s] # NoTurn =>
                 /\ Forgotten(stale)[s] \in Turns
                 /\ turns[Forgotten(stale)[s]].status # "unused"
                 /\ turns[Forgotten(stale)[s]].status = "running" =>
                       turns[Forgotten(stale)[s]].task \in {"created", "running"}
  BY TurnRemembered
<1>2. \A s, u \in Sessions : s # u /\ Forgotten(stale)[s] # NoTurn => Forgotten(stale)[u] # Forgotten(stale)[s]
  BY TurnRemembered
<1> HIDE DEF Forgotten
<1> QED BY <1>1, <1>2 DEF SessionsPlaced

LEMMA ReplayWholeKeeps ==
    ASSUME TurnsInv, NEW s \in Sessions, NEW c \in Connections, streams[c].state = "away",
           NEW stale \in SUBSET EndedTurns, ReplayWhole(s, c, stale)
    PROVE  TurnsInv'
<1>0. PICK t : t = Forgotten(stale)[s] OBVIOUS
<1> DEFINE w == [streams[c] EXCEPT !.state = "whole", !.turn = t, !.rest = turns[t].collected]
<1>1. /\ t # NoTurn /\ turns[t].status # "running" /\ streams' = [streams EXCEPT ![c] = w]
      /\ activeTurn' = Forgotten(stale) /\ UNCHANGED <<turns, turnQueues>>
  BY <1>0 DEF ReplayWhole
<1>2. /\ streams \in [Connections -> StreamState] /\ turns \in [Turns -> TurnState]
      /\ turnQueues \in [Queues -> Seq(Items)]
      /\ streams[c] \in StreamState /\ streams[c].turn = NoTurn /\ streams[c].queue = NoQueue
      /\ Given(streams[c]) = {}
  BY NotYetUsed
<1>3. t \in Turns /\ turns[t].status # "unused" /\ Forgotten(stale) \in [Sessions -> Turns \cup {NoTurn}]
  BY <1>0, <1>1, TurnRemembered
<1>4. turns[t] \in TurnState /\ turns[t].status = "over" BY <1>1, <1>2, <1>3 DEF TurnState
<1>5. /\ w \in StreamState /\ w.state = "whole" /\ w.turn = t /\ w.queue = NoQueue /\ Given(w) = {}
  <2>3. turns[t].collected \in Seq(TurnEvents) BY <1>4 DEF TurnState
  <2>1. w.yielded = streams[c].yielded /\ w.lost = streams[c].lost BY <1>2 DEF StreamState
  <2>2. Given(w) = Given(streams[c]) BY <2>1 DEF Given
  <2> QED BY <2>2, <2>3, <1>2, <1>3 DEF StreamState, StreamStates
<1> HIDE DEF w
<1>6. streams'[c] = w /\ \A d \in Connections \ {c} : streams'[d] = streams[d] BY <1>1, <1>2
<1>7. SessionsPlaced' BY <1>1, RememberedPlaced
<1>8. \A u \in Turns : Tended(u, turns[u], turnQueues[turns[u].queue], streams')
  <2>1. ASSUME NEW u \in Turns \ {t} PROVE Tended(u, turns[u], turnQueues[turns[u].queue], streams')
    <3>1. u # NoTurn BY TurnNumbers
    <3>2. \A d \in Connections : streams[d].turn = u \/ streams'[d].turn = u => streams'[d] = streams[d]
      BY <3>1, <1>2, <1>5, <1>6
    <3>3. Tended(u, turns[u], turnQueues[turns[u].queue], streams) BY DEF TurnsInv, AllTended
    <3> QED BY <3>2, <3>3, OthersUnnoticed
  <2>2. Tended(t, turns[t], turnQueues[turns[t].queue], streams')
    <3> DEFINE que == turnQueues[turns[t].queue]
               r == turns[t]
    <3>1. Tended(t, r, que, streams) BY <1>3 DEF TurnsInv, AllTended
    <3>2. OpenOf(t, streams') = OpenOf(t, streams) /\ c \notin OpenOf(t, streams) BY <1>5, <1>6 DEF OpenOf
    <3>3. \A d \in OpenOf(t, streams) : streams'[d] = streams[d] BY <3>2, <1>6 DEF OpenOf
    <3> HIDE DEF que
    <3>4. OneListener(t, r, streams) => OneListener(t, r, streams') BY <3>2, <3>3 DEF OneListener
    <3>5. EndComes(t, r, que, streams) => EndComes(t, r, que, streams') BY <3>2 DEF EndComes
    <3>6. Tended(t, r, que, streams') BY <3>1, <3>4, <3>5, <1>4 DEF Tended
    <3> QED BY <3>6 DEF que
  <2> QED BY <2>1, <2>2
<1>9. \A u \in Turns : TurnPlaced(turns[u]) BY DEF TurnsInv, TurnsPlaced
<1>10. turns' = turns /\ turnQueues' = turnQueues BY <1>1
<1> QED BY <1>1, <1>2, <1>3, <1>4, <1>5, <1>7, <1>8, <1>9, <1>10, ChatKeeps

LEMMA ResumeKeeps ==
    ASSUME TurnsInv, NEW s \in Sessions, NEW c \in Connections, streams[c].state = "away",
           NEW stale \in SUBSET EndedTurns, Resume(s, c, stale)
    PROVE  TurnsInv'
<1>0. PICK t : t = Forgotten(stale)[s] OBVIOUS
<1> DEFINE was == turns[t].collected
           old == turnQueues[turns[t].queue]
           rest == Without(turnQueues[turns[t].queue], {EndMark})
           now == turns[t].collected \o Without(turnQueues[turns[t].queue], {EndMark})
           n == turns[t].cursor
           slice == SubSeq(now, n + 1, Len(now))
           qs == [turnQueues EXCEPT ![turns[t].queue] = <<>>]
<1>1. PICK q \in Queues :
         /\ FreshQueue(q) /\ t # NoTurn /\ turns[t].status = "running"
         /\ turns' = [turns EXCEPT ![t].queue = q, ![t].collected = now,
                                   ![t].shared = @ \/ OpenStreams(t) # {}]
         /\ streams' = [streams EXCEPT ![c].state = "replaying", ![c].turn = t, ![c].queue = q,
                                       ![c].at = n, ![c].rest = slice]
         /\ turnQueues' = qs /\ activeTurn' = Forgotten(stale)
  BY <1>0 DEF Resume
<1> DEFINE r == [turns[t] EXCEPT !.queue = q, !.collected = now, !.shared = turns[t].shared \/ OpenStreams(t) # {}]
           w == [streams[c] EXCEPT !.state = "replaying", !.turn = t, !.queue = q, !.at = n, !.rest = slice]
           tab == [turns EXCEPT ![t] = r]
<1>2. /\ streams \in [Connections -> StreamState] /\ turns \in [Turns -> TurnState]
      /\ turnQueues \in [Queues -> Seq(Items)]
      /\ streams[c] \in StreamState /\ streams[c].turn = NoTurn /\ Given(streams[c]) = {}
  BY NotYetUsed
<1>3. /\ t \in Turns /\ Forgotten(stale) \in [Sessions -> Turns \cup {NoTurn}]
      /\ turns[t].task \in {"created", "running"}
  BY <1>0, <1>1, TurnRemembered
<1>4. /\ turns[t] \in TurnState /\ turns[t].queue \in Queues /\ TurnPlaced(turns[t])
      /\ Tended(t, turns[t], old, streams) /\ old \in Seq(Items)
  <2>1. turns[t].task \in {"created", "running", "cancelling"} BY <1>3
  <2> QED BY <2>1, <1>3, InUse
<1>5. was \in Seq(TurnEvents) /\ n \in Nat BY <1>4 DEF TurnState
<1>6. rest \in Seq(TurnEvents) /\ ToSet(rest) = ToSet(old) \ {EndMark}
  <2> HIDE DEF old
  <2>1. Without(old, {EndMark}) \in Seq(Items) /\ ToSet(Without(old, {EndMark})) = ToSet(old) \ {EndMark}
    BY <1>4, WithoutProperties
  <2>2. ToSet(old) \subseteq Items BY <1>4 DEF ToSet
  <2>3. ToSet(Without(old, {EndMark})) \subseteq TurnEvents BY <2>1, <2>2 DEF Items
  <2>4. Without(old, {EndMark}) \in Seq(TurnEvents) BY <2>1, <2>3, Fewer
  <2> QED BY <2>1, <2>4 DEF old
<1>7. /\ now \in Seq(TurnEvents) /\ Len(now) = Len(was) + Len(rest)
      /\ DOMAIN was = 1..Len(was) /\ Len(was) \in Nat /\ Len(rest) \in Nat
      /\ \A i \in DOMAIN was : i \in DOMAIN now /\ now[i] = was[i]
      /\ \A x \in ToSet(rest) : \E i \in DOMAIN now : Len(was) < i /\ now[i] = x
  <2> now = was \o rest OBVIOUS
  <2> HIDE DEF was, rest, now
  <2> QED BY <1>5, <1>6, Joined
<1> HIDE DEF now
<1>25. Len(now) \in Nat /\ DOMAIN now = 1..Len(now)
  <2>1. now \in Seq(TurnEvents) BY <1>7
  <2> QED BY <2>1
<1>8. /\ slice \in Seq(TurnEvents) /\ (n <= Len(now) => Len(slice) = Len(now) - n)
      /\ \A m \in DOMAIN slice : slice[m] = now[n + m]
  <2>1. n \in Nat /\ now \in Seq(TurnEvents) BY <1>5, <1>7
  <2> HIDE DEF n
  <2> QED BY <2>1, After
<1> HIDE DEF slice
<1>9. /\ r \in TurnState /\ r.status = "running" /\ r.task = turns[t].task /\ r.queue = q /\ r.collected = now
      /\ r.produced = turns[t].produced /\ r.cursor = n /\ (r.shared <=> turns[t].shared \/ OpenStreams(t) # {})
  BY <1>1, <1>4, <1>7 DEF TurnState
<1>10. /\ w \in StreamState /\ w.state = "replaying" /\ w.turn = t /\ w.queue = q /\ w.at = n /\ w.rest = slice
       /\ Given(w) = {}
  <2>1. w.yielded = streams[c].yielded /\ w.lost = streams[c].lost BY <1>2 DEF StreamState
  <2>2. Given(w) = Given(streams[c]) BY <2>1 DEF Given
  <2> QED BY <2>2, <1>2, <1>3, <1>5, <1>8 DEF StreamState, StreamStates
<1>11. turns' = tab /\ streams' = [streams EXCEPT ![c] = w]
  BY <1>1
<1> HIDE DEF r, w
<1>12. /\ tab \in [Turns -> TurnState] /\ tab[t] = r /\ \A u \in Turns \ {t} : tab[u] = turns[u]
  BY <1>2, <1>3, <1>9
<1> HIDE DEF tab
<1>13. /\ qs \in [Queues -> Seq(Items)] /\ \A v \in Queues : qs[v] \in {turnQueues[v], <<>>}
       /\ \A v \in Queues : v # turns[t].queue => qs[v] = turnQueues[v]
  <2>1. <<>> \in Seq(Items) OBVIOUS
  <2> QED BY <2>1, <1>2, <1>4
<1>14. turnQueues[q] = <<>> /\ q # NoQueue BY <1>1, FreshIs
<1>15. qs[q] = <<>> BY <1>13, <1>14
<1> HIDE DEF qs
<1>16. streams'[c] = w /\ \A d \in Connections \ {c} : streams'[d] = streams[d] BY <1>2, <1>11
<1>17. SessionsPlaced'
  <2>1. \A u \in Turns : turns'[u].status = turns[u].status /\ turns'[u].task = turns[u].task
    BY <1>1, <1>9, <1>11, <1>12
  <2> QED BY <2>1, <1>1, RememberedPlaced
<1>18. Tended(t, r, <<>>, streams')
  <2> SUFFICES ASSUME ~ turns[t].shared, OpenStreams(t) = {}
               PROVE  /\ OneListener(t, r, streams') /\ EndComes(t, r, <<>>, streams')
                      /\ EventsKept(t, r, <<>>, streams')
    BY <1>9 DEF Tended
  <2>1. OpenOf(t, streams) = {} BY DEF OpenOf, OpenStreams
  <2>2. OpenOf(t, streams') = {c} BY <2>1, <1>10, <1>16 DEF OpenOf
  <2>3. EventsKept(t, turns[t], old, streams) BY <1>1, <1>4 DEF Tended
  <2>4. OneListener(t, r, streams') BY <2>2, <1>9, <1>10, <1>16 DEF OneListener
  <2>5. EndComes(t, r, <<>>, streams')
    <3>1. r.task # "over" BY <1>3, <1>9
    <3> QED BY <3>1 DEF EndComes
  <2>6. n <= Len(was) /\ n <= Len(now)
    <3>1. n <= Len(was) BY <2>3 DEF EventsKept
    <3> HIDE DEF n, was, rest
    <3> QED BY <3>1, <1>5, <1>7
  <2>7. Sliced(c, r, <<>>, streams')
    <3>1. n + Len(slice) = Len(now)
      <4>1. Len(now) \in Nat /\ n \in Nat BY <1>5, <1>25
      <4>2. Len(slice) = Len(now) - n BY <2>6, <1>5, <1>25, <1>8
      <4> HIDE DEF n, now, slice
      <4> QED BY <4>1, <4>2
    <3>2. (\A p \in DOMAIN now : ~ (Len(now) < p)) /\ Len(now) <= Len(now) BY <1>25
    <3> HIDE DEF n
    <3> QED BY <3>1, <3>2, <1>8, <1>9, <1>10, <1>16 DEF Sliced
  <2>8. ASSUME NEW e \in 1..r.produced PROVE Has(e, t, r, <<>>, streams')
    <3>1. Has(e, t, turns[t], old, streams) BY <2>3, <2>8, <1>9 DEF EventsKept
    <3>2. streams[c].turn # t BY <1>1, <1>2
    <3>3. ASSUME e \in ToSet(old) PROVE Has(e, t, r, <<>>, streams')
      <4>1. e # EndMark BY DEF EndMark
      <4>2. e \in ToSet(rest) BY <4>1, <3>3, <1>6
      <4>3. PICK i \in DOMAIN now : Len(was) < i /\ now[i] = e BY <4>2, <1>7
      <4>4. n < i
        <5>1. i \in Nat BY <1>7
        <5> HIDE DEF n, was
        <5> QED BY <5>1, <4>3, <2>6, <1>5, <1>7
      <4> QED BY <4>3, <4>4, <1>9 DEF Has
    <3>4. ASSUME NEW p \in DOMAIN was, n < p, was[p] = e PROVE Has(e, t, r, <<>>, streams')
      <4>1. p \in DOMAIN now /\ now[p] = e BY <3>4, <1>7
      <4> QED BY <4>1, <3>4, <1>9 DEF Has
    <3> QED BY <3>1, <3>2, <3>3, <3>4, <1>16, HasAfter
  <2>9. r.cursor <= Len(r.collected) BY <2>6, <1>9
  <2> QED BY <2>2, <2>4, <2>5, <2>7, <2>8, <2>9 DEF EventsKept
<1>19. \A u \in Turns : Tended(u, tab[u], qs[tab[u].queue], streams')
  <2>1. ASSUME NEW u \in Turns \ {t} PROVE Tended(u, tab[u], qs[tab[u].queue], streams')
    <3>1. \A v \in Turns \ {t} : turns[v].queue # NoQueue => turnQueues'[turns[v].queue] = turnQueues[turns[v].queue]
      <4> SUFFICES ASSUME NEW v \in Turns \ {t}, turns[v].queue # NoQueue
                   PROVE  qs[turns[v].queue] = turnQueues[turns[v].queue]
        BY <1>1
      <4>1. turns[v] \in TurnState BY <1>2
      <4>2. turns[v].queue \in Queues BY <4>1 DEF TurnState
      <4>3. turns[v].queue # turns[t].queue BY <1>3 DEF TurnsInv, QueuesPlaced
      <4> QED BY <4>2, <4>3, <1>13
    <3>2. \A d \in Connections : \/ streams'[d] = streams[d]
                                 \/ streams[d].turn \in {t, NoTurn} /\ streams'[d].turn = t
      BY <1>2, <1>10, <1>16
    <3>3. \A v \in Turns \ {t} : turns'[v] = turns[v] BY <1>11, <1>12
    <3>4. Tended(u, turns'[u], turnQueues'[turns'[u].queue], streams') BY <3>1, <3>2, <3>3, <1>3, OthersTended
    <3> QED BY <3>4, <1>1, <1>11
  <2>2. Tended(t, tab[t], qs[tab[t].queue], streams') BY <1>9, <1>12, <1>15, <1>18
  <2> QED BY <2>1, <2>2
<1>20. \A u \in Turns : TurnPlaced(tab[u])
  <2>1. TurnPlaced(r) BY <1>1, <1>4, <1>9, <1>14 DEF TurnPlaced
  <2> QED BY <2>1, <1>12 DEF TurnsInv, TurnsPlaced
<1>21. /\ turnQueues' = qs /\ activeTurn' = Forgotten(stale) BY <1>1
<1>22. /\ tab[t].status # "unused" /\ turns[t].status \in {tab[t].status, "unused"}
       /\ tab[t].queue \in Queues /\ FreshQueue(tab[t].queue) /\ w.queue = tab[t].queue
  BY <1>1, <1>9, <1>10, <1>12
<1>23. \A u \in Turns \ {t} : tab[u].status = turns[u].status /\ tab[u].queue = turns[u].queue BY <1>12
<1>24. w.state \in {"replaying", "live"} /\ w.state \in {"replaying", "whole"} BY <1>10
<1> HIDE DEF was, old, rest, n
<1> QED BY <1>3, <1>10, <1>11, <1>12, <1>13, <1>17, <1>19, <1>20, <1>21, <1>22, <1>23, <1>24, ChatKeeps

LEMMA NewTurnUnused ==
    ASSUME TurnsInv, NEW t \in Turns, t = 1 + Max({NoTurn} \cup {u \in Turns : turns[u].status # "unused"})
    PROVE  turns[t].status = "unused"
<1> DEFINE S == {NoTurn} \cup {u \in Turns : turns[u].status # "unused"}
           m == Max(S)
<1>1. S \in SUBSET (0..MaxTurns) /\ S # {} /\ MaxTurns \in Nat
  <2>1. MaxTurns \in Nat /\ Turns \subseteq 0..MaxTurns BY TurnNumbers
  <2>2. NoTurn \in 0..MaxTurns BY <2>1 DEF NoTurn
  <2> QED BY <2>1, <2>2
<1>2. t = 1 + m OBVIOUS
<1>3. turns[t].status # "unused" => t \in S OBVIOUS
<1> HIDE DEF S
<1>4. m \in S /\ \A y \in S : y <= m BY <1>1, MaxIs
<1>5. m \in Nat
  <2>1. m \in 0..MaxTurns BY <1>1, <1>4
  <2> HIDE DEF m
  <2> QED BY <2>1, <1>1
<1> HIDE DEF m
<1>6. t \notin S BY <1>2, <1>4, <1>5
<1> QED BY <1>3, <1>6

LEMMA StartTurnKeeps ==
    ASSUME TurnsInv, NEW s \in Sessions, NEW c \in Connections, streams[c].state = "away",
           NEW stale \in SUBSET EndedTurns, StartTurn(s, c, stale)
    PROVE  TurnsInv'
<1>0. PICK t, old : /\ t = 1 + Max({NoTurn} \cup {u \in Turns : turns[u].status # "unused"})
                    /\ old = Forgotten(stale)[s]
  OBVIOUS
<1> DEFINE Left(u) == IF u = old /\ turns[u].task = "created" THEN [turns[u] EXCEPT !.task = "neverRan"]
                      ELSE IF u = old /\ turns[u].task = "running" THEN [turns[u] EXCEPT !.task = "cancelling"]
                      ELSE turns[u]
           act == [Forgotten(stale) EXCEPT ![s] = t]
<1>1. PICK q \in Queues :
         /\ FreshQueue(q) /\ t \in Turns
         /\ turns' = [u \in Turns |->
               IF u = t THEN [UnusedTurn EXCEPT !.status = "running", !.task = "created", !.queue = q] ELSE Left(u)]
         /\ streams' = [streams EXCEPT ![c].state = "live", ![c].turn = t, ![c].queue = q]
         /\ turnQueues' = turnQueues /\ activeTurn' = act
  BY <1>0 DEF StartTurn
<1> DEFINE r == [UnusedTurn EXCEPT !.status = "running", !.task = "created", !.queue = q]
           w == [streams[c] EXCEPT !.state = "live", !.turn = t, !.queue = q]
           tab == [u \in Turns |-> IF u = t THEN r ELSE Left(u)]
<1>2. /\ streams \in [Connections -> StreamState] /\ turns \in [Turns -> TurnState]
      /\ turnQueues \in [Queues -> Seq(Items)]
      /\ streams[c] \in StreamState /\ streams[c].turn = NoTurn /\ Given(streams[c]) = {}
      /\ streams[c].rest = <<>>
  BY NotYetUsed
<1>3. turns[t].status = "unused" BY <1>0, <1>1, NewTurnUnused
<1>4. turnQueues[q] = <<>> /\ q # NoQueue BY <1>1, FreshIs
<1>5. /\ r \in TurnState /\ r.status = "running" /\ r.task = "created" /\ r.queue = q /\ r.collected = <<>>
      /\ r.produced = 0 /\ r.cursor = 0 /\ r.shared = FALSE
  <2>1. 0 \in 0..MaxEvents /\ <<>> \in Seq(TurnEvents) BY TurnNumbers
  <2> QED BY <2>1 DEF UnusedTurn, TurnState, Tasks
<1>6. /\ w \in StreamState /\ w.state = "live" /\ w.turn = t /\ w.queue = q /\ w.rest = <<>> /\ Given(w) = {}
  <2>1. w.yielded = streams[c].yielded /\ w.lost = streams[c].lost BY <1>2 DEF StreamState
  <2>2. Given(w) = Given(streams[c]) BY <2>1 DEF Given
  <2> QED BY <2>2, <1>1, <1>2 DEF StreamState, StreamStates
<1>7. ASSUME NEW u \in Turns
      PROVE  /\ Left(u) \in TurnState /\ TurnPlaced(Left(u))
             /\ Left(u).collected = turns[u].collected /\ Left(u).cursor = turns[u].cursor
             /\ Left(u).produced = turns[u].produced /\ Left(u).queue = turns[u].queue
             /\ Left(u).shared = turns[u].shared /\ Left(u).status = turns[u].status
             /\ Left(u).task = "over" => turns[u].task = "over"
             /\ u # old => Left(u) = turns[u]
  <2>1. turns[u] \in TurnState /\ TurnPlaced(turns[u]) BY <1>2 DEF TurnsInv, TurnsPlaced
  <2>2. CASE u = old /\ turns[u].task = "created"
    <3>1. Left(u) = [turns[u] EXCEPT !.task = "neverRan"] BY <2>2
    <3> HIDE DEF Left
    <3> QED BY <3>1, <2>1, <2>2 DEF TurnState, Tasks, TurnPlaced
  <2>3. CASE u = old /\ turns[u].task = "running"
    <3>1. Left(u) = [turns[u] EXCEPT !.task = "cancelling"] BY <2>3
    <3> HIDE DEF Left
    <3> QED BY <3>1, <2>1, <2>3 DEF TurnState, Tasks, TurnPlaced
  <2>4. CASE ~ (u = old /\ turns[u].task \in {"created", "running"})
    <3>1. Left(u) = turns[u] BY <2>4
    <3> HIDE DEF Left
    <3> QED BY <3>1, <2>1
  <2>5. u # old => Left(u) = turns[u] OBVIOUS
  <2> HIDE DEF Left
  <2> QED BY <2>2, <2>3, <2>4, <2>5
<1>8. turns' = tab /\ streams' = [streams EXCEPT ![c] = w] BY <1>1
<1> HIDE DEF Left, r, w
<1>9. /\ tab \in [Turns -> TurnState] /\ tab[t] = r /\ \A u \in Turns \ {t} : tab[u] = Left(u)
  BY <1>1, <1>5, <1>7
<1> HIDE DEF tab
<1>10. streams'[c] = w /\ \A d \in Connections \ {c} : streams'[d] = streams[d] BY <1>2, <1>8
<1>11. /\ act \in [Sessions -> Turns \cup {NoTurn}] /\ act[s] = t
       /\ \A v \in Sessions \ {s} : act[v] = Forgotten(stale)[v]
       /\ \A v \in Sessions : Forgotten(stale)[v] # NoTurn =>
             /\ Forgotten(stale)[v] \in Turns
             /\ turns[Forgotten(stale)[v]].status # "unused"
             /\ turns[Forgotten(stale)[v]].status = "running" =>
                   turns[Forgotten(stale)[v]].task \in {"created", "running"}
       /\ \A v, u \in Sessions : v # u /\ Forgotten(stale)[v] # NoTurn => Forgotten(stale)[u] # Forgotten(stale)[v]
  <2> DEFINE F == Forgotten(stale)
  <2>1. /\ F \in [Sessions -> Turns \cup {NoTurn}]
        /\ \A v \in Sessions : F[v] # NoTurn =>
             /\ F[v] \in Turns
             /\ turns[F[v]].status # "unused"
             /\ turns[F[v]].status = "running" => turns[F[v]].task \in {"created", "running"}
        /\ \A v, u \in Sessions : v # u /\ F[v] # NoTurn => F[u] # F[v]
    BY TurnRemembered
  <2> HIDE DEF F
  <2> QED BY <2>1, <1>1 DEF F
<1>12. SessionsPlaced'
  <2> DEFINE F == Forgotten(stale)
  <2>1. ASSUME NEW v \in Sessions \ {s}, F[v] # NoTurn
        PROVE  F[v] \in Turns /\ F[v] # t /\ F[v] # old /\ tab[F[v]] = turns[F[v]]
    <3>1. F[v] \in Turns /\ F[v] # t BY <2>1, <1>3, <1>11
    <3>2. F[v] # old BY <2>1, <1>0, <1>11
    <3> QED BY <3>1, <3>2, <1>7, <1>9
  <2> HIDE DEF act, F
  <2>2. \A v \in Sessions : act[v] # NoTurn =>
           /\ tab[act[v]].status # "unused"
           /\ tab[act[v]].status = "running" => tab[act[v]].task \in {"created", "running"}
    <3> SUFFICES ASSUME NEW v \in Sessions, act[v] # NoTurn
                 PROVE  /\ tab[act[v]].status # "unused"
                        /\ tab[act[v]].status = "running" => tab[act[v]].task \in {"created", "running"}
      OBVIOUS
    <3>1. CASE v = s BY <3>1, <1>5, <1>9, <1>11
    <3>2. CASE v # s
      <4>1. act[v] = F[v] BY <3>2, <1>11 DEF F
      <4> QED BY <4>1, <3>2, <2>1, <1>11 DEF F
    <3> QED BY <3>1, <3>2
  <2>3. \A v, u \in Sessions : v # u /\ act[v] # NoTurn => act[u] # act[v]
    <3> SUFFICES ASSUME NEW v \in Sessions, NEW u \in Sessions, v # u, act[v] # NoTurn PROVE act[u] # act[v]
      OBVIOUS
    <3>1. t # NoTurn BY <1>1, TurnNumbers
    <3>2. CASE v = s
      <4>1. act[v] = t /\ act[u] = F[u] BY <3>2, <1>11 DEF F
      <4>2. F[u] # NoTurn => F[u] # t BY <3>2, <2>1
      <4> QED BY <4>1, <4>2, <3>1
    <3>3. CASE u = s
      <4>1. act[u] = t /\ act[v] = F[v] BY <3>3, <1>11 DEF F
      <4> QED BY <4>1, <3>3, <2>1
    <3>4. CASE v # s /\ u # s
      <4>1. act[u] = F[u] /\ act[v] = F[v] BY <3>4, <1>11 DEF F
      <4> QED BY <4>1, <1>11 DEF F
    <3> QED BY <3>2, <3>3, <3>4
  <2>4. activeTurn' = act /\ turns' = tab BY <1>1, <1>8
  <2> QED BY <2>2, <2>3, <2>4 DEF SessionsPlaced
<1> HIDE DEF act
<1>13. Tended(t, r, <<>>, streams')
  <2>1. OpenOf(t, streams) = {} BY <1>1, <1>3, UnusedTended DEF TurnsInv
  <2>2. OpenOf(t, streams') = {c} BY <2>1, <1>6, <1>10 DEF OpenOf
  <2>3. OneListener(t, r, streams') BY <2>2, <1>5, <1>6, <1>10 DEF OneListener
  <2>4. EndComes(t, r, <<>>, streams') BY <1>5 DEF EndComes
  <2>5. Sliced(c, r, <<>>, streams')
    <3>1. r.collected \in Seq(TurnEvents) /\ r.cursor = Len(r.collected) BY <1>5
    <3>2. streams'[c].state # "replaying" /\ streams'[c].rest = <<>> BY <1>6, <1>10
    <3> QED BY <3>1, <3>2, SlicedOff
  <2>6. \A e \in 1..r.produced : FALSE BY <1>5
  <2>7. r.cursor <= Len(r.collected) BY <1>5
  <2>8. EventsKept(t, r, <<>>, streams') BY <2>2, <2>5, <2>6, <2>7 DEF EventsKept
  <2> QED BY <2>3, <2>4, <2>8 DEF Tended
<1>14. \A u \in Turns : Tended(u, tab[u], turnQueues[tab[u].queue], streams')
  <2>1. ASSUME NEW u \in Turns \ {t} PROVE Tended(u, tab[u], turnQueues[tab[u].queue], streams')
    <3>1. u # NoTurn BY TurnNumbers
    <3>2. \A d \in Connections : streams[d].turn = u \/ streams'[d].turn = u => streams'[d] = streams[d]
      BY <3>1, <1>2, <1>6, <1>10
    <3> DEFINE que == turnQueues[turns[u].queue]
    <3>3. Tended(u, turns[u], que, streams) BY DEF TurnsInv, AllTended
    <3> HIDE DEF que
    <3>4. Tended(u, Left(u), que, streams) BY <3>3, <1>7, StaysTended
    <3>5. Tended(u, Left(u), que, streams') BY <3>2, <3>4, OthersUnnoticed
    <3>6. tab[u] = Left(u) /\ Left(u).queue = turns[u].queue BY <1>7, <1>9
    <3> QED BY <3>5, <3>6 DEF que
  <2>2. Tended(t, tab[t], turnQueues[tab[t].queue], streams') BY <1>4, <1>5, <1>9, <1>13
  <2> QED BY <2>1, <2>2
<1>15. \A u \in Turns : TurnPlaced(tab[u])
  <2>1. TurnPlaced(r)
    <3>1. r.produced < MaxEvents BY <1>5, TurnNumbers
    <3> QED BY <3>1, <1>4, <1>5 DEF TurnPlaced
  <2> QED BY <2>1, <1>7, <1>9
<1>16. /\ tab[t].status # "unused" /\ turns[t].status \in {tab[t].status, "unused"}
       /\ tab[t].queue \in Queues /\ FreshQueue(tab[t].queue) /\ w.queue = tab[t].queue
  BY <1>1, <1>3, <1>5, <1>6, <1>9
<1>17. \A u \in Turns \ {t} : tab[u].status = turns[u].status /\ tab[u].queue = turns[u].queue BY <1>7, <1>9
<1>18. w.state \in {"replaying", "live"} /\ (w.rest # <<>> => w.state \in {"replaying", "whole"}) BY <1>6
<1>19. turnQueues' = turnQueues /\ activeTurn' = act /\ t \in Turns BY <1>1
<1>20. \A v \in Queues : turnQueues[v] \in {turnQueues[v], <<>>} OBVIOUS
<1>21. turnQueues \in [Queues -> Seq(Items)] /\ act \in [Sessions -> Turns \cup {NoTurn}] BY <1>2, <1>11
<1>22. w \in StreamState /\ w.turn = t /\ Given(w) = {} BY <1>6
<1>23. tab \in [Turns -> TurnState] BY <1>9
<1> QED BY <1>8, <1>12, <1>14, <1>15, <1>16, <1>17, <1>18, <1>19, <1>20, <1>21, <1>22, <1>23, ChatKeeps

-------------------------------------------------------------------------------
(* Every step *)

LEMMA TurnsHolds == TurnsSpec => []TurnsInv
<1>1. TurnsInit => TurnsInv
  <2> SUFFICES ASSUME TurnsInit PROVE TurnsInv
    OBVIOUS
  <2>1. /\ activeTurn = [s \in Sessions |-> NoTurn] /\ turns = [t \in Turns |-> UnusedTurn]
        /\ turnQueues = [q \in Queues |-> <<>>]
        /\ streams = [c \in Connections |->
              [state |-> "away", turn |-> NoTurn, at |-> 0, rest |-> <<>>, queue |-> NoQueue, yielded |-> <<>>, lost |-> {}]]
    BY DEF TurnsInit
  <2>2. TurnsTypeOK
    <3>1. <<>> \in Seq(TurnEvents) /\ <<>> \in Seq(Items) /\ 0 \in 0..MaxEvents /\ 0 \in Nat BY TurnNumbers
    <3>2. UnusedTurn \in TurnState BY <3>1 DEF UnusedTurn, TurnState, Tasks
    <3>3. \A c \in Connections : streams[c] \in StreamState BY <2>1, <3>1 DEF StreamState, StreamStates
    <3> QED BY <2>1, <3>1, <3>2, <3>3, TurnsTyped
  <2>3. StreamsPlaced
    <3>1. ToSet(<<>>) = {} BY DEF ToSet
    <3> QED BY <3>1, <2>1 DEF StreamsPlaced, Given
  <2>4. TurnsPlaced
    <3>1. TurnPlaced(UnusedTurn) BY TurnNumbers DEF TurnPlaced, UnusedTurn
    <3> QED BY <3>1, <2>1 DEF TurnsPlaced
  <2>5. SessionsPlaced BY <2>1 DEF SessionsPlaced
  <2>6. QueuesPlaced BY <2>1 DEF QueuesPlaced, UnusedTurn
  <2>7. AllTended
    <3>1. \A t \in Turns : turns[t].status = "unused" BY <2>1 DEF UnusedTurn
    <3> QED BY <3>1, <2>3, UnusedTended DEF AllTended
  <2> QED BY <2>2, <2>3, <2>4, <2>5, <2>6, <2>7 DEF TurnsInv
<1>2. TurnsInv /\ [TurnsNext]_turnsVars => TurnsInv'
  <2> SUFFICES ASSUME TurnsInv, [TurnsNext]_turnsVars PROVE TurnsInv'
    OBVIOUS
  <2>1. ASSUME NEW c \in Connections, NEW s \in Sessions, Chat(s, c) PROVE TurnsInv'
    <3>1. PICK stale \in SUBSET EndedTurns : StartTurn(s, c, stale) \/ Resume(s, c, stale) \/ ReplayWhole(s, c, stale)
      BY <2>1 DEF Chat
    <3>2. streams[c].state = "away" BY <2>1 DEF Chat
    <3> QED BY <3>1, <3>2, StartTurnKeeps, ResumeKeeps, ReplayWholeKeeps
  <2>2. ASSUME NEW c \in Connections,
               ReplayNext(c) \/ EndReplay(c) \/ TakeItem(c) \/ Heartbeat(c) \/ ReplayAll(c) \/ Disconnect(c)
        PROVE  TurnsInv'
    BY <2>2, ReplayNextKeeps, EndReplayKeeps, TakeItemKeeps, HeartbeatKeeps, ReplayAllKeeps, DisconnectKeeps
  <2>3. ASSUME NEW t \in Turns,
               ProducerStarts(t) \/ Produce(t) \/ CancelLands(t) \/ Finish(t)
        PROVE  TurnsInv'
    BY <2>3, StartsKeeps, ProduceKeeps, CancelledKeeps, FinishKeeps
  <2>4. CASE UNCHANGED turnsVars
    <3>1. /\ activeTurn' = activeTurn /\ turns' = turns /\ turnQueues' = turnQueues /\ streams' = streams
      BY <2>4 DEF turnsVars
    <3>2. TurnsTypeOK' BY <3>1, TurnsTyped DEF TurnsInv
    <3>3. AllTended' BY <3>1 DEF TurnsInv, AllTended
    <3>4. StreamsPlaced' /\ TurnsPlaced' /\ SessionsPlaced' /\ QueuesPlaced'
      BY <3>1 DEF TurnsInv, StreamsPlaced, TurnsPlaced, SessionsPlaced, QueuesPlaced
    <3> QED BY <3>2, <3>3, <3>4 DEF TurnsInv
  <2> QED BY <2>1, <2>2, <2>3, <2>4 DEF TurnsNext
<1> QED BY <1>1, <1>2, PTL DEF TurnsSpec

\* The state of the turns, of their queues and of the streams is well formed.
THEOREM TurnsTypes == TurnsSpec => []TurnsTypeOK
<1>1. TurnsInv => TurnsTypeOK BY DEF TurnsInv
<1> QED BY <1>1, TurnsHolds, PTL

\* However often the stream of the running turn of a session is lost and resumed,
\* in the middle of a replay or between the cursor and the queue, what a client
\* misses of it is only what was yielded to it when it was gone: every other event
\* has reached a client or is on its way to one, unless two streams shared the turn.
THEOREM OnlyTheInFlightMissed == TurnsSpec => []OnlyInFlightIsMissed
<1>1. TurnsInv => OnlyInFlightIsMissed
  <2> SUFFICES ASSUME TurnsInv, NEW s \in Sessions, NEW t, t = activeTurn[s], t # NoTurn,
                      turns[t].status = "running", ~ turns[t].shared,
                      NEW e \in 1..turns[t].produced
               PROVE  Within(e, t) \/ LostOnTheWay(e, t)
    BY DEF OnlyInFlightIsMissed
  <2>4. t \in Turns BY TurnsTyped DEF TurnsInv
  <2>1. Has(e, t, turns[t], turnQueues[turns[t].queue], streams)
    BY <2>4 DEF TurnsInv, AllTended, Tended, EventsKept
  <2>2. turns[t].collected \in Seq(TurnEvents) /\ turns[t].cursor \in Nat
    <3>1. turns[t] \in TurnState BY <2>4, TurnsTyped DEF TurnsInv
    <3> QED BY <3>1 DEF TurnState
  <2>3. \A p \in DOMAIN turns[t].collected : turns[t].cursor < p =>
           turns[t].collected[p] \in ToSet(SubSeq(turns[t].collected, turns[t].cursor + 1, Len(turns[t].collected)))
    <3> DEFINE was == turns[t].collected
               n == turns[t].cursor
    <3> HIDE DEF was, n
    <3>1. was \in Seq(TurnEvents) /\ n \in Nat BY <2>2 DEF was, n
    <3>2. \A p \in DOMAIN was : n < p => was[p] \in ToSet(SubSeq(was, n + 1, Len(was))) BY <3>1, After
    <3> QED BY <3>2 DEF was, n
  <2> QED BY <2>1, <2>3 DEF Has, Given, Within, LostOnTheWay
<1> QED BY <1>1, TurnsHolds, PTL

\* Whoever listens to a turn whose producer has stopped has the end mark ahead,
\* unless two streams shared the turn.
THEOREM EndHeard == TurnsSpec => []ListenersHearTheEnd
<1>1. TurnsInv => ListenersHearTheEnd
  <2> SUFFICES ASSUME TurnsInv, NEW c \in Connections, streams[c].state = "live",
                      turns[streams[c].turn].task = "over", ~ turns[streams[c].turn].shared
               PROVE  EndMark \in ToSet(turnQueues[turns[streams[c].turn].queue])
    BY DEF ListenersHearTheEnd
  <2>1. PICK t : streams[c].turn = t OBVIOUS
  <2>2. OpenOf(t, streams) = {c} /\ EndComes(t, turns[t], turnQueues[turns[t].queue], streams)
    BY <2>1, OnlyOpen
  <2> QED BY <2>1, <2>2 DEF EndComes
<1> QED BY <1>1, TurnsHolds, PTL

-------------------------------------------------------------------------------
(***************************************************************************)
(* The conversation the model is sent, for any numbers of messages, calls, *)
(* rounds and turns and any answers of the model.                          *)
(*                                                                         *)
(* In a conversation the messages of users come before all calls, so the   *)
(* one that a compaction takes out to put it in front never stood between  *)
(* a call and its results. From the first call on, what a compaction       *)
(* leaves therefore is the end of what there was (`Aligned`), and results  *)
(* follow their call.                                                      *)
(***************************************************************************)

Messages == [role: Roles, ids: SUBSET CallIds]
UserRoles == {"user", "question"}

\* From the first call on, t is the end of s.
Aligned(t, s) ==
    \A n \in DOMAIN t : t[n].role = "calls" =>
        \A m \in n..Len(t) : /\ m + (Len(s) - Len(t)) \in DOMAIN s
                             /\ t[m] = s[m + (Len(s) - Len(t))]

NoCalls(s) == \A n \in DOMAIN s : s[n].role # "calls"

\* What a concatenation holds at which place.
LEMMA Placed ==
    ASSUME NEW S, NEW a \in Seq(S), NEW b \in Seq(S)
    PROVE  /\ a \o b \in Seq(S) /\ Len(a \o b) = Len(a) + Len(b)
           /\ Len(a) \in Nat /\ Len(b) \in Nat /\ DOMAIN a = 1..Len(a) /\ DOMAIN b = 1..Len(b)
           /\ DOMAIN (a \o b) = 1..(Len(a) + Len(b))
           /\ \A n \in DOMAIN a : n \in DOMAIN (a \o b) /\ (a \o b)[n] = a[n]
           /\ \A n \in DOMAIN (a \o b) : Len(a) < n => n - Len(a) \in DOMAIN b /\ (a \o b)[n] = b[n - Len(a)]
           /\ \A n \in DOMAIN (a \o b) : n <= Len(a) => n \in DOMAIN a /\ (a \o b)[n] = a[n]
<1>1. /\ a \o b \in Seq(S) /\ Len(a \o b) = Len(a) + Len(b)
      /\ Len(a) \in Nat /\ Len(b) \in Nat /\ DOMAIN a = 1..Len(a) /\ DOMAIN b = 1..Len(b)
  OBVIOUS
<1>2. PICK la \in Nat : la = Len(a) BY <1>1
<1>3. PICK lb \in Nat : lb = Len(b) BY <1>1
<1>4. PICK c : c = a \o b OBVIOUS
<1>5. DOMAIN c = 1..(la + lb) BY <1>1, <1>2, <1>3, <1>4
<1>6. \A n \in 1..(la + lb) : c[n] = IF n <= la THEN a[n] ELSE b[n - la] BY <1>1, <1>2, <1>3, <1>4
<1>7. \A n \in 1..la : n \in 1..(la + lb) /\ c[n] = a[n] BY <1>6
<1>8. \A n \in 1..(la + lb) : la < n => n - la \in 1..lb /\ c[n] = b[n - la] BY <1>6
<1>9. \A n \in 1..(la + lb) : n <= la => n \in 1..la /\ c[n] = a[n] BY <1>6
<1> QED BY <1>1, <1>2, <1>3, <1>4, <1>5, <1>7, <1>8, <1>9

LEMMA PlacedMembers ==
    ASSUME NEW S, NEW a \in Seq(S), NEW b \in Seq(S)
    PROVE  ToSet(a \o b) = ToSet(a) \cup ToSet(b)
<1>1. PICK c : c = a \o b OBVIOUS
<1>2. PICK la \in Nat : la = Len(a) OBVIOUS
<1>3. PICK lb \in Nat : lb = Len(b) OBVIOUS
<1>4. /\ DOMAIN a = 1..la /\ DOMAIN b = 1..lb /\ DOMAIN c = 1..(la + lb)
      /\ \A n \in 1..la : n \in 1..(la + lb) /\ c[n] = a[n]
      /\ \A n \in 1..(la + lb) : la < n => n - la \in 1..lb /\ c[n] = b[n - la]
      /\ \A n \in 1..(la + lb) : n <= la => n \in 1..la /\ c[n] = a[n]
  BY <1>1, <1>2, <1>3, Placed
<1>5. \A n \in 1..lb : n + la \in 1..(la + lb) /\ c[n + la] = b[n]
  <2> SUFFICES ASSUME NEW n \in 1..lb PROVE n + la \in 1..(la + lb) /\ c[n + la] = b[n]
    OBVIOUS
  <2>1. n + la \in 1..(la + lb) /\ la < n + la /\ n + la - la = n BY <1>2, <1>3
  <2> QED BY <2>1, <1>4
<1>6. \A n \in 1..(la + lb) : c[n] \in ToSet(a) \cup ToSet(b)
  <2> SUFFICES ASSUME NEW n \in 1..(la + lb) PROVE c[n] \in ToSet(a) \cup ToSet(b)
    OBVIOUS
  <2>1. n <= la \/ la < n BY <1>2, <1>3
  <2> QED BY <2>1, <1>4 DEF ToSet
<1>7. ToSet(c) \subseteq ToSet(a) \cup ToSet(b) BY <1>4, <1>6 DEF ToSet
<1>8. ToSet(a) \subseteq ToSet(c) BY <1>4 DEF ToSet
<1>9. ToSet(b) \subseteq ToSet(c) BY <1>4, <1>5 DEF ToSet
<1> QED BY <1>1, <1>7, <1>8, <1>9

LEMMA SubSeqPlaced ==
    ASSUME NEW S, NEW s \in Seq(S), NEW from \in Nat \ {0}, from <= Len(s) + 1
    PROVE  /\ SubSeq(s, from, Len(s)) \in Seq(S)
           /\ Len(SubSeq(s, from, Len(s))) = Len(s) + 1 - from
           /\ DOMAIN SubSeq(s, from, Len(s)) = 1..(Len(s) + 1 - from)
           /\ \A n \in 1..(Len(s) + 1 - from) :
                 n + from - 1 \in DOMAIN s /\ SubSeq(s, from, Len(s))[n] = s[n + from - 1]
<1>1. PICK len \in Nat : len = Len(s) OBVIOUS
<1>2. DOMAIN s = 1..len /\ from <= len + 1 BY <1>1
<1>3. SubSeq(s, from, len) = [i \in 1..(len - from + 1) |-> s[i + from - 1]] BY <1>1
<1>4. \A n \in 1..(len - from + 1) : n + from - 1 \in 1..len BY <1>2
<1>5. len - from + 1 = len + 1 - from /\ len + 1 - from \in Nat BY <1>2
<1>6. \A n \in 1..len : s[n] \in S BY <1>1
<1> DEFINE r == [i \in 1..(len + 1 - from) |-> s[i + from - 1]]
<1>7. SubSeq(s, from, len) = r BY <1>3, <1>5
<1>8. r \in [1..(len + 1 - from) -> S] BY <1>4, <1>5, <1>6
<1>9. \A n \in 1..(len + 1 - from) : r[n] = s[n + from - 1] /\ n + from - 1 \in 1..len BY <1>4, <1>5
<1> HIDE DEF r
<1>10. r \in Seq(S) /\ Len(r) = len + 1 - from /\ DOMAIN r = 1..(len + 1 - from) BY <1>5, <1>8
<1> QED BY <1>1, <1>2, <1>7, <1>9, <1>10

\* The end of an aligned sequence is aligned, and so is one behind messages
\* that are no calls.
LEMMA EndAligned ==
    ASSUME NEW S, NEW r \in Seq(S), NEW s \in Seq(S), Aligned(r, s),
           NEW from \in Nat \ {0}, from <= Len(r) + 1
    PROVE  Aligned(SubSeq(r, from, Len(r)), s)
<1> DEFINE t == SubSeq(r, from, Len(r))
<1>1. PICK lr \in Nat : lr = Len(r) OBVIOUS
<1>2. PICK ls \in Nat : ls = Len(s) OBVIOUS
<1>3. PICK lt : lt = Len(t) OBVIOUS
<1>4. /\ lt = lr + 1 - from /\ DOMAIN t = 1..lt /\ DOMAIN r = 1..lr /\ from <= lr + 1
      /\ \A n \in 1..lt : t[n] = r[n + from - 1]
  BY <1>1, <1>3, SubSeqPlaced
<1> HIDE DEF t
<1> SUFFICES ASSUME NEW n \in DOMAIN t, t[n].role = "calls", NEW m \in n..lt
             PROVE  m + (ls - lt) \in DOMAIN s /\ t[m] = s[m + (ls - lt)]
  BY <1>2, <1>3 DEF t, Aligned
<1>5. n \in 1..lt /\ m \in 1..lt BY <1>4
<1>6. n + from - 1 \in 1..lr /\ m + from - 1 \in (n + from - 1)..lr BY <1>4, <1>5
<1>7. m + from - 1 + (ls - lr) = m + (ls - lt) BY <1>4, <1>5
<1>8. r[n + from - 1].role = "calls" BY <1>4, <1>5
<1>9. m + from - 1 + (ls - lr) \in DOMAIN s /\ r[m + from - 1] = s[m + from - 1 + (ls - lr)]
  BY <1>1, <1>2, <1>4, <1>6, <1>8 DEF Aligned
<1> QED BY <1>4, <1>5, <1>7, <1>9

LEMMA BehindAligned ==
    ASSUME NEW S, NEW h \in Seq(S), NoCalls(h), NEW r \in Seq(S), NEW s \in Seq(S), Aligned(r, s)
    PROVE  Aligned(h \o r, s)
<1> DEFINE t == h \o r
<1>1. PICK lr \in Nat : lr = Len(r) OBVIOUS
<1>2. PICK ls \in Nat : ls = Len(s) OBVIOUS
<1>3. PICK lh \in Nat : lh = Len(h) OBVIOUS
<1>4. /\ Len(t) = lh + lr /\ DOMAIN t = 1..(lh + lr) /\ DOMAIN r = 1..lr /\ DOMAIN h = 1..lh
      /\ \A n \in 1..(lh + lr) : lh < n => n - lh \in DOMAIN r /\ t[n] = r[n - lh]
      /\ \A n \in 1..(lh + lr) : n <= lh => n \in DOMAIN h /\ t[n] = h[n]
  BY <1>1, <1>3, Placed
<1> HIDE DEF t
<1> SUFFICES ASSUME NEW n \in DOMAIN t, t[n].role = "calls", NEW m \in n..(lh + lr)
             PROVE  m + (ls - (lh + lr)) \in DOMAIN s /\ t[m] = s[m + (ls - (lh + lr))]
  BY <1>2, <1>4 DEF t, Aligned
<1>5. n \in 1..(lh + lr) /\ m \in 1..(lh + lr) /\ n <= m BY <1>4
<1>6. lh < n BY <1>4, <1>5 DEF NoCalls
<1>7. n - lh \in 1..lr /\ m - lh \in (n - lh)..lr /\ lh < m BY <1>4, <1>5, <1>6
<1>8. r[n - lh].role = "calls" BY <1>4, <1>5, <1>6
<1>9. m - lh + (ls - lr) \in DOMAIN s /\ r[m - lh] = s[m - lh + (ls - lr)]
  BY <1>1, <1>2, <1>4, <1>7, <1>8 DEF Aligned
<1>10. m - lh + (ls - lr) = m + (ls - (lh + lr)) BY <1>5
<1> QED BY <1>4, <1>5, <1>7, <1>9, <1>10

\* Results that follow their call in s follow it in what is aligned with s.
LEMMA AlignedAnswered ==
    ASSUME NEW s \in Seq(Messages), NEW t \in Seq(Messages), Aligned(t, s), CallsAreAnswered(s)
    PROVE  CallsAreAnswered(t)
<1>1. PICK lt \in Nat : lt = Len(t) OBVIOUS
<1>2. PICK ls \in Nat : ls = Len(s) OBVIOUS
<1> SUFFICES ASSUME NEW n \in DOMAIN t, t[n].role = "calls", NEW id \in t[n].ids
             PROVE  \E m \in (n + 1)..(n + Cardinality(t[n].ids)) :
                       m \in DOMAIN t /\ t[m] = Message("tool", {id})
  BY DEF CallsAreAnswered
<1>3. DOMAIN t = 1..lt /\ DOMAIN s = 1..ls BY <1>1, <1>2
<1>4. PICK d \in Int : d = ls - lt OBVIOUS
<1>5. \A m \in n..lt : m + d \in DOMAIN s /\ t[m] = s[m + d] BY <1>1, <1>2, <1>4 DEF Aligned
<1>6. n \in n..lt BY <1>3
<1>7. n + d \in DOMAIN s /\ t[n] = s[n + d] BY <1>5, <1>6
<1>8. PICK k : k = Cardinality(t[n].ids) OBVIOUS
<1>9. k \in Nat
  <2>1. t[n].ids \subseteq CallIds
    <3>1. t[n] \in Messages BY <1>1
    <3> QED BY <3>1 DEF Messages
  <2>2. IsFiniteSet(CallIds)
    <3>1. MaxQuestions * MaxRounds * MaxCalls \in Int BY ReactAssumption
    <3>2. \A last \in Int : IsFiniteSet(1..last) BY FS_Interval
    <3> QED BY <3>1, <3>2 DEF CallIds
  <2> QED BY <2>1, <2>2, <1>8, FS_Subset, FS_CardinalityType
<1>10. PICK m1 \in (n + d + 1)..(n + d + k) : m1 \in DOMAIN s /\ s[m1] = Message("tool", {id})
  BY <1>7, <1>8 DEF CallsAreAnswered
<1>11. m1 - d \in (n + 1)..(n + k) /\ m1 - d \in n..lt /\ m1 - d \in 1..lt /\ m1 - d + d = m1
  <2>1. n \in 1..lt /\ m1 \in 1..ls /\ lt = ls - d BY <1>2, <1>3, <1>4, <1>10
  <2>2. n + d + 1 <= m1 /\ m1 <= n + d + k BY <1>10
  <2> QED BY <2>1, <2>2, <1>4, <1>9
<1>12. t[m1 - d] = s[m1] BY <1>5, <1>11
<1> QED BY <1>3, <1>8, <1>10, <1>11, <1>12

\* Before a user's message there is no call.
UsersFirst(s) ==
    \A n \in DOMAIN s : s[n].role = "calls" => \A m \in n..Len(s) : s[m].role \notin UserRoles

LEMMA LeastIs ==
    ASSUME NEW B, B \subseteq Nat, B # {}
    PROVE  Min(B) \in B /\ \A n \in B : Min(B) <= n
<1>1. \E n \in B : \A m \in B : n <= m BY LeastNatural
<1> QED BY <1>1 DEF Min

LEMMA SaidIsMessage == \A role \in Roles : Said(role) \in Messages
BY DEF Said, Message, Messages

\* The body of a conversation.
LEMMA BodyAligned ==
    ASSUME NEW s \in Seq(Messages), s # <<>>
    PROVE  /\ Tail(s) \in Seq(Messages) /\ Len(Tail(s)) = Len(s) - 1 /\ Len(s) \in Nat \ {0}
           /\ DOMAIN Tail(s) = 1..(Len(s) - 1) /\ DOMAIN s = 1..Len(s)
           /\ \A n \in 1..(Len(s) - 1) : Tail(s)[n] = s[n + 1]
           /\ Aligned(Tail(s), s)
<1>1. /\ Tail(s) \in Seq(Messages) /\ Len(Tail(s)) = Len(s) - 1 /\ Len(s) \in Nat \ {0}
      /\ DOMAIN Tail(s) = 1..(Len(s) - 1) /\ DOMAIN s = 1..Len(s)
      /\ \A n \in 1..(Len(s) - 1) : Tail(s)[n] = s[n + 1]
  OBVIOUS
<1>2. PICK t : t = Tail(s) OBVIOUS
<1>3. PICK len \in Nat \ {0} : len = Len(s) BY <1>1
<1>4. /\ Len(t) = len - 1 /\ DOMAIN t = 1..(len - 1) /\ DOMAIN s = 1..len
      /\ \A n \in 1..(len - 1) : t[n] = s[n + 1]
  BY <1>1, <1>2, <1>3
<1>5. Aligned(t, s)
  <2> SUFFICES ASSUME NEW n \in DOMAIN t, NEW m \in n..Len(t)
               PROVE  m + (Len(s) - Len(t)) \in DOMAIN s /\ t[m] = s[m + (Len(s) - Len(t))]
    BY DEF Aligned
  <2>1. m \in 1..(len - 1) BY <1>4
  <2>2. m + (Len(s) - Len(t)) = m + 1 BY <2>1, <1>3, <1>4
  <2>3. m + 1 \in 1..len BY <2>1
  <2> QED BY <2>1, <2>2, <2>3, <1>4
<1> QED BY <1>1, <1>2, <1>5

\* Without a message before which there is no call, the rest is aligned still.
LEMMA RemovedAligned ==
    ASSUME NEW s \in Seq(Messages), NEW r \in Seq(Messages), Aligned(r, s), NEW u \in DOMAIN r,
           \A n \in 1..(u - 1) : r[n].role # "calls"
    PROVE  /\ RemoveAt(r, u) \in Seq(Messages)
           /\ Len(RemoveAt(r, u)) = Len(r) - 1
           /\ Aligned(RemoveAt(r, u), s)
           /\ ToSet(RemoveAt(r, u)) \subseteq ToSet(r)
<1> DEFINE a == SubSeq(r, 1, u - 1)
           b == SubSeq(r, u + 1, Len(r))
<1>1. Len(r) \in Nat /\ DOMAIN r = 1..Len(r) /\ u \in 1..Len(r) OBVIOUS
<1>2. a \in Seq(Messages) /\ Len(a) = u - 1 /\ DOMAIN a = 1..(u - 1) /\ \A n \in 1..(u - 1) : a[n] = r[n]
  <2>1. \A n \in 1..(u - 1) : r[n] \in Messages BY <1>1
  <2>2. a = [n \in 1..(u - 1) |-> r[n]] BY <1>1
  <2>3. u - 1 \in Nat BY <1>1
  <2>4. [n \in 1..(u - 1) |-> r[n]] \in [1..(u - 1) -> Messages] BY <2>1
  <2> HIDE DEF a
  <2>5. a \in [1..(u - 1) -> Messages] BY <2>2, <2>4
  <2>6. a \in Seq(Messages) /\ Len(a) = u - 1 /\ DOMAIN a = 1..(u - 1) BY <2>3, <2>5
  <2> QED BY <2>2, <2>6
<1>3. u + 1 \in Nat \ {0} /\ u + 1 <= Len(r) + 1 BY <1>1
<1>4. /\ b \in Seq(Messages) /\ Len(b) = Len(r) + 1 - (u + 1) /\ DOMAIN b = 1..(Len(r) + 1 - (u + 1))
      /\ \A n \in 1..(Len(r) + 1 - (u + 1)) : n + (u + 1) - 1 \in DOMAIN r /\ b[n] = r[n + (u + 1) - 1]
  BY <1>3, SubSeqPlaced
<1>5. Aligned(b, s) BY <1>3, EndAligned
<1>6. RemoveAt(r, u) = a \o b BY DEF RemoveAt
<1> HIDE DEF a, b
<1>7. NoCalls(a) BY <1>2 DEF NoCalls
<1>8. Aligned(a \o b, s) BY <1>2, <1>4, <1>5, <1>7, BehindAligned
<1>9. a \o b \in Seq(Messages) /\ Len(a \o b) = Len(a) + Len(b) BY <1>2, <1>4
<1>10. Len(a) + Len(b) = Len(r) - 1 BY <1>1, <1>2, <1>4
<1>11. ToSet(a \o b) \subseteq ToSet(r)
  <2>1. ToSet(a \o b) = ToSet(a) \cup ToSet(b) BY <1>2, <1>4, PlacedMembers
  <2>2. \A n \in DOMAIN a : n \in DOMAIN r /\ a[n] = r[n] BY <1>1, <1>2
  <2>3. \A n \in DOMAIN b : \E i \in DOMAIN r : b[n] = r[i] BY <1>4
  <2>4. ToSet(a) \subseteq ToSet(r) BY <2>2 DEF ToSet
  <2>5. ToSet(b) \subseteq ToSet(r) BY <2>3 DEF ToSet
  <2> QED BY <2>1, <2>4, <2>5
<1> QED BY <1>6, <1>8, <1>9, <1>10, <1>11

LEMMA AlignedOrdered ==
    ASSUME NEW s \in Seq(Messages), NEW t \in Seq(Messages), Aligned(t, s), UsersFirst(s)
    PROVE  UsersFirst(t)
<1>1. PICK lt \in Nat : lt = Len(t) OBVIOUS
<1>2. PICK ls \in Nat : ls = Len(s) OBVIOUS
<1>3. PICK d \in Int : d = ls - lt OBVIOUS
<1>4. DOMAIN t = 1..lt /\ DOMAIN s = 1..ls BY <1>1, <1>2
<1> SUFFICES ASSUME NEW n \in DOMAIN t, t[n].role = "calls", NEW m \in n..lt
             PROVE  t[m].role \notin UserRoles
  BY <1>1 DEF UsersFirst
<1>5. /\ n + d \in DOMAIN s /\ t[n] = s[n + d]
      /\ m + d \in DOMAIN s /\ t[m] = s[m + d]
  <2>1. n \in n..lt BY <1>4
  <2>2. \A i \in n..lt : i + d \in DOMAIN s /\ t[i] = s[i + d] BY <1>1, <1>2, <1>3 DEF Aligned
  <2> QED BY <2>1, <2>2
<1>6. m + d \in (n + d)..ls BY <1>4, <1>5
<1> QED BY <1>2, <1>5, <1>6 DEF UsersFirst

\* A front of messages that are no calls, and what is aligned behind it.
LEMMA Fronted ==
    ASSUME NEW s \in Seq(Messages), NEW h \in Seq(Messages), NEW r \in Seq(Messages),
           h # <<>>, NoCalls(h), Aligned(r, s)
    PROVE  /\ h \o r \in Seq(Messages) /\ h \o r # <<>> /\ (h \o r)[1] = h[1]
           /\ Aligned(h \o r, s)
           /\ ToSet(h \o r) = ToSet(h) \cup ToSet(r)
<1>1. 1 \in DOMAIN h BY DEF NoCalls
<1>2. /\ h \o r \in Seq(Messages) /\ Len(h \o r) = Len(h) + Len(r) /\ Len(h) \in Nat /\ Len(r) \in Nat
      /\ DOMAIN h = 1..Len(h) /\ \A n \in DOMAIN h : (h \o r)[n] = h[n]
  BY Placed
<1>3. Len(h) # 0 BY <1>1, <1>2
<1>4. Len(h \o r) # 0 BY <1>2, <1>3
<1>5. h \o r # <<>> BY <1>2, <1>4
<1> QED BY <1>1, <1>2, <1>5, BehindAligned, PlacedMembers

\* The end of some messages.
LEMMA EndIs ==
    ASSUME NEW s \in Seq(Messages), NEW r \in Seq(Messages), Aligned(r, s), NEW keep \in Nat, keep < Len(r)
    PROVE  /\ SubSeq(r, Len(r) - keep + 1, Len(r)) \in Seq(Messages)
           /\ Aligned(SubSeq(r, Len(r) - keep + 1, Len(r)), s)
           /\ ToSet(SubSeq(r, Len(r) - keep + 1, Len(r))) \subseteq ToSet(r)
<1>1. PICK from : from = Len(r) - keep + 1 OBVIOUS
<1>2. from \in Nat \ {0} /\ from <= Len(r) + 1
  <2>1. Len(r) \in Nat OBVIOUS
  <2> QED BY <2>1, <1>1
<1>3. Aligned(SubSeq(r, from, Len(r)), s) BY <1>2, EndAligned
<1>4. /\ SubSeq(r, from, Len(r)) \in Seq(Messages)
      /\ DOMAIN SubSeq(r, from, Len(r)) = 1..(Len(r) + 1 - from)
      /\ \A n \in 1..(Len(r) + 1 - from) :
             n + from - 1 \in DOMAIN r /\ SubSeq(r, from, Len(r))[n] = r[n + from - 1]
  BY <1>2, SubSeqPlaced
<1>5. ToSet(SubSeq(r, from, Len(r))) \subseteq ToSet(r) BY <1>4 DEF ToSet
<1> QED BY <1>1, <1>3, <1>4, <1>5

\* What a compaction does: the system prompt stays in front, the first message
\* of a user stays, and from the first call on the end of what there was.
LEMMA CompactIs ==
    ASSUME NEW s \in Seq(Messages), s # <<>>, s[1] = Said("system"), UsersFirst(s), NEW keep \in Nat
    PROVE  /\ Compact(s, keep) \in Seq(Messages) /\ Compact(s, keep) # <<>>
           /\ Compact(s, keep)[1] = Said("system")
           /\ Aligned(Compact(s, keep), s)
           /\ ToSet(Compact(s, keep)) \subseteq ToSet(s) \cup {Said("summary")}
           /\ (\E x \in ToSet(s) : x.role \in UserRoles) =>
                 \E x \in ToSet(s) : x.role \in UserRoles /\ x \in ToSet(Compact(s, keep))
<1> DEFINE body  == Tail(s)
           users == {n \in DOMAIN body : body[n].role \in {"user", "question"}}
           head  == IF users = {} THEN <<Head(s)>> ELSE <<Head(s), body[Min(users)]>>
           rest  == IF users = {} THEN body ELSE RemoveAt(body, Min(users))
           first == Min(users)
<1>1. /\ body \in Seq(Messages) /\ Len(body) = Len(s) - 1 /\ Len(s) \in Nat \ {0}
      /\ DOMAIN body = 1..(Len(s) - 1) /\ DOMAIN s = 1..Len(s)
      /\ \A n \in 1..(Len(s) - 1) : body[n] = s[n + 1]
      /\ Aligned(body, s)
  BY BodyAligned
<1>2. Head(s) = Said("system") /\ Said("system").role = "system" /\ Said("summary").role = "summary"
      /\ Said("system") \in Messages /\ Said("summary") \in Messages
  BY SaidIsMessage DEF Said, Message, Roles
<1>3. ASSUME users # {}
      PROVE  /\ first \in DOMAIN body /\ body[first] \in Messages /\ body[first].role \in UserRoles
             /\ \A n \in 1..(first - 1) : body[n].role # "calls"
  <2>1. users \subseteq Nat BY <1>1
  <2>2. first \in users BY <2>1, <1>3, LeastIs
  <2>3. first \in 1..(Len(s) - 1) /\ body[first].role \in UserRoles BY <2>2, <1>1 DEF UserRoles
  <2>4. \A n \in 1..(first - 1) : body[n].role # "calls"
    <3> SUFFICES ASSUME NEW n \in 1..(first - 1), body[n].role = "calls" PROVE FALSE
      OBVIOUS
    <3> HIDE DEF first, body
    <3>1. PICK len \in Nat \ {0} : len = Len(s) BY <1>1
    <3>2. n \in 1..(len - 1) /\ n + 1 \in 1..len /\ first + 1 \in (n + 1)..len BY <2>3, <3>1
    <3>3. s[n + 1].role = "calls" /\ s[first + 1].role \in UserRoles BY <2>3, <3>1, <3>2, <1>1
    <3> QED BY <3>1, <3>2, <3>3, <1>1 DEF UsersFirst
  <2>5. body[first] \in Messages
    <3>1. first \in DOMAIN body BY <2>3, <1>1
    <3> HIDE DEF first, body, users
    <3> QED BY <3>1, <1>1
  <2> QED BY <2>3, <2>4, <2>5, <1>1
<1>4. /\ rest \in Seq(Messages) /\ Aligned(rest, s) /\ ToSet(rest) \subseteq ToSet(body)
  <2>1. CASE users = {}
    <3>1. rest = body BY <2>1
    <3> QED BY <3>1, <1>1
  <2>2. CASE users # {}
    <3>1. rest = RemoveAt(body, first) BY <2>2
    <3> HIDE DEF rest, first, body, users
    <3> QED BY <3>1, <2>2, <1>1, <1>3, RemovedAligned
  <2> QED BY <2>1, <2>2
<1>5. ToSet(body) \subseteq ToSet(s) /\ Said("system") \in ToSet(s)
  <2>1. \A n \in DOMAIN body : n + 1 \in DOMAIN s /\ body[n] = s[n + 1] BY <1>1
  <2>2. 1 \in DOMAIN s BY <1>1
  <2> HIDE DEF body
  <2> QED BY <2>1, <2>2 DEF ToSet
<1>6. /\ head \in Seq(Messages) /\ head # <<>> /\ head[1] = Said("system") /\ NoCalls(head)
      /\ ToSet(head) \subseteq ToSet(s)
      /\ users # {} => body[first] \in ToSet(head)
  <2>1. CASE users = {}
    <3>1. head = <<Said("system")>> BY <2>1, <1>2
    <3> HIDE DEF head
    <3>2. /\ head \in Seq(Messages) /\ head # <<>> /\ head[1] = Said("system") /\ DOMAIN head = {1}
      BY <3>1, <1>2
    <3> QED BY <2>1, <3>2, <1>2, <1>5 DEF NoCalls, ToSet
  <2>2. CASE users # {}
    <3>1. PICK x : x = body[first] OBVIOUS
    <3>2. x \in Messages /\ x.role \in UserRoles /\ x \in ToSet(s)
      <4> HIDE DEF body, first, users
      <4>1. x \in ToSet(body) BY <3>1, <2>2, <1>3 DEF ToSet
      <4> QED BY <3>1, <4>1, <2>2, <1>3, <1>5
    <3>3. head = <<Said("system"), x>> BY <2>2, <3>1, <1>2
    <3> HIDE DEF head, body, first, users
    <3>4. /\ head \in Seq(Messages) /\ head # <<>> /\ head[1] = Said("system") /\ head[2] = x /\ DOMAIN head = {1, 2}
      BY <3>2, <3>3, <1>2
    <3>5. ToSet(head) = {Said("system"), x} BY <3>4 DEF ToSet
    <3> QED BY <3>1, <3>2, <3>4, <3>5, <1>2, <1>5 DEF NoCalls, UserRoles
  <2> QED BY <2>1, <2>2
<1>7. (\E x \in ToSet(s) : x.role \in UserRoles) => users # {}
  <2> SUFFICES ASSUME NEW n \in DOMAIN s, s[n].role \in UserRoles PROVE users # {}
    BY DEF ToSet
  <2>1. n # 1 BY <1>2 DEF UserRoles
  <2>2. n - 1 \in DOMAIN body /\ body[n - 1] = s[n]
    <3>1. n - 1 \in 1..(Len(s) - 1) /\ n - 1 + 1 = n BY <2>1, <1>1
    <3> QED BY <3>1, <1>1
  <2> QED BY <2>2 DEF UserRoles
<1>8. Compact(s, keep) = IF Len(s) <= CompactAbove THEN s
                         ELSE IF Len(rest) <= keep THEN head \o rest
                         ELSE head \o <<Said("summary")>> \o SubSeq(rest, Len(rest) - keep + 1, Len(rest))
  BY DEF Compact
<1>9. users # {} => body[first] \in ToSet(s) /\ body[first].role \in UserRoles BY <1>3, <1>6
<1> HIDE DEF body, users, head, rest, first
<1>10. CASE Len(s) <= CompactAbove
  <2>1. Compact(s, keep) = s BY <1>8, <1>10
  <2>2. Aligned(s, s)
    <3>1. \A m \in DOMAIN s : m + (Len(s) - Len(s)) = m BY <1>1
    <3>2. \A n \in DOMAIN s : \A m \in n..Len(s) : m \in DOMAIN s BY <1>1
    <3> QED BY <3>1, <3>2 DEF Aligned
  <2> QED BY <2>1, <2>2
<1>11. CASE ~ (Len(s) <= CompactAbove) /\ Len(rest) <= keep
  <2>1. Compact(s, keep) = head \o rest BY <1>8, <1>11
  <2>2. /\ head \o rest \in Seq(Messages) /\ head \o rest # <<>> /\ (head \o rest)[1] = head[1]
        /\ Aligned(head \o rest, s) /\ ToSet(head \o rest) = ToSet(head) \cup ToSet(rest)
    BY <1>4, <1>6, Fronted
  <2> QED BY <2>1, <2>2, <1>4, <1>5, <1>6, <1>7, <1>9
<1>12. CASE ~ (Len(s) <= CompactAbove) /\ ~ (Len(rest) <= keep)
  <2>1. PICK end : end = SubSeq(rest, Len(rest) - keep + 1, Len(rest)) OBVIOUS
  <2>2. PICK sum : sum = <<Said("summary")>> OBVIOUS
  <2>3. Compact(s, keep) = (head \o sum) \o end BY <2>1, <2>2, <1>8, <1>12
  <2>4. keep < Len(rest)
    <3>1. Len(rest) \in Nat BY <1>4
    <3> QED BY <3>1, <1>12
  <2>5. end \in Seq(Messages) /\ Aligned(end, s) /\ ToSet(end) \subseteq ToSet(rest) BY <2>1, <2>4, <1>4, EndIs
  <2>6. sum \in Seq(Messages) /\ DOMAIN sum = {1} /\ sum[1] = Said("summary") BY <2>2, <1>2
  <2>7. ToSet(sum) = {Said("summary")} BY <2>6 DEF ToSet
  <2>8. PICK front : front = head \o sum OBVIOUS
  <2>9. front \in Seq(Messages) /\ ToSet(front) = ToSet(head) \cup {Said("summary")}
    BY <2>6, <2>7, <2>8, <1>6, Placed, PlacedMembers
  <2>10. front # <<>> /\ front[1] = head[1]
    <3>1. 1 \in DOMAIN head BY <1>6
    <3>2. 1 \in DOMAIN front /\ front[1] = head[1] BY <3>1, <2>6, <2>8, <1>6, Placed
    <3> QED BY <3>2
  <2>11. NoCalls(front)
    <3>1. \A x \in ToSet(front) : x.role # "calls" BY <2>9, <1>2, <1>6 DEF NoCalls, ToSet
    <3> QED BY <3>1 DEF NoCalls, ToSet
  <2>12. /\ front \o end \in Seq(Messages) /\ front \o end # <<>> /\ (front \o end)[1] = front[1]
         /\ Aligned(front \o end, s) /\ ToSet(front \o end) = ToSet(front) \cup ToSet(end)
    BY <2>5, <2>9, <2>10, <2>11, Fronted
  <2>13. Compact(s, keep) = front \o end BY <2>3, <2>8
  <2> QED BY <2>5, <2>9, <2>10, <2>12, <2>13, <1>4, <1>5, <1>6, <1>7, <1>9
<1> QED BY <1>10, <1>11, <1>12

-------------------------------------------------------------------------------

\* In the first turn the only message of a user is the question.
FirstTurn(c) ==
    /\ \E x \in ToSet(c) : x.role \in UserRoles
    /\ \A x \in ToSet(c) : x.role \in UserRoles => x = Said("question")

Conversing(c, turn) ==
    /\ c # <<>> /\ c[1] = Said("system")
    /\ UsersFirst(c)
    /\ turn = 1 => FirstTurn(c)

\* The last calls asked for are numbered up to `last`; those in `left` wait
\* for their results, which come in order, and all other calls have theirs.
AnsweredAt(c, n) ==
    \A id \in c[n].ids : \E m \in (n + 1)..(n + Cardinality(c[n].ids)) :
        m \in DOMAIN c /\ c[m] = Message("tool", {id})

Acting(c, left, last) ==
    \E n \in DOMAIN c, first \in Nat :
        /\ first + (Len(c) - n) + Len(left) = last
        /\ c[n] = Message("calls", (first + 1)..last)
        /\ \A m \in (n + 1)..Len(c) : c[m] = Message("tool", {first + (m - n)})
        /\ \A j \in DOMAIN left : left[j].id = last - Len(left) + j
        /\ \A m \in 1..(n - 1) : c[m].role = "calls" => AnsweredAt(c, m)

LEMMA CompactConverses ==
    ASSUME NEW c \in Seq(Messages), NEW turn, Conversing(c, turn), NEW keep \in Nat
    PROVE  /\ Compact(c, keep) \in Seq(Messages)
           /\ Conversing(Compact(c, keep), turn)
           /\ CallsAreAnswered(c) => CallsAreAnswered(Compact(c, keep))
<1> DEFINE t == Compact(c, keep)
<1>1. /\ t \in Seq(Messages) /\ t # <<>> /\ t[1] = Said("system") /\ Aligned(t, c)
      /\ ToSet(t) \subseteq ToSet(c) \cup {Said("summary")}
      /\ (\E x \in ToSet(c) : x.role \in UserRoles) =>
            \E x \in ToSet(c) : x.role \in UserRoles /\ x \in ToSet(t)
  BY CompactIs DEF Conversing
<1> HIDE DEF t
<1>2. UsersFirst(t) BY <1>1, AlignedOrdered DEF Conversing
<1>3. CallsAreAnswered(c) => CallsAreAnswered(t) BY <1>1, AlignedAnswered
<1>4. FirstTurn(c) => FirstTurn(t)
  <2>1. Said("summary").role \notin UserRoles BY DEF Said, Message, UserRoles
  <2> QED BY <2>1, <1>1 DEF FirstTurn
<1>5. Conversing(t, turn) BY <1>1, <1>2, <1>4 DEF Conversing
<1> QED BY <1>1, <1>3, <1>5 DEF t

\* What a message more makes of a conversation.
LEMMA AppendPlaced ==
    ASSUME NEW c \in Seq(Messages), NEW x \in Messages
    PROVE  /\ Append(c, x) \in Seq(Messages) /\ Len(Append(c, x)) = Len(c) + 1
           /\ Len(c) \in Nat /\ DOMAIN c = 1..Len(c) /\ DOMAIN Append(c, x) = 1..(Len(c) + 1)
           /\ \A n \in 1..Len(c) : Append(c, x)[n] = c[n]
           /\ Append(c, x)[Len(c) + 1] = x
           /\ ToSet(Append(c, x)) = ToSet(c) \cup {x}
<1>1. Append(c, x) \in Seq(Messages) /\ Len(Append(c, x)) = Len(c) + 1 OBVIOUS
<1> QED BY <1>1, AppendedMembers

LEMMA AppendConverses ==
    ASSUME NEW c \in Seq(Messages), NEW turn, Conversing(c, turn), NEW x \in Messages, x.role \in {"calls", "tool"}
    PROVE  Append(c, x) \in Seq(Messages) /\ Conversing(Append(c, x), turn)
<1> DEFINE t == Append(c, x)
<1>1. /\ t \in Seq(Messages) /\ Len(t) = Len(c) + 1 /\ Len(c) \in Nat /\ DOMAIN c = 1..Len(c)
      /\ DOMAIN t = 1..(Len(c) + 1) /\ \A n \in 1..Len(c) : t[n] = c[n]
      /\ t[Len(c) + 1] = x /\ ToSet(t) = ToSet(c) \cup {x}
  BY AppendPlaced
<1> HIDE DEF t
<1>2. PICK len \in Nat : len = Len(c) BY <1>1
<1>3. x.role \notin UserRoles BY DEF UserRoles
<1>4. t # <<>> /\ t[1] = Said("system")
  <2>1. 1 \in 1..len
    <3>1. len # 0 BY <1>1, <1>2 DEF Conversing
    <3> QED BY <3>1
  <2>2. Len(t) # 0 BY <1>1, <1>2
  <2> QED BY <2>1, <2>2, <1>1, <1>2 DEF Conversing
<1>5. UsersFirst(t)
  <2> SUFFICES ASSUME NEW n \in 1..(len + 1), t[n].role = "calls", NEW m \in n..(len + 1)
               PROVE  t[m].role \notin UserRoles
    BY <1>1, <1>2 DEF UsersFirst
  <2>1. CASE m = len + 1 BY <2>1, <1>1, <1>2, <1>3
  <2>2. CASE m # len + 1
    <3>1. n \in 1..len /\ m \in n..len /\ m \in 1..len BY <2>2
    <3>2. c[n].role = "calls" /\ t[m] = c[m] BY <3>1, <1>1, <1>2
    <3> QED BY <3>1, <3>2, <1>1, <1>2 DEF Conversing, UsersFirst
  <2> QED BY <2>1, <2>2
<1>6. FirstTurn(c) => FirstTurn(t) BY <1>1, <1>3 DEF FirstTurn
<1> QED BY <1>1, <1>4, <1>5, <1>6 DEF Conversing, t

\* An answered call stays answered.
LEMMA AnsweredStays ==
    ASSUME NEW c \in Seq(Messages), NEW x \in Messages, NEW n \in DOMAIN c, AnsweredAt(c, n)
    PROVE  AnsweredAt(Append(c, x), n)
<1>1. PICK t : t = Append(c, x) OBVIOUS
<1>2. \A m \in DOMAIN c : m \in DOMAIN t /\ t[m] = c[m]
  <2>1. PICK len \in Nat : len = Len(c) BY AppendPlaced
  <2>2. DOMAIN c = 1..len /\ DOMAIN t = 1..(len + 1) /\ \A m \in 1..len : t[m] = c[m] BY <1>1, <2>1, AppendPlaced
  <2> QED BY <2>2
<1> QED BY <1>1, <1>2 DEF AnsweredAt

LEMMA AnsweredIsAt ==
    ASSUME NEW c
    PROVE  CallsAreAnswered(c) <=> \A n \in DOMAIN c : c[n].role = "calls" => AnsweredAt(c, n)
BY DEF CallsAreAnswered, AnsweredAt

\* Calls are asked for.
LEMMA CallsAsked ==
    ASSUME NEW c \in Seq(Messages), CallsAreAnswered(c), NEW last \in Nat, NEW k \in Nat,
           NEW x \in Messages, x = Message("calls", (last + 1)..(last + k)),
           NEW left, Len(left) = k, DOMAIN left = 1..k, \A j \in 1..k : left[j].id = last + j
    PROVE  Acting(Append(c, x), left, last + k)
<1>1. PICK t : t = Append(c, x) OBVIOUS
<1>2. PICK len \in Nat : len = Len(c) BY AppendPlaced
<1>3. /\ Len(t) = len + 1 /\ DOMAIN c = 1..len /\ DOMAIN t = 1..(len + 1)
      /\ \A n \in 1..len : t[n] = c[n]
      /\ t[len + 1] = x
  BY <1>1, <1>2, AppendPlaced
<1>4. last + (Len(t) - (len + 1)) + Len(left) = last + k BY <1>3
<1>5. \A m \in (len + 1 + 1)..Len(t) : t[m] = Message("tool", {last + (m - (len + 1))})
  <2>1. \A m \in (len + 1 + 1)..Len(t) : FALSE BY <1>3
  <2> QED BY <2>1
<1>6. \A j \in DOMAIN left : left[j].id = last + k - Len(left) + j OBVIOUS
<1>7. \A m \in 1..(len + 1 - 1) : t[m].role = "calls" => AnsweredAt(t, m)
  <2>1. \A m \in 1..len : c[m].role = "calls" => AnsweredAt(c, m) BY <1>3, AnsweredIsAt
  <2>2. \A m \in 1..len : t[m].role = "calls" => AnsweredAt(t, m) BY <2>1, <1>1, <1>3, AnsweredStays
  <2> QED BY <2>2
<1>8. len + 1 \in DOMAIN t BY <1>3
<1>9. t[len + 1] = Message("calls", (last + 1)..(last + k)) BY <1>3
<1>10. Acting(t, left, last + k)
  <2>1. PICK n : n = len + 1 OBVIOUS
  <2>2. PICK all : all = last + k OBVIOUS
  <2>3. /\ n \in DOMAIN t
        /\ last + (Len(t) - n) + Len(left) = all
        /\ t[n] = Message("calls", (last + 1)..all)
        /\ \A m \in (n + 1)..Len(t) : t[m] = Message("tool", {last + (m - n)})
        /\ \A j \in DOMAIN left : left[j].id = all - Len(left) + j
        /\ \A m \in 1..(n - 1) : t[m].role = "calls" => AnsweredAt(t, m)
    BY <2>1, <2>2, <1>4, <1>5, <1>6, <1>7, <1>8, <1>9
  <2>4. Acting(t, left, all) BY <2>3, Zenon DEF Acting
  <2> QED BY <2>2, <2>4
<1> QED BY <1>1, <1>10

\* One of them runs.
LEMMA CallRuns ==
    ASSUME NEW c \in Seq(Messages), NEW T, NEW left \in Seq(T), left # <<>>, NEW last \in Nat, Acting(c, left, last),
           NEW x \in Messages, x = Message("tool", {Head(left).id})
    PROVE  Acting(Append(c, x), Tail(left), last)
<1>1. PICK t : t = Append(c, x) OBVIOUS
<1>2. PICK len \in Nat : len = Len(c) BY AppendPlaced
<1>3. /\ Len(t) = len + 1 /\ DOMAIN c = 1..len /\ DOMAIN t = 1..(len + 1)
      /\ \A n \in 1..len : t[n] = c[n]
      /\ t[len + 1] = x
  BY <1>1, <1>2, AppendPlaced
<1>4. PICK n \in DOMAIN c, first \in Nat :
        /\ first + (Len(c) - n) + Len(left) = last
        /\ c[n] = Message("calls", (first + 1)..last)
        /\ \A m \in (n + 1)..Len(c) : c[m] = Message("tool", {first + (m - n)})
        /\ \A j \in DOMAIN left : left[j].id = last - Len(left) + j
        /\ \A m \in 1..(n - 1) : c[m].role = "calls" => AnsweredAt(c, m)
  BY DEF Acting
<1>5. PICK rest : rest = Tail(left) OBVIOUS
<1>6. PICK k \in Nat \ {0} : k = Len(left) OBVIOUS
<1>7. /\ DOMAIN left = 1..k /\ Len(rest) = k - 1 /\ DOMAIN rest = 1..(k - 1) /\ Head(left) = left[1]
      /\ \A j \in 1..(k - 1) : rest[j] = left[j + 1]
  BY <1>5, <1>6
<1>8. n \in 1..len /\ first + (len - n) + k = last BY <1>2, <1>3, <1>4, <1>6
<1>9. n \in DOMAIN t /\ t[n] = Message("calls", (first + 1)..last) BY <1>3, <1>4, <1>8
<1>10. first + (Len(t) - n) + Len(rest) = last BY <1>3, <1>7, <1>8
<1>11. Head(left).id = first + (len + 1 - n)
  <2>1. 1 \in DOMAIN left BY <1>7
  <2>2. left[1].id = last - k + 1 BY <2>1, <1>4, <1>6
  <2> QED BY <2>2, <1>7, <1>8
<1>12. \A m \in (n + 1)..Len(t) : t[m] = Message("tool", {first + (m - n)})
  <2> SUFFICES ASSUME NEW m \in (n + 1)..(len + 1) PROVE t[m] = Message("tool", {first + (m - n)})
    BY <1>3
  <2>1. CASE m = len + 1
    <3>1. first + (m - n) = first + (len + 1 - n) BY <2>1
    <3> QED BY <2>1, <3>1, <1>3, <1>11
  <2>2. CASE m # len + 1
    <3>1. m \in (n + 1)..len /\ m \in 1..len BY <2>2, <1>8
    <3> QED BY <3>1, <1>2, <1>3, <1>4
  <2> QED BY <2>1, <2>2
<1>13. \A j \in DOMAIN rest : rest[j].id = last - Len(rest) + j
  <2> SUFFICES ASSUME NEW j \in 1..(k - 1) PROVE rest[j].id = last - (k - 1) + j
    BY <1>7
  <2>1. j + 1 \in 1..k OBVIOUS
  <2>2. left[j + 1].id = last - k + (j + 1) BY <2>1, <1>4, <1>6, <1>7
  <2> QED BY <2>2, <1>7
<1>14. \A m \in 1..(n - 1) : t[m].role = "calls" => AnsweredAt(t, m)
  <2>1. \A m \in 1..(n - 1) : m \in DOMAIN c /\ t[m] = c[m] BY <1>3, <1>8
  <2> QED BY <2>1, <1>1, <1>4, AnsweredStays
<1>15. Acting(t, rest, last) BY <1>9, <1>10, <1>12, <1>13, <1>14 DEF Acting
<1> QED BY <1>1, <1>5, <1>15

\* All have run.
LEMMA AllRan ==
    ASSUME NEW c \in Seq(Messages), NEW last \in Nat, Acting(c, <<>>, last)
    PROVE  CallsAreAnswered(c)
<1>1. PICK len \in Nat : len = Len(c) OBVIOUS
<1>2. DOMAIN c = 1..len BY <1>1
<1>3. PICK n \in DOMAIN c, first \in Nat :
        /\ first + (Len(c) - n) + Len(<<>>) = last
        /\ c[n] = Message("calls", (first + 1)..last)
        /\ \A m \in (n + 1)..Len(c) : c[m] = Message("tool", {first + (m - n)})
        /\ \A m \in 1..(n - 1) : c[m].role = "calls" => AnsweredAt(c, m)
  BY DEF Acting
<1>4. first + (len - n) = last /\ n \in 1..len BY <1>1, <1>2, <1>3
<1>5. AnsweredAt(c, n)
  <2>1. c[n].ids = (first + 1)..last BY <1>3 DEF Message
  <2>2. Cardinality((first + 1)..last) = last - first
    <3>1. Cardinality((first + 1)..last) = IF first + 1 > last THEN 0 ELSE last - (first + 1) + 1 BY FS_Interval
    <3> QED BY <3>1, <1>4
  <2> SUFFICES ASSUME NEW id \in (first + 1)..last
               PROVE  \E m \in (n + 1)..(n + (last - first)) : m \in DOMAIN c /\ c[m] = Message("tool", {id})
    BY <2>1, <2>2 DEF AnsweredAt
  <2>3. PICK m \in Int : m = n + (id - first) OBVIOUS
  <2>4. m \in (n + 1)..len /\ m \in (n + 1)..(n + (last - first)) /\ m \in 1..len /\ first + (m - n) = id
    BY <2>3, <1>4
  <2> QED BY <2>4, <1>1, <1>2, <1>3
<1>6. ASSUME NEW m \in DOMAIN c, c[m].role = "calls" PROVE AnsweredAt(c, m)
  <2>1. CASE m < n
    <3>1. m \in 1..(n - 1) BY <2>1, <1>2, <1>4
    <3> QED BY <3>1, <1>3, <1>6
  <2>2. CASE m = n BY <2>2, <1>5
  <2>3. CASE n < m
    <3>1. m \in (n + 1)..Len(c) BY <2>3, <1>1, <1>2, <1>4
    <3>2. c[m] = Message("tool", {first + (m - n)}) BY <3>1, <1>3
    <3>3. c[m].role = "tool" BY <3>2 DEF Message
    <3> QED BY <3>3, <1>6
  <2> QED BY <2>1, <2>2, <2>3, <1>2, <1>4
<1> QED BY <1>6, AnsweredIsAt

-------------------------------------------------------------------------------

\* The calls there can be in q turns and r rounds.
Numbered(q, r) == (q * MaxRounds + r) * MaxCalls

CallsSoFar ==
    /\ reactPc = "idle" => calls <= Numbered(questions, 0)
    /\ reactPc \in {"thinking", "asking"} => calls <= Numbered(questions - 1, toolRound - 1)
    /\ reactPc = "acting" => calls <= Numbered(questions - 1, toolRound)

ReactInv ==
    /\ ReactTypeOK
    /\ reactPc # "idle" => /\ toolRound # 0 /\ questions # 0 /\ noProgress < MaxNoProgress
                           /\ Conversing(conversation, questions)
    /\ reactPc \in {"thinking", "asking"} => CallsAreAnswered(conversation)
    /\ reactPc = "acting" => Acting(conversation, todo, calls)
    /\ questions = 0 => memory = <<>>
    /\ CallsSoFar

LEMMA Bigger ==
    ASSUME NEW a \in Nat, NEW b \in Nat, NEW c \in Nat, a <= b
    PROVE  a * c \in Nat /\ b * c \in Nat /\ a * c <= b * c
<1>1. PICK d \in Nat : b = a + d
  <2>1. b - a \in Nat /\ b = a + (b - a) OBVIOUS
  <2> QED BY <2>1
<1>2. a * c \in Nat /\ d * c \in Nat OBVIOUS
<1>3. b * c = a * c + d * c BY <1>1
<1>4. \A x, y, z \in Nat : z = x + y => z \in Nat /\ x <= z OBVIOUS
<1>5. b * c \in Nat OBVIOUS
<1> QED BY <1>2, <1>3, <1>4, <1>5

LEMMA NumberedIs ==
    ASSUME NEW q \in Nat, NEW r \in Nat
    PROVE  /\ Numbered(q, r) \in Nat
           /\ Numbered(q, r + 1) = Numbered(q, r) + MaxCalls
           /\ r <= MaxRounds => Numbered(q, r) <= Numbered(q + 1, 0)
           /\ r <= MaxRounds /\ q + 1 <= MaxQuestions => Numbered(q, r) <= MaxQuestions * MaxRounds * MaxCalls
<1>1. MaxRounds \in Nat /\ MaxCalls \in Nat /\ MaxQuestions \in Nat BY ReactAssumption
<1>2. PICK a \in Nat : a = q * MaxRounds BY <1>1
<1>3. Numbered(q, r) = (a + r) * MaxCalls /\ a + r \in Nat BY <1>2 DEF Numbered
<1>4. Numbered(q, r) \in Nat
  <2>1. a + r \in Nat BY <1>2
  <2>2. (a + r) * MaxCalls \in Nat BY <2>1, <1>1, Bigger
  <2> QED BY <2>2, <1>3
<1>5. Numbered(q, r + 1) = (a + (r + 1)) * MaxCalls BY <1>2 DEF Numbered
<1>6. (a + (r + 1)) * MaxCalls = (a + r) * MaxCalls + MaxCalls
  <2>1. PICK n \in Nat : n = a + r BY <1>2
  <2>2. a + (r + 1) = n + 1 BY <2>1
  <2>3. (n + 1) * MaxCalls = n * MaxCalls + MaxCalls BY <1>1
  <2> QED BY <2>1, <2>2, <2>3
<1>7. ASSUME r <= MaxRounds PROVE Numbered(q, r) <= Numbered(q + 1, 0)
  <2>1. (q + 1) * MaxRounds = a + MaxRounds BY <1>1, <1>2
  <2>2. Numbered(q + 1, 0) = (a + MaxRounds + 0) * MaxCalls BY <2>1 DEF Numbered
  <2>3. a + r <= a + MaxRounds + 0 /\ a + r \in Nat /\ a + MaxRounds + 0 \in Nat BY <1>1, <1>2, <1>7
  <2> QED BY <2>2, <2>3, <1>1, <1>3, Bigger
<1>8. ASSUME r <= MaxRounds, q + 1 <= MaxQuestions PROVE Numbered(q, r) <= MaxQuestions * MaxRounds * MaxCalls
  <2>1. (q + 1) * MaxRounds = a + MaxRounds BY <1>1, <1>2
  <2>2. PICK b : b = MaxQuestions * MaxRounds OBVIOUS
  <2>3. b \in Nat /\ (q + 1) * MaxRounds <= b BY <2>2, <1>1, <1>8, Bigger
  <2>4. a + r <= b /\ a + r \in Nat BY <2>1, <2>3, <1>1, <1>2, <1>8
  <2>5. (a + r) * MaxCalls <= b * MaxCalls BY <2>3, <2>4, <1>1, Bigger
  <2> QED BY <2>2, <2>5, <1>3
<1> QED BY <1>4, <1>5, <1>6, <1>7, <1>8, <1>3

\* What an active turn knows of its calls.
LEMMA TurnCalls ==
    ASSUME ReactInv, reactPc # "idle"
    PROVE  /\ questions - 1 \in Nat /\ questions - 1 + 1 = questions /\ questions <= MaxQuestions
           /\ toolRound - 1 \in Nat /\ toolRound - 1 + 1 = toolRound /\ toolRound \in Nat /\ toolRound <= MaxRounds
           /\ MaxRounds \in Nat /\ MaxCalls \in Nat /\ calls \in Nat
           /\ calls <= Numbered(questions - 1, toolRound)
           /\ calls <= Numbered(questions, 0)
<1>1. /\ questions \in 0..MaxQuestions /\ questions # 0 /\ toolRound \in 0..MaxRounds /\ toolRound # 0 /\ calls \in Nat
      /\ MaxRounds \in Nat /\ MaxCalls \in Nat /\ MaxQuestions \in Nat
  BY ReactAssumption DEF ReactInv, ReactTypeOK
<1>2. PICK q \in Nat : q = questions - 1 /\ q + 1 = questions BY <1>1
<1>3. PICK r \in Nat : r = toolRound - 1 /\ r + 1 = toolRound BY <1>1
<1>4. r <= MaxRounds /\ r + 1 \in Nat /\ r + 1 <= MaxRounds BY <1>1, <1>3
<1>5. /\ Numbered(q, r) \in Nat /\ Numbered(q, r + 1) = Numbered(q, r) + MaxCalls
      /\ Numbered(q, r + 1) <= Numbered(q + 1, 0) /\ Numbered(q + 1, 0) \in Nat
  <2>1. Numbered(q, r) \in Nat /\ Numbered(q, r + 1) = Numbered(q, r) + MaxCalls BY NumberedIs
  <2>2. Numbered(q, r + 1) <= Numbered(q + 1, 0) BY <1>4, NumberedIs
  <2>3. q + 1 \in Nat /\ 0 \in Nat OBVIOUS
  <2>4. Numbered(q + 1, 0) \in Nat BY <2>3, NumberedIs
  <2> QED BY <2>1, <2>2, <2>4
<1>6. calls <= Numbered(q, r) \/ calls <= Numbered(q, r + 1)
  <2>1. reactPc \in {"thinking", "asking", "acting"} BY DEF ReactInv, ReactTypeOK
  <2> QED BY <2>1, <1>2, <1>3 DEF ReactInv, CallsSoFar
<1>7. calls <= Numbered(q, r + 1)
  <2>1. PICK x \in Nat : x = Numbered(q, r) BY <1>5
  <2>2. Numbered(q, r + 1) = x + MaxCalls BY <2>1, <1>5
  <2>3. calls <= x \/ calls <= x + MaxCalls BY <2>1, <2>2, <1>6
  <2>4. calls <= x + MaxCalls BY <2>3, <1>1
  <2> QED BY <2>2, <2>4
<1>8. calls <= Numbered(q + 1, 0)
  <2>1. PICK x \in Nat : x = Numbered(q + 1, 0) BY <1>5
  <2>2. PICK y \in Nat : y = Numbered(q, r + 1)
    <3>1. r + 1 \in Nat BY <1>4
    <3> QED BY <3>1, NumberedIs
  <2>3. calls <= y /\ y <= x BY <2>1, <2>2, <1>5, <1>7
  <2>4. calls <= x BY <2>3, <1>1
  <2> QED BY <2>1, <2>4
<1> QED BY <1>1, <1>2, <1>3, <1>7, <1>8

LEMMA Remembers ==
    ASSUME ReactTypeOK, NEW role \in {"user", "assistant"}
    PROVE  /\ Remembered(role) \in Seq({"user", "assistant"}) /\ Len(Remembered(role)) <= MaxMessages
           /\ Len(Remembered(role)) \in Nat \ {0}
           /\ memory = <<>> => Remembered(role) = <<role>>
<1> DEFINE R == {"user", "assistant"}
           all == Append(memory, role)
<1>1. MaxMessages \in Nat \ {0} BY ReactAssumption
<1>2. memory \in Seq(R) /\ Len(memory) <= MaxMessages /\ Len(memory) \in Nat BY DEF ReactTypeOK
<1> HIDE DEF R
<1>3. role \in R BY DEF R
<1>4. all \in Seq(R) /\ Len(all) = Len(memory) + 1 /\ all # <<>> BY <1>2, <1>3
<1>5. Remembered(role) = IF Len(all) > MaxMessages THEN Tail(all) ELSE all BY DEF Remembered
<1>6. memory = <<>> => all = <<role>> /\ Len(all) = 1 BY <1>4
<1> HIDE DEF all
<1>7. Tail(all) \in Seq(R) /\ Len(Tail(all)) = Len(all) - 1 BY <1>4
<1>8. CASE Len(all) > MaxMessages
  <2>1. Remembered(role) = Tail(all) BY <1>5, <1>8
  <2>2. Len(Tail(all)) = Len(memory) BY <1>2, <1>4, <1>7
  <2>3. Len(memory) # 0 BY <1>1, <1>2, <1>4, <1>8
  <2>4. memory # <<>> BY <2>3
  <2> QED BY <2>1, <2>2, <2>3, <2>4, <1>2, <1>7 DEF R
<1>9. CASE ~ (Len(all) > MaxMessages)
  <2>1. Remembered(role) = all BY <1>5, <1>9
  <2>2. Len(all) \in Nat \ {0} /\ Len(all) <= MaxMessages BY <1>1, <1>2, <1>4, <1>9
  <2> QED BY <2>1, <2>2, <1>4, <1>6 DEF R
<1> QED BY <1>8, <1>9

\* The turn ends.
LEMMA EndsStep ==
    ASSUME ReactInv, reactPc # "idle", reactPc' = "idle",
           memory' = memory \/ memory' = Remembered("assistant"),
           noProgress' \in 0..MaxNoProgress,
           UNCHANGED <<conversation, toolRound, attempt, todo, callHistory, calls, questions>>
    PROVE  ReactInv'
<1>1. memory' \in Seq({"user", "assistant"}) /\ Len(memory') <= MaxMessages
  BY Remembers DEF ReactInv, ReactTypeOK
<1>2. ReactTypeOK' BY <1>1 DEF ReactInv, ReactTypeOK
<1>3. questions' # 0 BY DEF ReactInv
<1>4. CallsSoFar'
  <2>1. calls' <= Numbered(questions', 0) BY TurnCalls
  <2> QED BY <2>1 DEF CallsSoFar
<1> QED BY <1>2, <1>3, <1>4 DEF ReactInv

\* The next round begins, or the turn ends.
LEMMA NextRoundStep ==
    ASSUME ReactInv, reactPc \in {"asking", "acting"}, CallsAreAnswered(conversation), NextRound,
           noProgress' \in 0..MaxNoProgress, noProgress' < MaxNoProgress,
           UNCHANGED <<conversation, attempt, todo, callHistory, calls, questions>>
    PROVE  ReactInv'
<1>1. CASE toolRound < MaxRounds
  <2>1. toolRound' = toolRound + 1 /\ reactPc' = "thinking" /\ memory' = memory BY <1>1 DEF NextRound
  <2>2. toolRound \in Nat /\ MaxRounds \in Nat BY TurnCalls
  <2>3. toolRound' \in 0..MaxRounds /\ toolRound' # 0 /\ toolRound' - 1 = toolRound BY <2>1, <2>2, <1>1
  <2>4. ReactTypeOK' BY <2>1, <2>3 DEF ReactInv, ReactTypeOK
  <2>5. CallsSoFar'
    <3>1. calls' <= Numbered(questions' - 1, toolRound' - 1) BY <2>3, TurnCalls
    <3> QED BY <3>1, <2>1 DEF CallsSoFar
  <2> QED BY <2>1, <2>3, <2>4, <2>5 DEF ReactInv
<1>2. CASE ~ (toolRound < MaxRounds)
  <2>1. reactPc' = "idle" /\ memory' = Remembered("assistant") /\ toolRound' = toolRound BY <1>2 DEF NextRound
  <2> QED BY <2>1, EndsStep
<1> QED BY <1>1, <1>2

LEMMA QuestionStep ==
    ASSUME ReactInv, Question
    PROVE  ReactInv'
<1>1. /\ reactPc = "idle" /\ questions < MaxQuestions /\ questions' = questions + 1 /\ memory' = Remembered("user")
      /\ toolRound' = 1 /\ reactPc' = "thinking" /\ attempt' = 0 /\ todo' = <<>> /\ callHistory' = <<>>
      /\ noProgress' = 0 /\ calls' = calls
  BY DEF Question
<1>2. /\ questions \in 0..MaxQuestions /\ calls \in Nat /\ MaxQuestions \in Nat
      /\ MaxRounds \in Nat \ {0} /\ MaxNoProgress \in Nat \ {0}
  BY ReactAssumption DEF ReactInv, ReactTypeOK
<1>3. /\ memory' \in Seq({"user", "assistant"}) /\ Len(memory') <= MaxMessages /\ Len(memory') \in Nat \ {0}
      /\ memory = <<>> => memory' = <<"user">>
  BY <1>1, Remembers DEF ReactInv
<1> DEFINE k   == Len(memory') - 1
           mid == [n \in 1..k |-> Said(memory'[n])]
           c   == <<Said("system")>> \o mid \o <<Said("question")>>
<1>4. conversation' = c BY DEF Question
<1>5. k \in Nat BY <1>3
<1>6. /\ mid \in Seq(Messages) /\ Len(mid) = k /\ DOMAIN mid = 1..k
      /\ \A x \in ToSet(mid) : x.role \in {"user", "assistant"}
  <2>1. PICK m : m = memory' OBVIOUS
  <2>2. \A n \in 1..k : m[n] \in {"user", "assistant"}
    <3>1. m \in Seq({"user", "assistant"}) /\ Len(m) \in Nat \ {0} /\ k = Len(m) - 1 BY <2>1, <1>3
    <3>2. \A n \in 1..(Len(m) - 1) : n \in 1..Len(m) BY <3>1
    <3>3. \A n \in 1..Len(m) : m[n] \in {"user", "assistant"} BY <3>1
    <3> QED BY <3>1, <3>2, <3>3
  <2>3. mid = [n \in 1..k |-> Said(m[n])] BY <2>1
  <2>4. \A n \in 1..k : Said(m[n]) \in Messages /\ Said(m[n]).role \in {"user", "assistant"}
    BY <2>2, SaidIsMessage DEF Roles, Said, Message
  <2> HIDE DEF k, mid
  <2>5. mid \in [1..k -> Messages] BY <2>3, <2>4
  <2>6. mid \in Seq(Messages) /\ Len(mid) = k /\ DOMAIN mid = 1..k BY <2>5, <1>5
  <2>7. \A n \in DOMAIN mid : mid[n].role \in {"user", "assistant"} BY <2>3, <2>4, <2>6
  <2> QED BY <2>6, <2>7 DEF ToSet
<1>7. /\ Said("system") \in Messages /\ Said("question") \in Messages /\ Said("system").role = "system"
      /\ Said("question").role = "question"
  BY SaidIsMessage DEF Roles, Said, Message
<1> HIDE DEF k, mid
<1> DEFINE front == <<Said("system")>> \o mid
<1>8. /\ front \in Seq(Messages) /\ ToSet(front) = {Said("system")} \cup ToSet(mid) /\ front # <<>>
      /\ front[1] = Said("system") /\ 1 \in DOMAIN front
  <2>1. PICK h : h = <<Said("system")>> OBVIOUS
  <2>2. h \in Seq(Messages) /\ DOMAIN h = {1} /\ h[1] = Said("system") BY <2>1, <1>7
  <2>3. ToSet(h) = {Said("system")} BY <2>2 DEF ToSet
  <2>4. front = h \o mid BY <2>1
  <2> HIDE DEF front
  <2>5. front \in Seq(Messages) /\ ToSet(front) = {Said("system")} \cup ToSet(mid)
    BY <2>2, <2>3, <2>4, <1>6, Placed, PlacedMembers
  <2>6. 1 \in DOMAIN front /\ front[1] = h[1]
    <3>1. 1 \in DOMAIN h BY <2>2
    <3> QED BY <3>1, <2>2, <2>4, <1>6, Placed
  <2>7. front # <<>> BY <2>6
  <2> QED BY <2>2, <2>5, <2>6, <2>7
<1>9. c = front \o <<Said("question")>> BY DEF front
<1> HIDE DEF c, front
<1>10. /\ c \in Seq(Messages) /\ ToSet(c) = ToSet(front) \cup {Said("question")} /\ c # <<>>
       /\ c[1] = Said("system")
  <2>1. PICK h : h = <<Said("question")>> OBVIOUS
  <2>2. h \in Seq(Messages) /\ DOMAIN h = {1} /\ h[1] = Said("question") BY <2>1, <1>7
  <2>3. ToSet(h) = {Said("question")} BY <2>2 DEF ToSet
  <2>4. c = front \o h BY <2>1, <1>9
  <2>5. c \in Seq(Messages) /\ ToSet(c) = ToSet(front) \cup {Said("question")}
    BY <2>2, <2>3, <2>4, <1>8, Placed, PlacedMembers
  <2>6. 1 \in DOMAIN c /\ c[1] = front[1] BY <2>2, <2>4, <1>8, Placed
  <2>7. c # <<>> BY <2>6
  <2> QED BY <2>5, <2>6, <2>7, <1>8
<1>11. \A n \in DOMAIN c : c[n].role # "calls"
  <2>1. \A x \in ToSet(c) : x.role # "calls" BY <1>6, <1>7, <1>8, <1>10
  <2> QED BY <2>1 DEF ToSet
<1>12. CallsAreAnswered(c) /\ UsersFirst(c) BY <1>11 DEF CallsAreAnswered, UsersFirst
<1>13. questions + 1 = 1 => FirstTurn(c)
  <2> SUFFICES ASSUME questions + 1 = 1 PROVE FirstTurn(c)
    OBVIOUS
  <2>1. questions = 0 BY <1>2
  <2>2. memory' = <<"user">> BY <2>1, <1>3 DEF ReactInv
  <2>3. k = 0 BY <2>2 DEF k
  <2>4. ToSet(mid) = {} BY <2>3, <1>6 DEF ToSet
  <2>5. ToSet(c) = {Said("system"), Said("question")} BY <2>4, <1>8, <1>10
  <2> QED BY <2>5, <1>7 DEF FirstTurn, UserRoles
<1>14. Conversing(conversation', questions') BY <1>1, <1>4, <1>10, <1>12, <1>13 DEF Conversing
<1>15. ReactTypeOK'
  <2>1. questions' \in 0..MaxQuestions /\ toolRound' \in 0..MaxRounds /\ noProgress' \in 0..MaxNoProgress
    BY <1>1, <1>2
  <2>2. conversation' \in Seq([role: Roles, ids: SUBSET CallIds]) BY <1>4, <1>10 DEF Messages
  <2>3. todo' \in Seq([id: CallIds, key: CallKeys]) /\ callHistory' \in Seq(CallKeys) BY <1>1
  <2>4. attempt' \in 0..2 /\ calls' \in Nat /\ reactPc' \in {"idle", "thinking", "asking", "acting"} BY <1>1, <1>2
  <2> QED BY <2>1, <2>2, <2>3, <2>4, <1>3 DEF ReactTypeOK
<1>16. CallsSoFar'
  <2>1. questions' - 1 = questions /\ toolRound' - 1 = 0 BY <1>1, <1>2
  <2>2. calls <= Numbered(questions, 0) BY <1>1 DEF ReactInv, CallsSoFar
  <2> QED BY <2>1, <2>2, <1>1 DEF CallsSoFar
<1>17. questions' # 0 /\ noProgress' < MaxNoProgress BY <1>1, <1>2
<1> QED BY <1>1, <1>4, <1>12, <1>14, <1>15, <1>16, <1>17 DEF ReactInv

\* A round goes on, with the conversation or what a compaction leaves of it.
LEMMA RoundStep ==
    ASSUME ReactInv, reactPc \in {"thinking", "asking"}, reactPc' = "asking", attempt' \in 0..2, NEW keep \in Nat,
           conversation' = conversation \/ conversation' = Compact(conversation, keep),
           UNCHANGED <<memory, toolRound, todo, callHistory, noProgress, calls, questions>>
    PROVE  ReactInv'
<1>1. /\ conversation \in Seq(Messages) /\ Conversing(conversation, questions) /\ CallsAreAnswered(conversation)
  BY DEF ReactInv, ReactTypeOK, Messages
<1>2. /\ conversation' \in Seq(Messages) /\ Conversing(conversation', questions) /\ CallsAreAnswered(conversation')
  BY <1>1, CompactConverses
<1>3. ReactTypeOK' BY <1>2 DEF ReactInv, ReactTypeOK, Messages
<1>4. CallsSoFar' BY DEF ReactInv, CallsSoFar
<1> QED BY <1>2, <1>3, <1>4 DEF ReactInv

LEMMA BeginStep ==
    ASSUME ReactInv, BeginRound
    PROVE  ReactInv'
<1>1. KeepRecent \in Nat BY ReactAssumption
<1>2. attempt' \in 0..2 BY DEF BeginRound
<1> QED BY <1>1, <1>2, RoundStep DEF BeginRound

LEMMA OverflowStep ==
    ASSUME ReactInv, ModelOverflows
    PROVE  ReactInv'
<1>1. CASE attempt = 2
  <2>1. GiveUp /\ reactPc = "asking" BY <1>1 DEF ModelOverflows
  <2>2. noProgress' \in 0..MaxNoProgress BY <2>1 DEF GiveUp, ReactInv, ReactTypeOK
  <2> QED BY <2>1, <2>2, EndsStep DEF GiveUp
<1>2. CASE attempt # 2
  <2>1. KeepAggressive \in Nat BY ReactAssumption
  <2>2. attempt' \in 0..2 BY <1>2 DEF ModelOverflows, ReactInv, ReactTypeOK
  <2> QED BY <2>1, <2>2, <1>2, RoundStep DEF ModelOverflows
<1> QED BY <1>1, <1>2

LEMMA FailStep ==
    ASSUME ReactInv, ModelFails
    PROVE  ReactInv'
<1>1. CASE attempt > 0
  <2>1. GiveUp /\ reactPc = "asking" BY <1>1 DEF ModelFails
  <2>2. noProgress' \in 0..MaxNoProgress BY <2>1 DEF GiveUp, ReactInv, ReactTypeOK
  <2> QED BY <2>1, <2>2, EndsStep DEF GiveUp
<1>2. CASE ~ (attempt > 0)
  <2>1. attempt' \in 0..2 /\ KeepRecent \in Nat BY <1>2, ReactAssumption DEF ModelFails
  <2> QED BY <2>1, <1>2, RoundStep DEF ModelFails
<1> QED BY <1>1, <1>2

LEMMA AnswersStep ==
    ASSUME ReactInv, ModelAnswers
    PROVE  ReactInv'
<1>1. noProgress' \in 0..MaxNoProgress BY DEF ModelAnswers, ReactInv, ReactTypeOK
<1> QED BY <1>1, EndsStep DEF ModelAnswers

LEMMA NothingStep ==
    ASSUME ReactInv, ModelSaysNothing
    PROVE  ReactInv'
<1>1. reactPc = "asking" /\ noProgress' = noProgress + 1 BY DEF ModelSaysNothing
<1>2. noProgress \in 0..MaxNoProgress /\ noProgress < MaxNoProgress /\ MaxNoProgress \in Nat
  BY <1>1, ReactAssumption DEF ReactInv, ReactTypeOK
<1>3. noProgress' \in 0..MaxNoProgress BY <1>1, <1>2
<1>4. CASE noProgress' >= MaxNoProgress BY <1>1, <1>3, <1>4, EndsStep DEF ModelSaysNothing
<1>5. CASE ~ (noProgress' >= MaxNoProgress)
  <2>1. noProgress' < MaxNoProgress BY <1>2, <1>3, <1>5
  <2>2. CallsAreAnswered(conversation) BY <1>1 DEF ReactInv
  <2> QED BY <1>1, <1>3, <1>5, <2>1, <2>2, NextRoundStep DEF ModelSaysNothing
<1> QED BY <1>4, <1>5

LEMMA LoopStep ==
    ASSUME ReactInv, LoopDetected
    PROVE  ReactInv'
<1>1. noProgress' \in 0..MaxNoProgress BY DEF LoopDetected, GiveUp, ReactInv, ReactTypeOK
<1> QED BY <1>1, EndsStep DEF LoopDetected, GiveUp

LEMMA EndRoundStep ==
    ASSUME ReactInv, EndRound
    PROVE  ReactInv'
<1>1. conversation \in Seq(Messages) /\ calls \in Nat /\ Acting(conversation, <<>>, calls)
  BY DEF EndRound, ReactInv, ReactTypeOK, Messages
<1>2. CallsAreAnswered(conversation) BY <1>1, AllRan
<1>3. noProgress' \in 0..MaxNoProgress /\ noProgress' < MaxNoProgress BY ReactAssumption DEF EndRound
<1> QED BY <1>2, <1>3, NextRoundStep DEF EndRound

LEMMA RunStep ==
    ASSUME ReactInv, RunTool
    PROVE  ReactInv'
<1>1. /\ reactPc = "acting" /\ todo # <<>> /\ callHistory' = Append(callHistory, Head(todo).key)
      /\ conversation' = Append(conversation, Message("tool", {Head(todo).id})) /\ todo' = Tail(todo)
      /\ UNCHANGED <<reactPc, memory, toolRound, attempt, noProgress, calls, questions>>
  BY DEF RunTool
<1>2. /\ conversation \in Seq(Messages) /\ calls \in Nat /\ Acting(conversation, todo, calls)
      /\ Conversing(conversation, questions)
  BY <1>1 DEF ReactInv, ReactTypeOK, Messages
<1> DEFINE T == [id: CallIds, key: CallKeys]
<1>3. todo \in Seq(T) /\ callHistory \in Seq(CallKeys) BY DEF ReactInv, ReactTypeOK
<1>4. Head(todo).id \in CallIds /\ Head(todo).key \in CallKeys /\ Tail(todo) \in Seq(T)
  <2>1. Head(todo) \in T /\ Tail(todo) \in Seq(T)
    <3> HIDE DEF T
    <3> QED BY <1>1, <1>3
  <2> QED BY <2>1
<1>5. PICK x : x = Message("tool", {Head(todo).id}) OBVIOUS
<1>6. x \in Messages /\ x.role = "tool" BY <1>4, <1>5 DEF Message, Messages, Roles
<1>7. conversation' = Append(conversation, x) BY <1>1, <1>5
<1>8. conversation' \in Seq(Messages) /\ Conversing(conversation', questions) BY <1>2, <1>6, <1>7, AppendConverses
<1>9. Acting(conversation', todo', calls) BY <1>1, <1>2, <1>3, <1>5, <1>6, <1>7, CallRuns
<1>10. ReactTypeOK'
  <2>1. callHistory' \in Seq(CallKeys) BY <1>1, <1>3, <1>4
  <2>2. todo' \in Seq([id: CallIds, key: CallKeys]) BY <1>1, <1>4
  <2> QED BY <2>1, <2>2, <1>1, <1>8 DEF ReactInv, ReactTypeOK, Messages
<1>11. CallsSoFar' BY <1>1 DEF ReactInv, CallsSoFar
<1> QED BY <1>1, <1>8, <1>9, <1>10, <1>11 DEF ReactInv

LEMMA CallsStep ==
    ASSUME ReactInv, NEW keys \in BoundedSeq(CallKeys, MaxCalls), ModelCalls(keys)
    PROVE  ReactInv'
<1>1. PICK k \in 0..MaxCalls : keys \in [1..k -> CallKeys] BY DEF BoundedSeq, SeqOf
<1>2. k \in Nat /\ k <= MaxCalls /\ MaxCalls \in Nat BY <1>1, ReactAssumption
<1>3. DOMAIN keys = 1..k /\ Len(keys) = k BY <1>1, <1>2
<1> DEFINE asked == [n \in DOMAIN keys |-> [id |-> calls + n, key |-> keys[n]]]
           T     == [id: CallIds, key: CallKeys]
           ids   == {asked[n].id : n \in DOMAIN asked}
<1>4. /\ reactPc = "asking" /\ reactPc' = "acting" /\ calls' = calls + k /\ todo' = asked
      /\ conversation' = Append(conversation, Message("calls", ids))
      /\ UNCHANGED <<memory, toolRound, attempt, callHistory, noProgress, questions>>
  BY <1>3 DEF ModelCalls
<1>5. /\ conversation \in Seq(Messages) /\ calls \in Nat /\ CallsAreAnswered(conversation)
      /\ Conversing(conversation, questions)
  BY <1>4 DEF ReactInv, ReactTypeOK, Messages
<1>6. /\ DOMAIN asked = 1..k /\ \A n \in 1..k : asked[n].id = calls + n /\ asked[n].key \in CallKeys
  BY <1>1, <1>3
<1>7. ids = (calls + 1)..(calls + k)
  <2>1. \A n \in 1..k : calls + n \in (calls + 1)..(calls + k) BY <1>2, <1>5
  <2>2. \A i \in (calls + 1)..(calls + k) : i - calls \in 1..k /\ calls + (i - calls) = i BY <1>2, <1>5
  <2>3. ids = {calls + n : n \in 1..k} BY <1>6
  <2> HIDE DEF ids, asked
  <2> QED BY <2>1, <2>2, <2>3
<1>8. /\ calls + k <= Numbered(questions - 1, toolRound)
      /\ calls + k <= MaxQuestions * MaxRounds * MaxCalls
  <2>1. /\ questions - 1 \in Nat /\ questions - 1 + 1 = questions /\ questions <= MaxQuestions
        /\ toolRound - 1 \in Nat /\ toolRound - 1 + 1 = toolRound /\ toolRound \in Nat /\ toolRound <= MaxRounds
    BY <1>4, TurnCalls
  <2>2. PICK q \in Nat : q = questions - 1 /\ q + 1 = questions BY <2>1
  <2>3. PICK r \in Nat : r = toolRound - 1 /\ r + 1 = toolRound BY <2>1
  <2>4. PICK a \in Nat : a = Numbered(q, r) BY NumberedIs
  <2>5. Numbered(q, r + 1) = a + MaxCalls BY <2>4, NumberedIs
  <2>6. calls <= a BY <1>4, <2>2, <2>3, <2>4 DEF ReactInv, CallsSoFar
  <2>7. calls + k <= a + MaxCalls BY <2>6, <1>2, <1>5
  <2>8. Numbered(q, r + 1) <= MaxQuestions * MaxRounds * MaxCalls
    <3>1. r + 1 \in Nat /\ r + 1 <= MaxRounds /\ q + 1 <= MaxQuestions BY <2>1, <2>2, <2>3
    <3> QED BY <3>1, NumberedIs
  <2>9. calls + k <= MaxQuestions * MaxRounds * MaxCalls
    <3>1. PICK b : b = MaxQuestions * MaxRounds * MaxCalls OBVIOUS
    <3>2. b \in Nat BY <3>1, ReactAssumption
    <3>3. a + MaxCalls <= b BY <3>1, <2>5, <2>8
    <3>4. calls + k <= b BY <3>2, <3>3, <2>7, <1>2, <1>5
    <3> QED BY <3>1, <3>4
  <2> QED BY <2>2, <2>3, <2>5, <2>7, <2>9
<1>9. (calls + 1)..(calls + k) \subseteq CallIds
  <2>1. PICK b : b = MaxQuestions * MaxRounds * MaxCalls OBVIOUS
  <2>2. b \in Nat BY <2>1, ReactAssumption
  <2>3. calls + k <= b BY <2>1, <1>8
  <2>4. (calls + 1)..(calls + k) \subseteq 1..b BY <2>2, <2>3, <1>2, <1>5
  <2> QED BY <2>1, <2>4 DEF CallIds
<1>10. asked \in Seq(T) /\ Len(asked) = k
  <2>1. \A n \in 1..k : calls + n \in (calls + 1)..(calls + k) BY <1>2, <1>5
  <2>2. \A n \in 1..k : asked[n] \in T BY <2>1, <1>1, <1>3, <1>9
  <2>3. asked = [n \in 1..k |-> asked[n]] BY <1>3
  <2> HIDE DEF asked, T
  <2>4. asked \in [1..k -> T] BY <2>2, <2>3
  <2> QED BY <2>4, <1>2
<1> HIDE DEF asked, ids
<1>11. PICK x : x = Message("calls", ids) OBVIOUS
<1>12. x \in Messages /\ x.role = "calls" BY <1>7, <1>9, <1>11 DEF Message, Messages, Roles
<1>13. conversation' = Append(conversation, x) BY <1>4, <1>11
<1>14. conversation' \in Seq(Messages) /\ Conversing(conversation', questions)
  BY <1>5, <1>12, <1>13, AppendConverses
<1>15. Acting(conversation', todo', calls')
  <2>1. x = Message("calls", (calls + 1)..(calls + k)) BY <1>7, <1>11
  <2>2. Acting(Append(conversation, x), asked, calls + k)
    BY <2>1, <1>2, <1>5, <1>6, <1>10, <1>12, CallsAsked
  <2> QED BY <2>2, <1>4, <1>13
<1>16. ReactTypeOK'
  <2>1. calls' \in Nat BY <1>2, <1>4, <1>5
  <2>2. todo' \in Seq([id: CallIds, key: CallKeys]) BY <1>4, <1>10
  <2> QED BY <2>1, <2>2, <1>4, <1>14 DEF ReactInv, ReactTypeOK, Messages
<1>17. CallsSoFar' BY <1>4, <1>8 DEF CallsSoFar
<1> QED BY <1>4, <1>14, <1>15, <1>16, <1>17 DEF ReactInv

LEMMA ReactStarts ==
    ASSUME ReactInit
    PROVE  ReactInv
<1>1. ReactTypeOK BY ReactAssumption DEF ReactInit, ReactTypeOK
<1>2. CallsSoFar
  <2>1. 0 \in Nat /\ Numbered(0, 0) \in Nat BY NumberedIs
  <2>2. 0 <= Numbered(0, 0) BY <2>1
  <2> QED BY <2>2 DEF ReactInit, CallsSoFar
<1> QED BY <1>1, <1>2 DEF ReactInit, ReactInv

LEMMA ReactInvariance == ReactSpec => []ReactInv
<1>1. ReactInit => ReactInv BY ReactStarts
<1>2. ReactInv /\ [ReactNext]_reactVars => ReactInv'
  <2> SUFFICES ASSUME ReactInv, [ReactNext]_reactVars PROVE ReactInv'
    OBVIOUS
  <2>1. CASE Question BY <2>1, QuestionStep
  <2>2. CASE BeginRound BY <2>2, BeginStep
  <2>3. CASE ModelOverflows BY <2>3, OverflowStep
  <2>4. CASE ModelFails BY <2>4, FailStep
  <2>5. CASE ModelAnswers BY <2>5, AnswersStep
  <2>6. CASE ModelSaysNothing BY <2>6, NothingStep
  <2>7. ASSUME NEW keys \in BoundedSeq(CallKeys, MaxCalls), ModelCalls(keys) PROVE ReactInv'
    BY <2>7, CallsStep
  <2>8. CASE LoopDetected BY <2>8, LoopStep
  <2>9. CASE RunTool BY <2>9, RunStep
  <2>10. CASE EndRound BY <2>10, EndRoundStep
  <2>11. CASE UNCHANGED reactVars
    BY <2>11 DEF reactVars, ReactInv, ReactTypeOK, CallsSoFar
  <2> QED BY <2>1, <2>2, <2>3, <2>4, <2>5, <2>6, <2>7, <2>8, <2>9, <2>10, <2>11 DEF ReactNext
<1> QED BY <1>1, <1>2, PTL DEF ReactSpec

\* The types of what process_message keeps; above all the numbers of calls.
THEOREM ReactTypes == ReactSpec => []ReactTypeOK
<1>1. ReactInv => ReactTypeOK BY DEF ReactInv
<1> QED BY <1>1, ReactInvariance, PTL

\* For any numbers of messages, calls, rounds and turns, any compactions and
\* any answers of the model: no call in what it is sent lacks a result.
THEOREM RequestsAnswerable == ReactSpec => []RequestsAreAnswerable
<1>1. ReactInv => RequestsAreAnswerable
  <2> SUFFICES ASSUME ReactInv, reactPc = "asking"
               PROVE  /\ conversation[1] = Said("system")
                      /\ CallsAreAnswered(conversation)
                      /\ questions = 1 => Said("question") \in ToSet(conversation)
    BY DEF RequestsAreAnswerable
  <2> QED BY DEF ReactInv, Conversing, FirstTurn
<1> QED BY <1>1, ReactInvariance, PTL

-------------------------------------------------------------------------------
(***************************************************************************)
(* Executions and orders of the live engine, for any finite set of orders, *)
(* any quantities the venue executes, any reports, losses of the stream,   *)
(* rounds of the reconciliation, cancellations and answers of the REST     *)
(* calls.                                                                  *)
(*                                                                         *)
(* The argument: what the engine has booked of an order and what the       *)
(* queued events still report of it as last executed add up to what the    *)
(* venue has executed. Every step moves one term of one of these sums: the *)
(* venue executes and queues a report, the engine takes a report off the   *)
(* queue and books it, or a loss of the stream empties the queue (Books).  *)
(* As long as nothing was lost the last queued event of an order tells of  *)
(* its state at the venue (Tells); taking that one off the queue is what   *)
(* makes the engine's order agree.                                         *)
(***************************************************************************)

\* What the venue has executed, and what events of the queue report as executed.
ExecutedOf(v) == MapThenSumSet(LAMBDA o : v[o].filled, Orders)
LastsOf(ev, S) == MapThenSumSet(LAMBDA n : ev[n].last, S)

LEMMA ExecutedIsSum ==
    ASSUME NEW v
    PROVE  ExecutedOf(v) = SumOver([o \in Orders |-> v[o].filled], Orders)
<1> DEFINE f == [o \in Orders |-> v[o].filled]
           body(g) == [s \in SUBSET Orders |-> IF s = {} THEN 0 ELSE v[Pick(s)].filled + g[s \ {Pick(s)}]]
           c == CHOOSE g : g = body(g)
<1>1. ExecutedOf(v) = c[Orders]
  BY DEF ExecutedOf, MapThenSumSet, MapThenFoldSet, Pick
<1>2. ASSUME NEW g PROVE SumStep(g, f, Orders) <=> g = body(g)
  <2>1. \A s \in SUBSET Orders : s # {} => f[Pick(s)] = v[Pick(s)].filled
    BY PickIn
  <2> DEFINE other == [s \in SUBSET Orders |-> IF s = {} THEN 0 ELSE f[Pick(s)] + g[s \ {Pick(s)}]]
  <2>2. body(g) = other
    <3> HIDE DEF f
    <3> QED BY <2>1
  <2> HIDE DEF f, body
  <2> QED BY <2>2 DEF SumStep
<1>3. IsFiniteSet(Orders) BY LiveAssumption DEF LiveAssumption
<1> HIDE DEF f, body
<1>4. \E g : g = body(g) BY <1>2, <1>3, SumStepExists
<1>5. c = body(c) BY <1>4
<1> HIDE DEF c
<1>6. SumStep(c, f, Orders) BY <1>2, <1>5
<1>7. c[Orders] = SumOver(f, Orders) BY <1>3, <1>6, SumValue
<1> QED BY <1>1, <1>7 DEF f

\* The model's own sums are these.
LEMMA ExecutedNow == Executed = ExecutedOf(venueOrders)
  BY DEF Executed, ExecutedOf, MapThenSumSet, MapThenFoldSet
LEMMA ExecutedNext == Executed' = ExecutedOf(venueOrders')
  BY DEF Executed, ExecutedOf, MapThenSumSet, MapThenFoldSet

-------------------------------------------------------------------------------
(* The queue of events, as it looks to one order *)

\* The events of o, and what they report as executed.
For(o, e) == e.kind = "order" /\ e.order = o
EventsIn(ev, o) == {n \in 1..Len(ev) : ev[n].kind = "order" /\ ev[n].order = o}
Coming(ev, o) == LastsOf(ev, EventsIn(ev, o))

\* The last event of o in ev tells of state v.
LastTells(ev, o, v) ==
    \E n \in EventsIn(ev, o) : ev[n].state = v /\ \A m \in EventsIn(ev, o) : m <= n

LEMMA Constants ==
    /\ IsFiniteSet(Orders) /\ Quantity \in Nat /\ Quantity > 0 /\ MaxDrops \in Nat
    /\ \A o \in Orders, kind \in {"live", "ext", "recon"} : <<kind, o>> # Untracked /\ <<kind, o>> \in InternalIds
BY LiveAssumption DEF LiveAssumption, InternalIds

LEMMA LastsIsSum ==
    ASSUME NEW ev, NEW S, IsFiniteSet(S)
    PROVE  LastsOf(ev, S) = SumOver([n \in S |-> ev[n].last], S)
<1> DEFINE f == [n \in S |-> ev[n].last]
           body(g) == [s \in SUBSET S |-> IF s = {} THEN 0 ELSE ev[Pick(s)].last + g[s \ {Pick(s)}]]
           c == CHOOSE g : g = body(g)
<1>1. LastsOf(ev, S) = c[S]
  BY DEF LastsOf, MapThenSumSet, MapThenFoldSet, Pick
<1>2. ASSUME NEW g PROVE SumStep(g, f, S) <=> g = body(g)
  <2>1. \A s \in SUBSET S : s # {} => f[Pick(s)] = ev[Pick(s)].last
    BY PickIn
  <2> DEFINE other == [s \in SUBSET S |-> IF s = {} THEN 0 ELSE f[Pick(s)] + g[s \ {Pick(s)}]]
  <2>2. body(g) = other
    <3> HIDE DEF f
    <3> QED BY <2>1
  <2> HIDE DEF f, body
  <2> QED BY <2>2 DEF SumStep
<1> HIDE DEF f, body
<1>4. \E g : g = body(g) BY <1>2, SumStepExists
<1>5. c = body(c) BY <1>4
<1> HIDE DEF c
<1>6. SumStep(c, f, S) BY <1>2, <1>5
<1>7. c[S] = SumOver(f, S) BY <1>6, SumValue
<1> QED BY <1>1, <1>7 DEF f

LEMMA EventFields ==
    ASSUME NEW e \in Events
    PROVE  /\ e.kind \in {"order", "balance"}
           /\ e.kind = "order" => e.order \in Orders /\ e.state \in VenueStates /\ e.last \in 0..Quantity
           /\ e.kind = "balance" => e.balance \in Nat
BY DEF Events

LEMMA EventsInFinite ==
    ASSUME NEW ev \in Seq(Events), NEW o
    PROVE  /\ IsFiniteSet(EventsIn(ev, o))
           /\ \A n \in EventsIn(ev, o) : ev[n] \in Events /\ ev[n].last \in Int /\ ev[n].last >= 0
           /\ EventsIn(ev, o) \subseteq 1..Len(ev)
           /\ Coming(ev, o) \in Nat
<1>1. IsFiniteSet(1..Len(ev)) BY FS_Interval
<1>2. EventsIn(ev, o) \subseteq 1..Len(ev) BY DEF EventsIn
<1>3. IsFiniteSet(EventsIn(ev, o)) BY <1>1, <1>2, FS_Subset
<1>4. ASSUME NEW n \in EventsIn(ev, o)
      PROVE  ev[n] \in Events /\ ev[n].last \in Nat
  <2>1. ev[n] \in Events /\ ev[n].kind = "order" BY DEF EventsIn
  <2> QED BY <2>1, EventFields, Constants
<1>5. Coming(ev, o) \in Nat
  <2> DEFINE f == [n \in EventsIn(ev, o) |-> ev[n].last]
  <2>1. \A n \in EventsIn(ev, o) : f[n] \in Nat BY <1>4
  <2>2. Coming(ev, o) = SumOver(f, EventsIn(ev, o)) BY <1>3, LastsIsSum DEF Coming
  <2> HIDE DEF f
  <2> QED BY <2>1, <2>2, <1>3, SumNat
<1> QED BY <1>2, <1>3, <1>4, <1>5

LEMMA AppendEvent ==
    ASSUME NEW ev \in Seq(Events), NEW e \in Events, NEW o \in Orders
    PROVE  LET T == Append(ev, e)
           IN  /\ T \in Seq(Events)
               /\ For(o, e) => LastTells(T, o, e.state) /\ Coming(T, o) = Coming(ev, o) + e.last
               /\ ~ For(o, e) => /\ EventsIn(T, o) = EventsIn(ev, o)
                                 /\ Coming(T, o) = Coming(ev, o)
                                 /\ \A v : LastTells(ev, o, v) => LastTells(T, o, v)
<1> DEFINE T == Append(ev, e)
           E == EventsIn(ev, o)
           F == EventsIn(T, o)
           f == [n \in E |-> ev[n].last]
           g == [n \in F |-> T[n].last]
<1>1. /\ T \in Seq(Events) /\ Len(T) = Len(ev) + 1 /\ T[Len(ev) + 1] = e
      /\ \A n \in 1..Len(ev) : T[n] = ev[n]
  BY AppendProperties
<1>2. Len(ev) \in Nat OBVIOUS
<1>3. E \subseteq 1..Len(ev) /\ IsFiniteSet(E) /\ IsFiniteSet(F) BY <1>1, EventsInFinite
<1>4. \A n \in E : T[n] = ev[n] BY <1>1, <1>3
<1>5. Coming(ev, o) = SumOver(f, E) BY <1>3, LastsIsSum DEF Coming
<1>6. Coming(T, o) = SumOver(g, F)
  <2> HIDE DEF T
  <2> QED BY <1>3, LastsIsSum DEF Coming
<1> HIDE DEF T
<1>7. CASE For(o, e)
  <2> DEFINE k == Len(ev) + 1
  <2>1. F = E \cup {k} BY <1>1, <1>2, <1>7 DEF EventsIn, For
  <2>2. k \notin E /\ \A m \in F : m <= k BY <1>2, <1>3, <2>1
  <2>3. g[k] = e.last BY <1>1, <2>1
  <2>4. \A n \in E : f[n] = g[n] BY <1>4, <2>1
  <2>5. \A n \in F : g[n] \in Int BY <1>1, EventsInFinite
  <2> HIDE DEF f, g, E, F, k
  <2>6. SumOver(g, E) = SumOver(f, E) BY <1>3, <2>4, SumEqual
  <2>7. SumOver(g, F) = SumOver(g, E) + g[k] BY <1>3, <2>1, <2>2, <2>5, SumAdd
  <2>8. LastTells(T, o, e.state) BY <1>1, <2>1, <2>2 DEF LastTells, F, k
  <2> QED BY <1>1, <1>5, <1>6, <1>7, <2>3, <2>6, <2>7, <2>8 DEF T
<1>8. CASE ~ For(o, e)
  <2>1. F = E BY <1>1, <1>2, <1>8 DEF EventsIn, For
  <2>2. \A n \in E : f[n] = g[n] BY <1>4, <2>1
  <2>3. ASSUME NEW v, LastTells(ev, o, v) PROVE LastTells(T, o, v)
    BY <2>1, <2>3, <1>4 DEF LastTells
  <2> HIDE DEF f, g, E, F
  <2>4. Coming(T, o) = Coming(ev, o) BY <1>3, <1>5, <1>6, <2>1, <2>2, SumEqual
  <2> QED BY <1>1, <1>8, <2>1, <2>3, <2>4 DEF T, E, F
<1> QED BY <1>7, <1>8

LEMMA TailEvent ==
    ASSUME NEW ev \in Seq(Events), ev # <<>>, NEW o \in Orders
    PROVE  LET T == Tail(ev)
               h == Head(ev)
           IN  /\ T \in Seq(Events) /\ h \in Events
               /\ For(o, h) => /\ Coming(ev, o) = h.last + Coming(T, o)
                               /\ EventsIn(ev, o) # {}
                               /\ \A v : EventsIn(T, o) = {} /\ LastTells(ev, o, v) => h.state = v
               /\ ~ For(o, h) => /\ Coming(ev, o) = Coming(T, o)
                                 /\ EventsIn(T, o) = {} <=> EventsIn(ev, o) = {}
               /\ \A v : LastTells(ev, o, v) /\ EventsIn(T, o) # {} => LastTells(T, o, v)
<1> DEFINE T == Tail(ev)
           h == Head(ev)
           E == EventsIn(ev, o)
           F == EventsIn(T, o)
           f == [n \in E |-> ev[n].last]
           g == [n \in F |-> T[n].last]
           shift == [n \in F |-> n + 1]
<1>1. /\ T \in Seq(Events) /\ h \in Events /\ h = ev[1] /\ Len(T) = Len(ev) - 1
      /\ \A n \in 1..Len(T) : T[n] = ev[n + 1]
  BY HeadTailProperties
<1>2. Len(ev) \in Nat /\ Len(ev) > 0 BY LenProperties, EmptySeq
<1>3. /\ E \subseteq 1..Len(ev) /\ F \subseteq 1..Len(T) /\ IsFiniteSet(E) /\ IsFiniteSet(F)
      /\ \A n \in E : ev[n].last \in Int
      /\ \A n \in F : T[n].last \in Int
  BY <1>1, EventsInFinite
<1>4. Coming(ev, o) = SumOver(f, E) BY <1>3, LastsIsSum DEF Coming
<1>5. Coming(T, o) = SumOver(g, F)
  <2> HIDE DEF T
  <2> QED BY <1>3, LastsIsSum DEF Coming
<1> HIDE DEF T, h
<1>6. \A n \in F : n + 1 \in E /\ n + 1 # 1 /\ T[n] = ev[n + 1]
  BY <1>1, <1>2, <1>3 DEF EventsIn
<1>7. \A n \in E : n # 1 => n - 1 \in F
  BY <1>1, <1>2, <1>3 DEF EventsIn
<1>8. {shift[n] : n \in F} = E \ {1}
  <2>1. \A n \in F : shift[n] \in E \ {1} BY <1>6
  <2>2. \A n \in E \ {1} : shift[n - 1] = n /\ n - 1 \in F BY <1>7, <1>3
  <2>3. \A n \in E \ {1} : \E m \in F : shift[m] = n BY <2>2
  <2> HIDE DEF shift, E, F
  <2> QED BY <2>1, <2>3
<1>9. SumOver(g, F) = SumOver(f, E \ {1})
  <2>1. \A n \in F : g[n] \in Int /\ f[shift[n]] = g[n] BY <1>3, <1>6
  <2>2. \A m, n \in F : shift[m] = shift[n] => m = n BY <1>3
  <2> HIDE DEF f, g, shift, F, E
  <2>3. IsFiniteSet(F) BY <1>3
  <2> QED BY <1>8, <2>1, <2>2, <2>3, SumRename
<1>10. 1 \in E <=> For(o, h) BY <1>1, <1>2 DEF EventsIn, For
<1>11. ASSUME NEW v, LastTells(ev, o, v), F # {} PROVE LastTells(T, o, v)
  <2>1. PICK n \in E : ev[n].state = v /\ \A m \in E : m <= n BY <1>11 DEF LastTells
  <2>2. n # 1 BY <1>3, <1>6, <1>11, <2>1
  <2>3. n - 1 \in F /\ T[n - 1] = ev[n]
    <3>1. n - 1 \in F BY <2>2, <1>7
    <3>2. T[n - 1] = ev[(n - 1) + 1] BY <3>1, <1>6
    <3>3. n \in Int BY <1>3
    <3> QED BY <3>1, <3>2, <3>3
  <2>4. \A m \in F : m <= n - 1 BY <1>3, <1>6, <2>1
  <2> QED BY <2>1, <2>3, <2>4 DEF LastTells
<1>12. CASE For(o, h)
  <2>1. SumOver(f, E) = f[1] + SumOver(f, E \ {1})
    <3>1. \A n \in E : f[n] \in Int BY <1>3
    <3>2. 1 \in E BY <1>10, <1>12
    <3>3. IsFiniteSet(E) BY <1>3
    <3> HIDE DEF f, g, shift, E, F
    <3> QED BY <3>1, <3>2, <3>3, SumRemove
  <2>2. f[1] = h.last BY <1>1, <1>10, <1>12
  <2>3. ASSUME NEW v, F = {}, LastTells(ev, o, v) PROVE h.state = v
    <3>1. PICK n \in E : ev[n].state = v BY <2>3 DEF LastTells
    <3>2. n = 1 BY <1>7, <2>3
    <3> QED BY <3>1, <3>2, <1>1
  <2> HIDE DEF f, g, shift, E, F
  <2> QED BY <1>1, <1>4, <1>5, <1>9, <1>10, <1>11, <1>12, <2>1, <2>2, <2>3 DEF T, h, E, F
<1>13. CASE ~ For(o, h)
  <2>1. E \ {1} = E BY <1>10, <1>13
  <2>2. F = {} <=> E = {} BY <1>6, <1>7, <1>10, <1>13
  <2> HIDE DEF f, g, shift, E, F
  <2> QED BY <1>1, <1>4, <1>5, <1>9, <1>11, <1>13, <2>1, <2>2 DEF T, h, E, F
<1> QED BY <1>12, <1>13

-------------------------------------------------------------------------------
(* What is booked of an order *)

IdsOf(o) == {i \in InternalIds : i[2] = o}
Booked(fl, o) == MapThenSumSet(LAMBDA i : fl[i], IdsOf(o))

LEMMA IdsOfFinite == \A o : IsFiniteSet(IdsOf(o))
<1> SUFFICES ASSUME NEW o PROVE IsFiniteSet(IdsOf(o))
  OBVIOUS
<1> DEFINE three == {<<"live", o>>, <<"ext", o>>, <<"recon", o>>}
<1>1. IsFiniteSet({<<"live", o>>}) BY FS_Singleton
<1>2. IsFiniteSet({<<"live", o>>} \cup {<<"ext", o>>}) BY <1>1, FS_AddElement
<1>3. IsFiniteSet(({<<"live", o>>} \cup {<<"ext", o>>}) \cup {<<"recon", o>>}) BY <1>2, FS_AddElement
<1>4. three = ({<<"live", o>>} \cup {<<"ext", o>>}) \cup {<<"recon", o>>} OBVIOUS
<1>5. IdsOf(o) \subseteq three BY DEF IdsOf, InternalIds
<1> HIDE DEF three
<1> QED BY <1>3, <1>4, <1>5, FS_Subset

LEMMA BookedIsSum == \A fl, o : Booked(fl, o) = SumOver(fl, IdsOf(o))
  BY DEF Booked, SumOver, MapThenSumSet, MapThenFoldSet

LEMMA BookedNat ==
    ASSUME NEW fl \in [InternalIds -> Nat], NEW o
    PROVE  Booked(fl, o) \in Nat
<1>1. \A i \in IdsOf(o) : fl[i] \in Nat BY DEF IdsOf
<1> QED BY <1>1, BookedIsSum, IdsOfFinite, SumNat

\* A fill adds to what is booked of its order, and to nothing else.
LEMMA BookOne ==
    ASSUME NEW fl \in [InternalIds -> Nat], NEW i \in InternalIds, NEW x \in Nat, NEW o,
           NEW fm \in [InternalIds -> Nat], fm[i] = fl[i] + x,
           \A j \in InternalIds \ {i} : fm[j] = fl[j]
    PROVE  Booked(fm, o) = Booked(fl, o) + (IF i[2] = o THEN x ELSE 0)
<1>1. /\ \A j \in IdsOf(o) : fl[j] \in Int /\ fm[j] \in Int
      /\ \A j \in IdsOf(o) \ {i} : fl[j] = fm[j]
      /\ fm[i] = fl[i] + x
  BY DEF IdsOf
<1>2. i[2] = o <=> i \in IdsOf(o) BY DEF IdsOf
<1>3. SumOver(fl, IdsOf(o)) \in Int /\ fl[i] \in Int BY BookedNat, BookedIsSum
<1>4. CASE i \in IdsOf(o)
  <2>1. SumOver(fm, IdsOf(o)) = SumOver(fl, IdsOf(o)) + fm[i] - fl[i]
    BY <1>1, <1>4, IdsOfFinite, SumExcept
  <2> QED BY <1>1, <1>2, <1>3, <1>4, <2>1, BookedIsSum
<1>5. CASE i \notin IdsOf(o)
  <2>1. \A j \in IdsOf(o) : fl[j] = fm[j] BY <1>1, <1>5
  <2>2. SumOver(fl, IdsOf(o)) = SumOver(fm, IdsOf(o)) BY <2>1, IdsOfFinite, SumEqual
  <2> QED BY <1>2, <1>3, <1>5, <2>2, BookedIsSum
<1> QED BY <1>4, <1>5

-------------------------------------------------------------------------------
(* What the stream tells *)

ReportWith(o, u, v, x) ==
    <<[kind |-> "order", order |-> o, state |-> v, last |-> v.filled - u.filled]>>
      \o IF v.filled - u.filled > 0 THEN <<[kind |-> "balance", balance |-> x]>> ELSE <<>>

LEMMA ReportIs == \A o, u, v : Report(o, u, v) = ReportWith(o, u, v, Executed')
  BY DEF Report, ReportWith

LEMMA StateFields ==
    /\ \A v \in VenueStates : v.status \in VenueStatuses /\ v.filled \in 0..Quantity
    /\ NotThere.filled = 0 /\ NotThere.status = "none" /\ NotThere \notin VenueStates
    /\ \A v \in VenueStates \cup {NotThere} : v.filled \in 0..Quantity
    /\ NewOrder \in VenueStates /\ NewOrder.filled = 0 /\ NewOrder # NotThere
BY Constants DEF VenueStates, NotThere, VenueStatuses, NewOrder

\* What T adds to the events ev: that order o went from state u to v.
Told(ev, T, o, u, v) ==
    /\ T \in Seq(Events)
    /\ LastTells(T, o, v)
    /\ Coming(T, o) = Coming(ev, o) + (v.filled - u.filled)
    /\ \A p \in Orders \ {o} : /\ EventsIn(T, p) = EventsIn(ev, p)
                               /\ Coming(T, p) = Coming(ev, p)
                               /\ \A w : LastTells(ev, p, w) => LastTells(T, p, w)

LEMMA ToldFacts ==
    ASSUME NEW ev \in Seq(Events), NEW o \in Orders, NEW u \in VenueStates \cup {NotThere},
           NEW v \in VenueStates, u.filled <= v.filled, NEW x \in Nat
    PROVE  Told(ev, ev \o ReportWith(o, u, v, x), o, u, v)
<1> DEFINE e == [kind |-> "order", order |-> o, state |-> v, last |-> v.filled - u.filled]
           b == [kind |-> "balance", balance |-> x]
           T == ev \o ReportWith(o, u, v, x)
<1>1. e \in Events /\ b \in Events
  <2>1. u.filled \in 0..Quantity /\ v.filled \in 0..Quantity BY StateFields
  <2>2. v.filled - u.filled \in 0..Quantity BY <2>1, Constants
  <2> QED BY <2>2 DEF Events
<1>2. For(o, e) /\ e.state = v /\ e.last = v.filled - u.filled
      /\ (\A p \in Orders \ {o} : ~ For(p, e)) /\ \A p \in Orders : ~ For(p, b)
  BY DEF For
<1>3. T = IF v.filled - u.filled > 0 THEN Append(Append(ev, e), b) ELSE Append(ev, e)
  <2>1. Append(ev, e) \in Seq(Events) /\ Append(ev, e) = ev \o <<e>> BY <1>1, AppendProperties, AppendIsConcat
  <2>2. Append(Append(ev, e), b) = Append(ev, e) \o <<b>> BY <1>1, <2>1, AppendIsConcat
  <2>3. <<e>> \in Seq(Events) /\ <<b>> \in Seq(Events) BY <1>1
  <2>4. (ev \o <<e>>) \o <<b>> = ev \o (<<e>> \o <<b>>) BY <2>3, ConcatAssociative
  <2>5. <<e>> \o <<>> = <<e>> BY <2>3, ConcatEmptySeq
  <2> HIDE DEF e, b
  <2> QED BY <2>1, <2>2, <2>4, <2>5 DEF ReportWith, e, b
<1> HIDE DEF e, b, T
<1> DEFINE A == Append(ev, e)
           C == Append(A, b)
<1>4. /\ A \in Seq(Events) /\ LastTells(A, o, v) /\ Coming(A, o) = Coming(ev, o) + (v.filled - u.filled)
      /\ \A p \in Orders \ {o} : /\ EventsIn(A, p) = EventsIn(ev, p)
                                 /\ Coming(A, p) = Coming(ev, p)
                                 /\ \A w : LastTells(ev, p, w) => LastTells(A, p, w)
  BY <1>1, <1>2, AppendEvent
<1> HIDE DEF A
<1>5. /\ C \in Seq(Events)
      /\ \A p \in Orders : /\ EventsIn(C, p) = EventsIn(A, p)
                           /\ Coming(C, p) = Coming(A, p)
                           /\ \A w : LastTells(A, p, w) => LastTells(C, p, w)
  BY <1>1, <1>2, <1>4, AppendEvent
<1>6. T = C \/ T = A BY <1>3 DEF A
<1> HIDE DEF C
<1> QED BY <1>4, <1>5, <1>6 DEF T, Told

LEMMA ExecutedNat ==
    ASSUME NEW v \in [Orders -> VenueStates \cup {NotThere}]
    PROVE  ExecutedOf(v) \in Nat
<1> DEFINE f == [o \in Orders |-> v[o].filled]
<1>1. \A o \in Orders : f[o] \in Nat BY StateFields, Constants
<1> HIDE DEF f
<1>2. SumOver(f, Orders) \in Nat BY <1>1, Constants, SumNat
<1> QED BY <1>2, ExecutedIsSum DEF f

-------------------------------------------------------------------------------
(* The inductive invariant *)

\* The id maps lead to a record of the same order, and one that is there.
MapsLeadToRecords ==
    \A o \in Orders :
        \/ internalOf[o] \in {Untracked, <<"live", o>>}
        \/ internalOf[o] \in {<<"ext", o>>, <<"recon", o>>} /\ orders[internalOf[o]] # NotThere

\* How far place_order has come bounds what the venue can know of the order.
VenueFollowsPlacing ==
    \A o \in Orders :
        /\ placing[o].pc \in {"idle", "sent"} => venueOrders[o] = NotThere
        /\ placing[o].pc = "answered" => placing[o].answer \in VenueStates /\ venueOrders[o] # NotThere
        /\ internalOf[o] = <<"live", o>> => placing[o].pc = "placed"
        /\ OpenAtVenue(o) => venueOrders[o].filled < Quantity

\* A cancellation under way is of a record that is there; one the venue has
\* accepted is of an order it has cancelled.
CancelAccepted ==
    \A i \in InternalIds :
        /\ cancelling[i] # "idle" => orders[i] # NotThere
        /\ cancelling[i] = "accepted" => venueOrders[i[2]].status = "CANCELED"

\* The stream is down only after a loss.
UpAtFirst == drops = 0 => streamUp

\* As long as nothing is lost, the last event on its way tells of the order as it
\* is at the venue; none is on its way only once the maps hold the order.
Tells(ev, v, m, d) ==
    d = 0 => \A o \in Orders :
                \/ LastTells(ev, o, v[o])
                \/ EventsIn(ev, o) = {} /\ (m[o] = Untracked => v[o] = NotThere)
QueueTells == Tells(userEvents, venueOrders, internalOf, drops)

\* ExecutionsBookedOnce as a relation of the parts it is about.
Books(fl, ev, v, d) ==
    \A o \in Orders : /\ Booked(fl, o) + Coming(ev, o) <= v[o].filled
                      /\ d = 0 => Booked(fl, o) + Coming(ev, o) = v[o].filled

LiveInv ==
    /\ LiveTypeOK
    /\ MapsLeadToRecords /\ VenueFollowsPlacing /\ CancelAccepted /\ UpAtFirst /\ QueueTells
    /\ ExecutionsBookedOnce /\ AnsweredOrdersAgree

LEMMA BooksNow == ExecutionsBookedOnce <=> Books(fills, userEvents, venueOrders, drops)
  BY DEF ExecutionsBookedOnce, Books, Booked, IdsOf, Coming, LastsOf, EventsOf, EventsIn,
         MapThenSumSet, MapThenFoldSet
LEMMA BooksNext == ExecutionsBookedOnce' <=> Books(fills', userEvents', venueOrders', drops')
  BY DEF ExecutionsBookedOnce, Books, Booked, IdsOf, Coming, LastsOf, EventsOf, EventsIn,
         MapThenSumSet, MapThenFoldSet

LEMMA EventsOfIs == \A o : EventsOf(o) = EventsIn(userEvents, o) /\ EventsOf(o)' = EventsIn(userEvents', o)
  BY DEF EventsOf, EventsIn

LEMMA EmptyQueue == \A o : EventsIn(<<>>, o) = {} /\ Coming(<<>>, o) = 0
<1> SUFFICES ASSUME NEW o PROVE EventsIn(<<>>, o) = {} /\ Coming(<<>>, o) = 0
  OBVIOUS
<1>1. EventsIn(<<>>, o) = {} BY DEF EventsIn
<1>2. LastsOf(<<>>, {}) = 0 BY LastsIsSum, SumEmpty, FS_EmptySet
<1> QED BY <1>1, <1>2 DEF Coming

LEMMA LiveInitInv == LiveInit => LiveInv
<1> SUFFICES ASSUME LiveInit PROVE LiveInv
  OBVIOUS
<1>1. LiveTypeOK BY Constants DEF LiveInit, LiveTypeOK
<1>2. MapsLeadToRecords /\ VenueFollowsPlacing /\ CancelAccepted /\ UpAtFirst
  BY Constants, StateFields DEF LiveInit, MapsLeadToRecords, VenueFollowsPlacing, CancelAccepted, UpAtFirst, OpenAtVenue
<1>3. QueueTells BY EmptyQueue DEF LiveInit, QueueTells, Tells
<1>4. ExecutionsBookedOnce
  <2>1. \A o : Booked(fills, o) = 0
    <3> SUFFICES ASSUME NEW o PROVE Booked(fills, o) = 0
      OBVIOUS
    <3>1. \A i \in IdsOf(o) : fills[i] = 0 BY DEF LiveInit, IdsOf
    <3>2. SumOver(fills, IdsOf(o)) = 0 BY <3>1, IdsOfFinite, SumZero
    <3> QED BY <3>2, BookedIsSum
  <2> QED BY <2>1, BooksNow, EmptyQueue, StateFields DEF LiveInit, Books
<1>5. AnsweredOrdersAgree BY Constants DEF LiveInit, AnsweredOrdersAgree
<1> QED BY <1>1, <1>2, <1>3, <1>4, <1>5 DEF LiveInv

\* Whatever leaves the queue, the venue and the books alone leaves them agreeing.
LEMMA BooksKept ==
    ASSUME LiveInv, UNCHANGED <<fills, userEvents, venueOrders, drops>>
    PROVE  ExecutionsBookedOnce'
  BY BooksNow, BooksNext DEF LiveInv, Books

LEMMA TellsKept ==
    ASSUME LiveInv, UNCHANGED <<userEvents, venueOrders, drops>>,
           \A o \in Orders : internalOf'[o] = internalOf[o] \/ internalOf'[o] # Untracked
    PROVE  QueueTells'
  BY DEF LiveInv, QueueTells, Tells

LEMMA PlaceLiveOrderInv == ASSUME LiveInv, NEW o \in Orders, PlaceLiveOrder(o) PROVE LiveInv'
<1> USE DEF PlaceLiveOrder, venueVars
<1>1. LiveTypeOK' BY DEF LiveInv, LiveTypeOK
<1>2. MapsLeadToRecords' /\ CancelAccepted' /\ UpAtFirst'
  BY DEF LiveInv, MapsLeadToRecords, CancelAccepted, UpAtFirst
<1>3. VenueFollowsPlacing' BY DEF LiveInv, LiveTypeOK, VenueFollowsPlacing, OpenAtVenue
<1>4. QueueTells' BY TellsKept
<1>5. ExecutionsBookedOnce' BY BooksKept
<1>6. AnsweredOrdersAgree' BY DEF LiveInv, AnsweredOrdersAgree, EventsOf
<1> QED BY <1>1, <1>2, <1>3, <1>4, <1>5, <1>6 DEF LiveInv

LEMMA FinishPlaceInv == ASSUME LiveInv, NEW o \in Orders, FinishPlace(o) PROVE LiveInv'
<1> USE DEF FinishPlace, venueVars
<1>0. placing[o].answer \in VenueStates /\ venueOrders[o] # NotThere BY DEF LiveInv, VenueFollowsPlacing
<1>1. LiveTypeOK'
  <2>1. Mapped(placing[o].answer) \in OrderStates BY <1>0 DEF Mapped, StatusMap, OrderStates, VenueStates, VenueStatuses, Terminal
  <2> QED BY <2>1, Constants DEF LiveInv, LiveTypeOK
<1>2. MapsLeadToRecords' /\ CancelAccepted' /\ UpAtFirst'
  <2>1. Mapped(placing[o].answer) # NotThere
    BY <1>0 DEF Mapped, StatusMap, NotThere, VenueStates, VenueStatuses
  <2> QED BY <2>1 DEF LiveInv, LiveTypeOK, MapsLeadToRecords, CancelAccepted, UpAtFirst
<1>3. VenueFollowsPlacing' BY Constants DEF LiveInv, LiveTypeOK, VenueFollowsPlacing, OpenAtVenue
<1>4. QueueTells' BY TellsKept, Constants DEF LiveInv, LiveTypeOK
<1>5. ExecutionsBookedOnce' BY BooksKept
<1>6. AnsweredOrdersAgree'
  <2> SUFFICES ASSUME NEW p \in Orders, internalOf'[p] = <<"live", p>>, orders'[<<"ext", p>>] = NotThere,
                      orders'[<<"recon", p>>] = NotThere, drops' = 0, EventsIn(userEvents', p) = {}
               PROVE  orders'[<<"live", p>>] = Mapped(venueOrders'[p])
    BY EventsOfIs DEF AnsweredOrdersAgree
  <2>1. CASE p # o
    <3>1. internalOf[p] = <<"live", p>> /\ orders[<<"ext", p>>] = NotThere /\ orders[<<"recon", p>>] = NotThere
          /\ orders'[<<"live", p>>] = orders[<<"live", p>>]
      BY <2>1, Constants DEF LiveInv, LiveTypeOK
    <3> QED BY <3>1, EventsOfIs DEF LiveInv, AnsweredOrdersAgree
  <2>2. CASE p = o
    <3>1. orders[<<"ext", o>>] = NotThere /\ orders[<<"recon", o>>] = NotThere
      BY <2>2, Constants DEF LiveInv, LiveTypeOK
    <3>2. internalOf[o] = Untracked BY <3>1 DEF LiveInv, MapsLeadToRecords, VenueFollowsPlacing
    <3>3. FALSE BY <1>0, <2>2, <3>2 DEF LiveInv, QueueTells, Tells, LastTells
    <3> QED BY <3>3
  <2> QED BY <2>1, <2>2
<1> QED BY <1>1, <1>2, <1>3, <1>4, <1>5, <1>6 DEF LiveInv

LEMMA PlaceRaisesInv == ASSUME LiveInv, NEW o \in Orders, PlaceRaises(o) PROVE LiveInv'
<1> USE DEF PlaceRaises, venueVars
<1>1. LiveTypeOK' BY DEF LiveInv, LiveTypeOK
<1>2. MapsLeadToRecords' /\ CancelAccepted' /\ UpAtFirst'
  BY DEF LiveInv, MapsLeadToRecords, CancelAccepted, UpAtFirst
<1>3. VenueFollowsPlacing' BY DEF LiveInv, LiveTypeOK, VenueFollowsPlacing, OpenAtVenue
<1>4. QueueTells' BY TellsKept
<1>5. ExecutionsBookedOnce' BY BooksKept
<1>6. AnsweredOrdersAgree' BY DEF LiveInv, AnsweredOrdersAgree, EventsOf
<1> QED BY <1>1, <1>2, <1>3, <1>4, <1>5, <1>6 DEF LiveInv

\* The venue moves an order on.
LEMMA VenueMovesFacts ==
    ASSUME LiveInv, NEW o \in Orders, NEW v \in VenueStates, venueOrders[o] # NotThere,
           venueOrders[o].filled <= v.filled, VenueMoves(o, v), internalOf' = internalOf, fills' = fills
    PROVE  /\ venueOrders' \in [Orders -> VenueStates \cup {NotThere}]
           /\ userEvents' \in Seq(Events)
           /\ QueueTells' /\ ExecutionsBookedOnce' /\ UpAtFirst'
           /\ drops' = 0 => LastTells(userEvents', o, v)
           /\ drops' = 0 => \A p \in Orders \ {o} : EventsIn(userEvents', p) = EventsIn(userEvents, p)
<1> DEFINE u == venueOrders[o]
           x == Executed'
           T == userEvents \o ReportWith(o, u, v, x)
<1>1. venueOrders' = [venueOrders EXCEPT ![o] = v] BY DEF VenueMoves
<1>2. venueOrders \in [Orders -> VenueStates \cup {NotThere}] /\ userEvents \in Seq(Events)
      /\ fills \in [InternalIds -> Nat] /\ u \in VenueStates
  BY DEF LiveInv, LiveTypeOK
<1>3. venueOrders' \in [Orders -> VenueStates \cup {NotThere}] BY <1>1, <1>2
<1>4. x \in Nat BY <1>3, ExecutedNat, ExecutedNext
<1>5. userEvents' = (IF streamUp THEN T ELSE userEvents) /\ UNCHANGED <<streamUp, drops>>
  BY ReportIs DEF VenueMoves
<1> HIDE DEF x
<1>6. /\ T \in Seq(Events)
      /\ LastTells(T, o, v)
      /\ Coming(T, o) = Coming(userEvents, o) + (v.filled - u.filled)
      /\ \A p \in Orders \ {o} : /\ EventsIn(T, p) = EventsIn(userEvents, p)
                                 /\ Coming(T, p) = Coming(userEvents, p)
                                 /\ \A w : LastTells(userEvents, p, w) => LastTells(T, p, w)
  <2>1. Told(userEvents, T, o, u, v) BY <1>2, <1>4, ToldFacts
  <2> HIDE DEF T
  <2> QED BY <2>1 DEF Told
<1> HIDE DEF T
<1>7. userEvents' \in Seq(Events) BY <1>2, <1>5, <1>6
<1>8. UpAtFirst' BY <1>5 DEF LiveInv, UpAtFirst
<1>9. drops' = 0 => userEvents' = T BY <1>5 DEF LiveInv, UpAtFirst
<1>10. QueueTells'
  <2> SUFFICES ASSUME drops' = 0, NEW p \in Orders
               PROVE  \/ LastTells(userEvents', p, venueOrders'[p])
                      \/ EventsIn(userEvents', p) = {} /\ (internalOf'[p] = Untracked => venueOrders'[p] = NotThere)
    BY DEF QueueTells, Tells
  <2>1. CASE p = o BY <2>1, <1>1, <1>2, <1>6, <1>9
  <2>2. CASE p # o
    <3>1. venueOrders'[p] = venueOrders[p] BY <2>2, <1>1, <1>2
    <3>2. \/ LastTells(userEvents, p, venueOrders[p])
          \/ EventsIn(userEvents, p) = {} /\ (internalOf[p] = Untracked => venueOrders[p] = NotThere)
      BY <1>5 DEF LiveInv, QueueTells, Tells
    <3> QED BY <3>1, <3>2, <2>2, <1>6, <1>9
  <2> QED BY <2>1, <2>2
<1>11. ExecutionsBookedOnce'
  <2> SUFFICES ASSUME NEW p \in Orders
               PROVE  /\ Booked(fills', p) + Coming(userEvents', p) <= venueOrders'[p].filled
                      /\ drops' = 0 => Booked(fills', p) + Coming(userEvents', p) = venueOrders'[p].filled
    BY BooksNext DEF Books
  <2>1. /\ Booked(fills, p) + Coming(userEvents, p) <= venueOrders[p].filled
        /\ drops = 0 => Booked(fills, p) + Coming(userEvents, p) = venueOrders[p].filled
    BY BooksNow DEF LiveInv, Books
  <2>2. Booked(fills, p) \in Nat /\ Coming(userEvents, p) \in Nat BY <1>2, BookedNat, EventsInFinite
  <2>3. u.filled \in Int /\ v.filled \in Int /\ u.filled <= v.filled BY <1>2, StateFields
  <2>4. CASE p = o
    <3>1. venueOrders'[p].filled = v.filled /\ venueOrders[p].filled = u.filled BY <2>4, <1>1, <1>2
    <3>2. userEvents' = T => Coming(userEvents', p) = Coming(userEvents, p) + (v.filled - u.filled) BY <2>4, <1>6
    <3>3. userEvents' = T \/ userEvents' = userEvents BY <1>5
    <3> HIDE DEF u
    <3> QED BY <2>1, <2>2, <2>3, <3>1, <3>2, <3>3, <1>5, <1>9
  <2>5. CASE p # o
    <3>1. venueOrders'[p] = venueOrders[p] BY <2>5, <1>1, <1>2
    <3>2. Coming(userEvents', p) = Coming(userEvents, p) BY <2>5, <1>5, <1>6
    <3> QED BY <2>1, <3>1, <3>2, <1>5
  <2> QED BY <2>4, <2>5
<1> QED BY <1>3, <1>6, <1>7, <1>8, <1>9, <1>10, <1>11

\* Agreement after a step in which the venue tells of o, and the engine does nothing.
LEMMA AgreeWhileTold ==
    ASSUME LiveInv, NEW o \in Orders, NEW v, UNCHANGED <<orders, internalOf, drops>>,
           drops' = 0 => LastTells(userEvents', o, v),
           drops' = 0 => \A p \in Orders \ {o} : EventsIn(userEvents', p) = EventsIn(userEvents, p),
           \A p \in Orders \ {o} : venueOrders'[p] = venueOrders[p]
    PROVE  AnsweredOrdersAgree'
<1> SUFFICES ASSUME NEW p \in Orders, internalOf'[p] = <<"live", p>>, orders'[<<"ext", p>>] = NotThere,
                    orders'[<<"recon", p>>] = NotThere, drops' = 0, EventsIn(userEvents', p) = {}
             PROVE  orders'[<<"live", p>>] = Mapped(venueOrders'[p])
  BY EventsOfIs DEF AnsweredOrdersAgree
<1>1. p # o BY DEF LastTells
<1>2. EventsIn(userEvents, p) = {} /\ venueOrders'[p] = venueOrders[p] BY <1>1
<1> QED BY <1>2, EventsOfIs DEF LiveInv, AnsweredOrdersAgree

LEMMA VenueFillsInv == ASSUME LiveInv, NEW o \in Orders, VenueFills(o) PROVE LiveInv'
<1> DEFINE f == venueOrders[o].filled + 1
           v == [status |-> IF f = Quantity THEN "FILLED" ELSE "PARTIALLY_FILLED", filled |-> f]
<1>1. VenueMoves(o, v) /\ OpenAtVenue(o)
      /\ UNCHANGED <<placing, cancelling, orders, internalOf, fills, balance, round, fetchedBalance, fetchedOrders>>
  BY DEF VenueFills
<1>2. venueOrders \in [Orders -> VenueStates \cup {NotThere}] BY DEF LiveInv, LiveTypeOK
<1>3. venueOrders[o] # NotThere /\ venueOrders[o].filled < Quantity /\ venueOrders[o].filled \in Nat
  BY <1>1, <1>2, StateFields, Constants DEF LiveInv, VenueFollowsPlacing, OpenAtVenue
<1>4. v \in VenueStates /\ venueOrders[o].filled <= v.filled /\ (v.status # "FILLED" => v.filled < Quantity)
      /\ v.status # "NEW"
  BY <1>3, Constants DEF VenueStates, VenueStatuses
<1>5. venueOrders' = [venueOrders EXCEPT ![o] = v] /\ UNCHANGED <<streamUp, drops>> BY <1>1 DEF VenueMoves
<1> HIDE DEF v
<1>6. /\ venueOrders' \in [Orders -> VenueStates \cup {NotThere}]
      /\ userEvents' \in Seq(Events)
      /\ QueueTells' /\ ExecutionsBookedOnce' /\ UpAtFirst'
      /\ drops' = 0 => LastTells(userEvents', o, v)
      /\ drops' = 0 => \A p \in Orders \ {o} : EventsIn(userEvents', p) = EventsIn(userEvents, p)
  BY <1>1, <1>3, <1>4, VenueMovesFacts
<1>7. LiveTypeOK' BY <1>1, <1>5, <1>6 DEF LiveInv, LiveTypeOK
<1>8. MapsLeadToRecords' BY <1>1 DEF LiveInv, MapsLeadToRecords
<1>9. VenueFollowsPlacing'
  BY <1>1, <1>2, <1>3, <1>4, <1>5, StateFields DEF LiveInv, VenueFollowsPlacing, OpenAtVenue
<1>10. CancelAccepted' BY <1>1, <1>2, <1>5 DEF LiveInv, CancelAccepted, OpenAtVenue
<1>11. \A p \in Orders \ {o} : venueOrders'[p] = venueOrders[p] BY <1>2, <1>5
<1>12. AnsweredOrdersAgree' BY <1>1, <1>5, <1>6, <1>11, AgreeWhileTold
<1> QED BY <1>6, <1>7, <1>8, <1>9, <1>10, <1>12 DEF LiveInv

LEMMA VenueCancelsInv == ASSUME LiveInv, NEW i \in InternalIds, VenueCancels(i) PROVE LiveInv'
<1> DEFINE o == i[2]
           v == [venueOrders[o] EXCEPT !.status = "CANCELED"]
<1>0. o \in Orders BY DEF InternalIds
<1>1. VenueMoves(o, v) /\ OpenAtVenue(o) /\ cancelling' = [cancelling EXCEPT ![i] = "accepted"]
      /\ UNCHANGED <<placing, orders, internalOf, fills, balance, round, fetchedBalance, fetchedOrders>>
  BY DEF VenueCancels
<1>2. venueOrders \in [Orders -> VenueStates \cup {NotThere}] BY DEF LiveInv, LiveTypeOK
<1>3. venueOrders[o] \in VenueStates /\ venueOrders[o] # NotThere
  BY <1>0, <1>1, <1>2, StateFields DEF OpenAtVenue
<1>4. v \in VenueStates /\ v.filled = venueOrders[o].filled /\ v.status = "CANCELED" /\ v.filled \in Int
  BY <1>3, StateFields DEF VenueStates, VenueStatuses
<1>5. venueOrders' = [venueOrders EXCEPT ![o] = v] /\ UNCHANGED <<streamUp, drops>> BY <1>1 DEF VenueMoves
<1>6. venueOrders[o].filled <= v.filled BY <1>4
<1> HIDE DEF v, o
<1>7. /\ venueOrders' \in [Orders -> VenueStates \cup {NotThere}]
      /\ userEvents' \in Seq(Events)
      /\ QueueTells' /\ ExecutionsBookedOnce' /\ UpAtFirst'
      /\ drops' = 0 => LastTells(userEvents', o, v)
      /\ drops' = 0 => \A p \in Orders \ {o} : EventsIn(userEvents', p) = EventsIn(userEvents, p)
  BY <1>0, <1>1, <1>3, <1>4, <1>6, VenueMovesFacts
<1>8. LiveTypeOK' BY <1>1, <1>5, <1>7 DEF LiveInv, LiveTypeOK
<1>9. MapsLeadToRecords' BY <1>1 DEF LiveInv, MapsLeadToRecords
<1>10. VenueFollowsPlacing'
  BY <1>0, <1>1, <1>2, <1>3, <1>4, <1>5, StateFields DEF LiveInv, VenueFollowsPlacing, OpenAtVenue
<1>11. CancelAccepted'
  <2>0. \A j \in InternalIds : cancelling'[j] # "idle" => orders'[j] # NotThere
    BY <1>1 DEF LiveInv, LiveTypeOK, CancelAccepted, VenueCancels
  <2> SUFFICES ASSUME NEW j \in InternalIds, cancelling'[j] = "accepted" PROVE venueOrders'[j[2]].status = "CANCELED"
    BY <2>0 DEF CancelAccepted
  <2>1. j[2] \in Orders BY DEF InternalIds
  <2>2. CASE j[2] = o BY <2>2, <1>0, <1>2, <1>4, <1>5
  <2>3. CASE j[2] # o BY <2>1, <2>3, <1>1, <1>2, <1>5 DEF LiveInv, LiveTypeOK, CancelAccepted, o
  <2> QED BY <2>2, <2>3
<1>12. \A p \in Orders \ {o} : venueOrders'[p] = venueOrders[p] BY <1>2, <1>5
<1>13. AnsweredOrdersAgree' BY <1>0, <1>1, <1>5, <1>7, <1>12, AgreeWhileTold
<1> QED BY <1>7, <1>8, <1>9, <1>10, <1>11, <1>13 DEF LiveInv

LEMMA VenueAcceptsInv == ASSUME LiveInv, NEW o \in Orders, VenueAccepts(o) PROVE LiveInv'
<1> DEFINE done == [status |-> "FILLED", filled |-> Quantity]
           x == Executed'
           ev == userEvents \o ReportWith(o, NotThere, NewOrder, x)
           ew == ev \o ReportWith(o, NewOrder, done, x)
<1>1. PICK v \in {NewOrder, done} :
          /\ venueOrders' = [venueOrders EXCEPT ![o] = v]
          /\ userEvents' = IF streamUp
                           THEN userEvents \o Report(o, NotThere, NewOrder)
                                  \o (IF v = NewOrder THEN <<>> ELSE Report(o, NewOrder, v))
                           ELSE userEvents
          /\ placing' = [placing EXCEPT ![o] = [pc |-> "answered", answer |-> v]]
  BY DEF VenueAccepts
<1>2. placing[o].pc = "sent" /\ UNCHANGED <<streamUp, drops, cancelling, orders, internalOf, fills, balance, round,
                   fetchedBalance, fetchedOrders>>
  BY DEF VenueAccepts
<1>3. venueOrders \in [Orders -> VenueStates \cup {NotThere}] /\ userEvents \in Seq(Events)
      /\ fills \in [InternalIds -> Nat] /\ venueOrders[o] = NotThere
  BY <1>2 DEF LiveInv, LiveTypeOK, VenueFollowsPlacing
<1>4. done \in VenueStates /\ done.filled = Quantity /\ done # NewOrder /\ done # NotThere /\ done.status = "FILLED"
  BY Constants DEF VenueStates, VenueStatuses, NewOrder, NotThere
<1> HIDE DEF done
<1>5. v \in VenueStates /\ v # NotThere /\ (v = NewOrder \/ v = done) BY <1>4, StateFields
<1>6. venueOrders' \in [Orders -> VenueStates \cup {NotThere}] BY <1>1, <1>3, <1>5
<1>7. x \in Nat BY <1>6, ExecutedNat, ExecutedNext
<1> HIDE DEF x
<1>8. /\ ev \in Seq(Events) /\ LastTells(ev, o, NewOrder) /\ Coming(ev, o) = Coming(userEvents, o) + 0
      /\ \A p \in Orders \ {o} : /\ EventsIn(ev, p) = EventsIn(userEvents, p)
                                 /\ Coming(ev, p) = Coming(userEvents, p)
                                 /\ \A w : LastTells(userEvents, p, w) => LastTells(ev, p, w)
  <2>1. NotThere.filled <= NewOrder.filled /\ NewOrder.filled - NotThere.filled = 0 BY StateFields
  <2>2. NotThere \in VenueStates \cup {NotThere} /\ NewOrder \in VenueStates BY StateFields
  <2>3. Told(userEvents, ev, o, NotThere, NewOrder)
    BY <1>3, <1>7, <2>1, <2>2, ToldFacts
  <2> HIDE DEF ev
  <2> QED BY <2>1, <2>3 DEF Told
<1> HIDE DEF ev
<1>9. /\ ew \in Seq(Events) /\ LastTells(ew, o, done) /\ Coming(ew, o) = Coming(ev, o) + Quantity
      /\ \A p \in Orders \ {o} : /\ EventsIn(ew, p) = EventsIn(ev, p)
                                 /\ Coming(ew, p) = Coming(ev, p)
                                 /\ \A w : LastTells(ev, p, w) => LastTells(ew, p, w)
  <2>1. NewOrder.filled <= done.filled /\ done.filled - NewOrder.filled = Quantity BY <1>4, StateFields, Constants
  <2>2. NewOrder \in VenueStates \cup {NotThere} BY StateFields
  <2>3. Told(ev, ew, o, NewOrder, done)
    BY <1>4, <1>7, <1>8, <2>1, <2>2, ToldFacts
  <2> HIDE DEF ew
  <2> QED BY <2>1, <2>3 DEF Told
<1> HIDE DEF ew
<1> DEFINE T == IF v = NewOrder THEN ev ELSE ew
<1>10. /\ T \in Seq(Events) /\ LastTells(T, o, v) /\ Coming(T, o) = Coming(userEvents, o) + v.filled
       /\ \A p \in Orders \ {o} : /\ EventsIn(T, p) = EventsIn(userEvents, p)
                                  /\ Coming(T, p) = Coming(userEvents, p)
                                  /\ \A w : LastTells(userEvents, p, w) => LastTells(T, p, w)
  <2>1. Coming(userEvents, o) \in Nat BY <1>3, EventsInFinite
  <2>2. CASE v = NewOrder BY <2>1, <2>2, <1>8, StateFields
  <2>3. CASE v = done
    <3>1. T = ew BY <2>3, <1>4
    <3>2. Coming(T, o) = Coming(userEvents, o) + v.filled BY <2>1, <2>3, <3>1, <1>4, <1>8, <1>9, Constants
    <3> QED BY <2>3, <3>1, <3>2, <1>8, <1>9
  <2> QED BY <1>5, <2>2, <2>3
<1>11. userEvents' = IF streamUp THEN T ELSE userEvents
  <2>1. ev \o <<>> = ev BY <1>8, ConcatEmptySeq
  <2> QED BY <2>1, <1>1, <1>5, ReportIs DEF x, ev, ew
<1> HIDE DEF T
<1>12. drops' = 0 => userEvents' = T BY <1>2, <1>11 DEF LiveInv, UpAtFirst
<1>13. LiveTypeOK'
  <2>1. userEvents' \in Seq(Events) BY <1>3, <1>10, <1>11
  <2> QED BY <1>1, <1>2, <1>5, <1>6, <2>1 DEF LiveInv, LiveTypeOK
<1>14. MapsLeadToRecords' /\ UpAtFirst' BY <1>2 DEF LiveInv, MapsLeadToRecords, UpAtFirst
<1>15. VenueFollowsPlacing'
  <2>1. OpenAtVenue(o)' => venueOrders'[o].filled < Quantity
    BY <1>1, <1>3, <1>4, <1>5, StateFields, Constants DEF OpenAtVenue
  <2>2. internalOf'[o] # <<"live", o>> BY <1>2 DEF LiveInv, VenueFollowsPlacing
  <2>3. placing'[o].pc = "answered" /\ placing'[o].answer = v /\ venueOrders'[o] = v
    BY <1>1, <1>3 DEF LiveInv, LiveTypeOK
  <2>4. \A p \in Orders \ {o} : placing'[p] = placing[p] /\ venueOrders'[p] = venueOrders[p]
    BY <1>1, <1>3 DEF LiveInv, LiveTypeOK
  <2> QED BY <2>1, <2>2, <2>3, <2>4, <1>2, <1>5 DEF LiveInv, VenueFollowsPlacing, OpenAtVenue
<1>16. CancelAccepted'
  <2> SUFFICES ASSUME NEW j \in InternalIds, cancelling'[j] = "accepted" PROVE venueOrders'[j[2]].status = "CANCELED"
    BY <1>2 DEF LiveInv, CancelAccepted
  <2>1. j[2] \in Orders /\ venueOrders[j[2]].status = "CANCELED" BY <1>2 DEF InternalIds, LiveInv, CancelAccepted
  <2>2. j[2] # o BY <2>1, <1>3, StateFields
  <2> QED BY <2>1, <2>2, <1>1, <1>3
<1>17. QueueTells'
  <2> SUFFICES ASSUME drops' = 0, NEW p \in Orders
               PROVE  \/ LastTells(userEvents', p, venueOrders'[p])
                      \/ EventsIn(userEvents', p) = {} /\ (internalOf'[p] = Untracked => venueOrders'[p] = NotThere)
    BY DEF QueueTells, Tells
  <2>1. CASE p = o BY <2>1, <1>1, <1>3, <1>10, <1>12
  <2>2. CASE p # o
    <3>1. venueOrders'[p] = venueOrders[p] BY <2>2, <1>1, <1>3
    <3>2. \/ LastTells(userEvents, p, venueOrders[p])
          \/ EventsIn(userEvents, p) = {} /\ (internalOf[p] = Untracked => venueOrders[p] = NotThere)
      BY <1>2 DEF LiveInv, QueueTells, Tells
    <3> QED BY <3>1, <3>2, <2>2, <1>2, <1>10, <1>12
  <2> QED BY <2>1, <2>2
<1>18. ExecutionsBookedOnce'
  <2> SUFFICES ASSUME NEW p \in Orders
               PROVE  /\ Booked(fills', p) + Coming(userEvents', p) <= venueOrders'[p].filled
                      /\ drops' = 0 => Booked(fills', p) + Coming(userEvents', p) = venueOrders'[p].filled
    BY BooksNext DEF Books
  <2>1. /\ Booked(fills, p) + Coming(userEvents, p) <= venueOrders[p].filled
        /\ drops = 0 => Booked(fills, p) + Coming(userEvents, p) = venueOrders[p].filled
    BY BooksNow DEF LiveInv, Books
  <2>2. Booked(fills, p) \in Nat /\ Coming(userEvents, p) \in Nat BY <1>3, BookedNat, EventsInFinite
  <2>3. v.filled \in Nat BY <1>5, StateFields, Constants
  <2>4. CASE p = o
    <3>1. venueOrders'[p].filled = v.filled /\ venueOrders[p].filled = 0 BY <2>4, <1>1, <1>3, StateFields
    <3>2. Booked(fills, p) = 0 /\ Coming(userEvents, p) = 0 BY <2>1, <2>2, <3>1
    <3>3. userEvents' = T => Coming(userEvents', p) = v.filled BY <2>3, <2>4, <3>2, <1>10
    <3>4. userEvents' = T \/ userEvents' = userEvents BY <1>11
    <3> QED BY <2>3, <3>1, <3>2, <3>3, <3>4, <1>2, <1>12
  <2>5. CASE p # o
    <3>1. venueOrders'[p] = venueOrders[p] BY <2>5, <1>1, <1>3
    <3>2. Coming(userEvents', p) = Coming(userEvents, p) BY <2>5, <1>10, <1>11
    <3> QED BY <2>1, <3>1, <3>2, <1>2
  <2> QED BY <2>4, <2>5
<1>19. AnsweredOrdersAgree'
  <2>1. \A p \in Orders \ {o} : venueOrders'[p] = venueOrders[p] BY <1>1, <1>3
  <2>2. /\ drops' = 0 => LastTells(userEvents', o, v)
        /\ drops' = 0 => \A p \in Orders \ {o} : EventsIn(userEvents', p) = EventsIn(userEvents, p)
    BY <1>10, <1>12
  <2> QED BY <2>1, <2>2, <1>2, AgreeWhileTold
<1> QED BY <1>13, <1>14, <1>15, <1>16, <1>17, <1>18, <1>19 DEF LiveInv

LEMMA StreamDropsInv == ASSUME LiveInv, StreamDrops PROVE LiveInv'
<1> USE DEF StreamDrops
<1>1. drops' # 0 /\ drops' \in 0..MaxDrops /\ userEvents' = <<>>
  BY Constants DEF LiveInv, LiveTypeOK
<1>2. LiveTypeOK'
  <2>1. <<>> \in Seq(Events) OBVIOUS
  <2> QED BY <1>1, <2>1 DEF LiveInv, LiveTypeOK
<1>3. MapsLeadToRecords' /\ VenueFollowsPlacing' /\ CancelAccepted'
  BY DEF LiveInv, MapsLeadToRecords, VenueFollowsPlacing, CancelAccepted, OpenAtVenue
<1>4. UpAtFirst' /\ QueueTells' /\ AnsweredOrdersAgree'
  BY <1>1 DEF UpAtFirst, QueueTells, Tells, AnsweredOrdersAgree
<1>5. ExecutionsBookedOnce'
  <2> SUFFICES ASSUME NEW p \in Orders
               PROVE  Booked(fills', p) + Coming(userEvents', p) <= venueOrders'[p].filled
    BY <1>1, BooksNext DEF Books
  <2>1. Booked(fills, p) + Coming(userEvents, p) <= venueOrders[p].filled
    BY BooksNow DEF LiveInv, Books
  <2>2. /\ fills \in [InternalIds -> Nat] /\ userEvents \in Seq(Events)
        /\ venueOrders[p] \in VenueStates \cup {NotThere}
    BY DEF LiveInv, LiveTypeOK
  <2>3. Booked(fills, p) \in Nat /\ Coming(userEvents, p) \in Nat /\ venueOrders[p].filled \in Int
    BY <2>2, BookedNat, EventsInFinite, StateFields
  <2>4. Coming(userEvents', p) = 0 BY <1>1, EmptyQueue
  <2> QED BY <2>1, <2>3, <2>4
<1> QED BY <1>2, <1>3, <1>4, <1>5 DEF LiveInv

LEMMA StreamResumesInv == ASSUME LiveInv, StreamResumes PROVE LiveInv'
<1> USE DEF StreamResumes
<1>1. LiveTypeOK' BY DEF LiveInv, LiveTypeOK
<1>2. MapsLeadToRecords' /\ VenueFollowsPlacing' /\ CancelAccepted' /\ UpAtFirst'
  BY DEF LiveInv, MapsLeadToRecords, VenueFollowsPlacing, CancelAccepted, OpenAtVenue, UpAtFirst
<1>3. QueueTells' BY TellsKept
<1>4. ExecutionsBookedOnce' BY BooksKept
<1>5. AnsweredOrdersAgree' BY DEF LiveInv, AnsweredOrdersAgree, EventsOf
<1> QED BY <1>1, <1>2, <1>3, <1>4, <1>5 DEF LiveInv

\* A cancellation the engine marks leaves every record there, and changes the one
\* of an answered order only to what the venue already has.
LEMMA CancelLocallyFacts ==
    ASSUME LiveInv, NEW i \in InternalIds, orders[i] # NotThere, CancelLocally(i)
    PROVE  /\ orders' \in [InternalIds -> OrderStates \cup {NotThere}]
           /\ \A j \in InternalIds : orders'[j] = NotThere <=> orders[j] = NotThere
           /\ \A j \in InternalIds : j # i => orders'[j] = orders[j]
           /\ orders'[i] = [status |-> "CANCELLED", filled |-> orders[i].filled]
BY DEF LiveInv, LiveTypeOK, CancelLocally, OrderStates, NotThere, Terminal

LEMMA CancelLocallyInv ==
    ASSUME LiveInv, NEW i \in InternalIds, orders[i] # NotThere, CancelLocally(i),
           UNCHANGED <<venueVars, placing, internalOf, fills, balance, round, fetchedBalance, fetchedOrders>>,
           cancelling' \in [InternalIds -> {"idle", "sent", "accepted"}],
           \A j \in InternalIds : /\ cancelling'[j] = "accepted" => cancelling[j] = "accepted"
                                  /\ cancelling'[j] # "idle" => orders[j] # NotThere,
           internalOf[i[2]] # i \/ venueOrders[i[2]].status = "CANCELED"
    PROVE  LiveInv'
<1> USE DEF venueVars
<1>1. /\ orders' \in [InternalIds -> OrderStates \cup {NotThere}]
      /\ \A j \in InternalIds : orders'[j] = NotThere <=> orders[j] = NotThere
      /\ \A j \in InternalIds : j # i => orders'[j] = orders[j]
      /\ orders'[i] = [status |-> "CANCELLED", filled |-> orders[i].filled]
  BY CancelLocallyFacts
<1>2. LiveTypeOK' BY <1>1 DEF LiveInv, LiveTypeOK
<1>3. MapsLeadToRecords' BY <1>1, Constants DEF LiveInv, MapsLeadToRecords
<1>4. VenueFollowsPlacing' /\ CancelAccepted' /\ UpAtFirst'
  BY <1>1 DEF LiveInv, VenueFollowsPlacing, CancelAccepted, OpenAtVenue, UpAtFirst
<1>5. QueueTells' BY TellsKept
<1>6. ExecutionsBookedOnce' BY BooksKept
<1>7. AnsweredOrdersAgree'
  <2> SUFFICES ASSUME NEW p \in Orders, internalOf'[p] = <<"live", p>>, orders'[<<"ext", p>>] = NotThere,
                      orders'[<<"recon", p>>] = NotThere, drops' = 0, EventsIn(userEvents', p) = {}
               PROVE  orders'[<<"live", p>>] = Mapped(venueOrders'[p])
    BY EventsOfIs DEF AnsweredOrdersAgree
  <2>1. orders[<<"live", p>>] = Mapped(venueOrders[p])
    BY <1>1, Constants, EventsOfIs DEF LiveInv, AnsweredOrdersAgree
  <2>2. CASE <<"live", p>> = i
    <3>1. venueOrders[p].status = "CANCELED" BY <2>2
    <3>2. orders[i] = [status |-> "CANCELLED", filled |-> venueOrders[p].filled]
      BY <2>1, <2>2, <3>1 DEF Mapped, StatusMap
    <3> QED BY <1>1, <2>1, <2>2, <3>2
  <2>3. CASE <<"live", p>> # i BY <1>1, <2>1, <2>3, Constants
  <2> QED BY <2>2, <2>3
<1> QED BY <1>2, <1>3, <1>4, <1>5, <1>6, <1>7 DEF LiveInv

LEMMA CancelOnlyInv ==
    ASSUME LiveInv,
           UNCHANGED <<venueVars, placing, orders, internalOf, fills, balance, round, fetchedBalance, fetchedOrders>>,
           cancelling' \in [InternalIds -> {"idle", "sent", "accepted"}],
           \A j \in InternalIds : /\ cancelling'[j] = "accepted" => cancelling[j] = "accepted"
                                  /\ cancelling'[j] # "idle" => orders[j] # NotThere
    PROVE  LiveInv'
<1> USE DEF venueVars
<1>1. LiveTypeOK' BY DEF LiveInv, LiveTypeOK
<1>2. MapsLeadToRecords' /\ VenueFollowsPlacing' /\ CancelAccepted' /\ UpAtFirst'
  BY DEF LiveInv, MapsLeadToRecords, VenueFollowsPlacing, CancelAccepted, OpenAtVenue, UpAtFirst
<1>3. QueueTells' BY TellsKept
<1>4. ExecutionsBookedOnce' BY BooksKept
<1>5. AnsweredOrdersAgree' BY DEF LiveInv, AnsweredOrdersAgree, EventsOf
<1> QED BY <1>1, <1>2, <1>3, <1>4, <1>5 DEF LiveInv

LEMMA BeginCancelInv == ASSUME LiveInv, NEW i \in InternalIds, BeginCancel(i) PROVE LiveInv'
<1>1. CASE internalOf[i[2]] = i
  <2>1. /\ cancelling' = [cancelling EXCEPT ![i] = "sent"]
        /\ UNCHANGED <<venueVars, placing, orders, internalOf, fills, balance, round, fetchedBalance, fetchedOrders>>
    BY <1>1 DEF BeginCancel
  <2>2. /\ cancelling' \in [InternalIds -> {"idle", "sent", "accepted"}]
        /\ \A j \in InternalIds : /\ cancelling'[j] = "accepted" => cancelling[j] = "accepted"
                             /\ cancelling'[j] # "idle" => orders[j] # NotThere
    BY <2>1 DEF LiveInv, LiveTypeOK, CancelAccepted, BeginCancel
  <2> QED BY <2>1, <2>2, CancelOnlyInv
<1>2. CASE internalOf[i[2]] # i
  <2>1. /\ CancelLocally(i) /\ orders[i] # NotThere /\ cancelling' = cancelling
        /\ UNCHANGED <<venueVars, placing, internalOf, fills, balance, round, fetchedBalance, fetchedOrders>>
    BY <1>2 DEF BeginCancel
  <2>2. /\ cancelling' \in [InternalIds -> {"idle", "sent", "accepted"}]
        /\ \A j \in InternalIds : /\ cancelling'[j] = "accepted" => cancelling[j] = "accepted"
                                  /\ cancelling'[j] # "idle" => orders[j] # NotThere
    BY <2>1 DEF LiveInv, LiveTypeOK, CancelAccepted
  <2> QED BY <1>2, <2>1, <2>2, CancelLocallyInv
<1> QED BY <1>1, <1>2

LEMMA FinishCancelInv == ASSUME LiveInv, NEW i \in InternalIds, FinishCancel(i) PROVE LiveInv'
<1>1. /\ cancelling[i] = "accepted" /\ CancelLocally(i) /\ cancelling' = [cancelling EXCEPT ![i] = "idle"]
      /\ UNCHANGED <<venueVars, placing, internalOf, fills, balance, round, fetchedBalance, fetchedOrders>>
  BY DEF FinishCancel
<1>2. /\ cancelling' \in [InternalIds -> {"idle", "sent", "accepted"}]
      /\ \A j \in InternalIds : /\ cancelling'[j] = "accepted" => cancelling[j] = "accepted"
                             /\ cancelling'[j] # "idle" => orders[j] # NotThere
  BY <1>1 DEF LiveInv, LiveTypeOK, CancelAccepted
<1>3. venueOrders[i[2]].status = "CANCELED" BY <1>1 DEF LiveInv, CancelAccepted
<1>4. orders[i] # NotThere BY <1>1 DEF LiveInv, CancelAccepted
<1> QED BY <1>1, <1>2, <1>3, <1>4, CancelLocallyInv

LEMMA CancelRaisesInv == ASSUME LiveInv, NEW i \in InternalIds, CancelRaises(i) PROVE LiveInv'
<1>1. /\ cancelling' = [cancelling EXCEPT ![i] = "idle"]
      /\ UNCHANGED <<venueVars, placing, orders, internalOf, fills, balance, round, fetchedBalance, fetchedOrders>>
  BY DEF CancelRaises
<1>2. /\ cancelling' \in [InternalIds -> {"idle", "sent", "accepted"}]
      /\ \A j \in InternalIds : /\ cancelling'[j] = "accepted" => cancelling[j] = "accepted"
                             /\ cancelling'[j] # "idle" => orders[j] # NotThere
  BY <1>1 DEF LiveInv, LiveTypeOK, CancelAccepted
<1> QED BY <1>1, <1>2, CancelOnlyInv

LEMMA HandleBalanceUpdateInv == ASSUME LiveInv, HandleBalanceUpdate PROVE LiveInv'
<1> DEFINE h == Head(userEvents)
<1>1. /\ userEvents # <<>> /\ h.kind = "balance" /\ balance' = h.balance /\ userEvents' = Tail(userEvents)
      /\ UNCHANGED <<venueOrders, streamUp, drops, placing, cancelling, orders, internalOf, fills, round,
                     fetchedBalance, fetchedOrders>>
  BY DEF HandleBalanceUpdate
<1>2. userEvents \in Seq(Events) BY DEF LiveInv, LiveTypeOK
<1> HIDE DEF h
<1>3. \A o \in Orders : ~ For(o, h) BY <1>1 DEF For
<1>4. /\ userEvents' \in Seq(Events) /\ h \in Events
      /\ \A o \in Orders : /\ Coming(userEvents, o) = Coming(userEvents', o)
                           /\ EventsIn(userEvents', o) = {} <=> EventsIn(userEvents, o) = {}
                           /\ \A v : LastTells(userEvents, o, v) /\ EventsIn(userEvents', o) # {}
                                        => LastTells(userEvents', o, v)
  <2>1. /\ Tail(userEvents) \in Seq(Events) /\ Head(userEvents) \in Events BY <1>1, <1>2, HeadTailProperties
  <2>2. ASSUME NEW o \in Orders
        PROVE  /\ Coming(userEvents, o) = Coming(Tail(userEvents), o)
               /\ EventsIn(Tail(userEvents), o) = {} <=> EventsIn(userEvents, o) = {}
               /\ \A v : LastTells(userEvents, o, v) /\ EventsIn(Tail(userEvents), o) # {}
                            => LastTells(Tail(userEvents), o, v)
    BY <1>1, <1>2, <1>3, TailEvent DEF h
  <2> QED BY <1>1, <2>1, <2>2 DEF h
<1>5. LiveTypeOK' BY <1>1, <1>4, EventFields DEF LiveInv, LiveTypeOK
<1>6. MapsLeadToRecords' /\ VenueFollowsPlacing' /\ CancelAccepted' /\ UpAtFirst'
  BY <1>1 DEF LiveInv, MapsLeadToRecords, VenueFollowsPlacing, CancelAccepted, OpenAtVenue, UpAtFirst
<1>7. QueueTells'
  <2> SUFFICES ASSUME drops' = 0, NEW p \in Orders
               PROVE  \/ LastTells(userEvents', p, venueOrders'[p])
                      \/ EventsIn(userEvents', p) = {} /\ (internalOf'[p] = Untracked => venueOrders'[p] = NotThere)
    BY DEF QueueTells, Tells
  <2>1. \/ LastTells(userEvents, p, venueOrders[p])
        \/ EventsIn(userEvents, p) = {} /\ (internalOf[p] = Untracked => venueOrders[p] = NotThere)
    BY <1>1 DEF LiveInv, QueueTells, Tells
  <2>2. LastTells(userEvents, p, venueOrders[p]) => EventsIn(userEvents, p) # {} BY DEF LastTells
  <2> QED BY <2>1, <2>2, <1>1, <1>4
<1>8. ExecutionsBookedOnce' BY <1>1, <1>4, BooksNow, BooksNext DEF LiveInv, Books
<1>9. AnsweredOrdersAgree' BY <1>1, <1>4, EventsOfIs DEF LiveInv, AnsweredOrdersAgree
<1> QED BY <1>5, <1>6, <1>7, <1>8, <1>9 DEF LiveInv

LEMMA MappedState ==
    ASSUME NEW v \in VenueStates
    PROVE  Mapped(v) \in OrderStates /\ Mapped(v) # NotThere
BY DEF Mapped, StatusMap, NotThere, VenueStates, VenueStatuses, OrderStates, Terminal

LEMMA HandleOrderUpdateInv == ASSUME LiveInv, HandleOrderUpdate PROVE LiveInv'
<1> DEFINE e == Head(userEvents)
           o == e.order
           i == RecordOf(o, "ext")
<1>1. /\ userEvents # <<>> /\ e.kind = "order" /\ userEvents' = Tail(userEvents)
      /\ orders' = [orders EXCEPT ![i] = Mapped(e.state)]
      /\ internalOf' = [internalOf EXCEPT ![o] = i]
      /\ fills' = [fills EXCEPT ![i] = @ + e.last]
      /\ UNCHANGED <<venueOrders, streamUp, drops, placing, cancelling, balance, round,
                     fetchedBalance, fetchedOrders>>
  BY DEF HandleOrderUpdate
<1>2. userEvents \in Seq(Events) BY DEF LiveInv, LiveTypeOK
<1>3. e \in Events BY <1>1, <1>2, HeadTailProperties
<1>4. o \in Orders /\ e.state \in VenueStates /\ e.last \in Nat
  BY <1>1, <1>3, EventFields, Constants
<1>5. For(o, e) /\ \A p \in Orders \ {o} : ~ For(p, e) BY <1>1 DEF For
<1>6. i \in InternalIds /\ i[2] = o /\ i # Untracked /\ i \in {<<"live", o>>, <<"ext", o>>, <<"recon", o>>}
      /\ (internalOf[o] # Untracked => i = internalOf[o]) /\ (internalOf[o] = Untracked => i = <<"ext", o>>)
  <2>1. internalOf[o] \in {Untracked, <<"live", o>>, <<"ext", o>>, <<"recon", o>>}
    BY <1>4 DEF LiveInv, MapsLeadToRecords
  <2>2. i = IF internalOf[o] # Untracked THEN internalOf[o] ELSE <<"ext", o>> BY DEF RecordOf
  <2> HIDE DEF o, i
  <2>3. /\ i # Untracked /\ i \in {<<"live", o>>, <<"ext", o>>, <<"recon", o>>}
        /\ (internalOf[o] # Untracked => i = internalOf[o]) /\ (internalOf[o] = Untracked => i = <<"ext", o>>)
    BY <2>1, <2>2, <1>4, Constants
  <2>4. i \in InternalIds BY <2>3, <1>4, Constants
  <2>5. i[2] = o BY <2>3
  <2> QED BY <2>3, <2>4, <2>5
<1>7. Mapped(e.state) \in OrderStates /\ Mapped(e.state) # NotThere BY <1>4, MappedState
<1>8. /\ userEvents' \in Seq(Events)
      /\ Coming(userEvents, o) = e.last + Coming(userEvents', o)
      /\ EventsIn(userEvents, o) # {}
      /\ \A v : EventsIn(userEvents', o) = {} /\ LastTells(userEvents, o, v) => e.state = v
      /\ \A p \in Orders : \A v : LastTells(userEvents, p, v) /\ EventsIn(userEvents', p) # {}
                                     => LastTells(userEvents', p, v)
      /\ \A p \in Orders \ {o} : /\ Coming(userEvents, p) = Coming(userEvents', p)
                                 /\ EventsIn(userEvents', p) = {} <=> EventsIn(userEvents, p) = {}
  <2>1. /\ Tail(userEvents) \in Seq(Events)
        /\ Coming(userEvents, o) = e.last + Coming(Tail(userEvents), o)
        /\ EventsIn(userEvents, o) # {}
        /\ \A v : EventsIn(Tail(userEvents), o) = {} /\ LastTells(userEvents, o, v) => e.state = v
    <3> HIDE DEF o
    <3> QED BY <1>1, <1>2, <1>4, <1>5, TailEvent
  <2>2. ASSUME NEW p \in Orders
        PROVE  \A v : LastTells(userEvents, p, v) /\ EventsIn(Tail(userEvents), p) # {}
                        => LastTells(Tail(userEvents), p, v)
    BY <1>1, <1>2, TailEvent
  <2>3. ASSUME NEW p \in Orders \ {o}
        PROVE  /\ Coming(userEvents, p) = Coming(Tail(userEvents), p)
               /\ EventsIn(Tail(userEvents), p) = {} <=> EventsIn(userEvents, p) = {}
    <3> HIDE DEF o
    <3> QED BY <1>1, <1>2, <1>5, TailEvent
  <2> HIDE DEF o, e
  <2> QED BY <1>1, <2>1, <2>2, <2>3
<1> HIDE DEF e, o, i
<1>9. LiveTypeOK'
  BY <1>1, <1>4, <1>6, <1>7, <1>8 DEF LiveInv, LiveTypeOK
<1>10. /\ \A j \in InternalIds : orders[j] # NotThere => orders'[j] # NotThere
       /\ orders'[i] = Mapped(e.state) /\ orders'[i] # NotThere
       /\ \A j \in InternalIds \ {i} : orders'[j] = orders[j]
       /\ internalOf'[o] = i /\ \A p \in Orders \ {o} : internalOf'[p] = internalOf[p]
  BY <1>1, <1>4, <1>6, <1>7 DEF LiveInv, LiveTypeOK
<1>11. MapsLeadToRecords'
  <2> SUFFICES ASSUME NEW p \in Orders
               PROVE  \/ internalOf'[p] \in {Untracked, <<"live", p>>}
                      \/ internalOf'[p] \in {<<"ext", p>>, <<"recon", p>>} /\ orders'[internalOf'[p]] # NotThere
    BY DEF MapsLeadToRecords
  <2>1. CASE p = o BY <2>1, <1>6, <1>10
  <2>2. CASE p # o
    <3>1. internalOf'[p] = internalOf[p] BY <2>2, <1>10
    <3>2. <<"ext", p>> \in InternalIds /\ <<"recon", p>> \in InternalIds BY DEF InternalIds
    <3> QED BY <3>1, <3>2, <1>10 DEF LiveInv, MapsLeadToRecords
  <2> QED BY <2>1, <2>2
<1>12. VenueFollowsPlacing'
  <2>1. internalOf'[o] = <<"live", o>> => internalOf[o] = <<"live", o>> BY <1>6, <1>10
  <2> QED BY <1>1, <1>4, <1>10, <2>1 DEF LiveInv, VenueFollowsPlacing, OpenAtVenue
<1>13. CancelAccepted' /\ UpAtFirst' BY <1>1, <1>10 DEF LiveInv, CancelAccepted, UpAtFirst
<1>14. QueueTells'
  <2> SUFFICES ASSUME drops' = 0, NEW p \in Orders
               PROVE  \/ LastTells(userEvents', p, venueOrders'[p])
                      \/ EventsIn(userEvents', p) = {} /\ (internalOf'[p] = Untracked => venueOrders'[p] = NotThere)
    BY DEF QueueTells, Tells
  <2>1. \/ LastTells(userEvents, p, venueOrders[p])
        \/ EventsIn(userEvents, p) = {} /\ (internalOf[p] = Untracked => venueOrders[p] = NotThere)
    BY <1>1 DEF LiveInv, QueueTells, Tells
  <2>2. LastTells(userEvents, p, venueOrders[p]) => EventsIn(userEvents, p) # {} BY DEF LastTells
  <2>3. CASE p = o
    <3>1. internalOf'[p] # Untracked BY <2>3, <1>6, <1>10
    <3>2. LastTells(userEvents, p, venueOrders[p]) BY <2>1, <2>3, <1>8
    <3> QED BY <3>1, <3>2, <1>1, <1>8
  <2>4. CASE p # o
    <3>1. internalOf'[p] = internalOf[p] BY <2>4, <1>10
    <3> QED BY <2>1, <2>2, <2>4, <3>1, <1>1, <1>8
  <2> QED BY <2>3, <2>4
<1>15. ExecutionsBookedOnce'
  <2> SUFFICES ASSUME NEW p \in Orders
               PROVE  /\ Booked(fills', p) + Coming(userEvents', p) <= venueOrders'[p].filled
                      /\ drops' = 0 => Booked(fills', p) + Coming(userEvents', p) = venueOrders'[p].filled
    BY BooksNext DEF Books
  <2>1. /\ Booked(fills, p) + Coming(userEvents, p) <= venueOrders[p].filled
        /\ drops = 0 => Booked(fills, p) + Coming(userEvents, p) = venueOrders[p].filled
    BY BooksNow DEF LiveInv, Books
  <2>2. fills \in [InternalIds -> Nat] BY DEF LiveInv, LiveTypeOK
  <2>3. Booked(fills, p) \in Nat /\ Coming(userEvents, p) \in Nat /\ Coming(userEvents', p) \in Nat
    BY <2>2, <1>2, <1>8, BookedNat, EventsInFinite
  <2>4. Booked(fills', p) = Booked(fills, p) + (IF i[2] = p THEN e.last ELSE 0)
    <3>1. /\ fills' \in [InternalIds -> Nat] /\ fills'[i] = fills[i] + e.last
          /\ \A j \in InternalIds \ {i} : fills'[j] = fills[j]
      BY <1>1, <1>4, <1>6, <2>2
    <3>2. e.last \in Nat /\ i \in InternalIds BY <1>4, <1>6
    <3> QED BY <2>2, <3>1, <3>2, BookOne
  <2>5. Booked(fills', p) + Coming(userEvents', p) = Booked(fills, p) + Coming(userEvents, p)
    <3>1. CASE p = o BY <3>1, <1>4, <1>6, <1>8, <2>3, <2>4
    <3>2. CASE p # o BY <3>2, <1>6, <1>8, <2>3, <2>4
    <3> QED BY <3>1, <3>2
  <2> QED BY <2>1, <2>5, <1>1
<1>16. AnsweredOrdersAgree'
  <2> SUFFICES ASSUME NEW p \in Orders, internalOf'[p] = <<"live", p>>, orders'[<<"ext", p>>] = NotThere,
                      orders'[<<"recon", p>>] = NotThere, drops' = 0, EventsIn(userEvents', p) = {}
               PROVE  orders'[<<"live", p>>] = Mapped(venueOrders'[p])
    BY EventsOfIs DEF AnsweredOrdersAgree
  <2>1. CASE p = o
    <3>1. i = <<"live", p>> BY <2>1, <1>10
    <3>2. LastTells(userEvents, o, venueOrders[o]) BY <1>1, <1>4, <1>8 DEF LiveInv, QueueTells, Tells
    <3>3. e.state = venueOrders[o] BY <2>1, <3>2, <1>8
    <3> QED BY <2>1, <3>1, <3>3, <1>1, <1>10
  <2>2. CASE p # o
    <3>1. <<"live", p>> # i /\ <<"ext", p>> # i /\ <<"recon", p>> # i BY <2>2, <1>6
    <3>2. /\ orders[<<"ext", p>>] = NotThere /\ orders[<<"recon", p>>] = NotThere
          /\ orders'[<<"live", p>>] = orders[<<"live", p>>] /\ internalOf[p] = <<"live", p>>
      BY <2>2, <3>1, <1>10, Constants
    <3> QED BY <2>2, <3>2, <1>1, <1>8, EventsOfIs DEF LiveInv, AnsweredOrdersAgree
  <2> QED BY <2>1, <2>2
<1> QED BY <1>9, <1>11, <1>12, <1>13, <1>14, <1>15, <1>16 DEF LiveInv

\* The steps of a round that touch neither orders nor the books.
LEMMA FetchBalancesInv == ASSUME LiveInv, FetchBalances PROVE LiveInv'
<1> USE DEF FetchBalances, venueVars
<1>1. Executed \in Nat BY ExecutedNow, ExecutedNat DEF LiveInv, LiveTypeOK
<1>2. LiveTypeOK' BY <1>1 DEF LiveInv, LiveTypeOK
<1>3. MapsLeadToRecords' /\ VenueFollowsPlacing' /\ CancelAccepted' /\ UpAtFirst'
  BY DEF LiveInv, MapsLeadToRecords, VenueFollowsPlacing, CancelAccepted, OpenAtVenue, UpAtFirst
<1>4. QueueTells' BY TellsKept
<1>5. ExecutionsBookedOnce' BY BooksKept
<1>6. AnsweredOrdersAgree' BY DEF LiveInv, AnsweredOrdersAgree, EventsOf
<1> QED BY <1>2, <1>3, <1>4, <1>5, <1>6 DEF LiveInv

LEMMA ApplyBalancesInv == ASSUME LiveInv, ApplyBalances PROVE LiveInv'
<1> USE DEF ApplyBalances, venueVars
<1>2. LiveTypeOK' BY DEF LiveInv, LiveTypeOK
<1>3. MapsLeadToRecords' /\ VenueFollowsPlacing' /\ CancelAccepted' /\ UpAtFirst'
  BY DEF LiveInv, MapsLeadToRecords, VenueFollowsPlacing, CancelAccepted, OpenAtVenue, UpAtFirst
<1>4. QueueTells' BY TellsKept
<1>5. ExecutionsBookedOnce' BY BooksKept
<1>6. AnsweredOrdersAgree' BY DEF LiveInv, AnsweredOrdersAgree, EventsOf
<1> QED BY <1>2, <1>3, <1>4, <1>5, <1>6 DEF LiveInv

LEMMA FetchOrdersInv == ASSUME LiveInv, FetchOrders PROVE LiveInv'
<1> USE DEF FetchOrders, venueVars
<1>1. \A o \in Orders : OpenAtVenue(o) => venueOrders[o] \in VenueStates
  BY StateFields DEF LiveInv, LiveTypeOK, OpenAtVenue
<1>2. fetchedOrders' \subseteq [order: Orders, state: VenueStates] BY <1>1
<1>3. LiveTypeOK' BY <1>2 DEF LiveInv, LiveTypeOK
<1>4. MapsLeadToRecords' /\ VenueFollowsPlacing' /\ CancelAccepted' /\ UpAtFirst'
  BY DEF LiveInv, MapsLeadToRecords, VenueFollowsPlacing, CancelAccepted, OpenAtVenue, UpAtFirst
<1>5. QueueTells' BY TellsKept
<1>6. ExecutionsBookedOnce' BY BooksKept
<1>7. AnsweredOrdersAgree' BY DEF LiveInv, AnsweredOrdersAgree, EventsOf
<1> QED BY <1>3, <1>4, <1>5, <1>6, <1>7 DEF LiveInv

\* A round adds records of its own, for orders the maps do not hold.
LEMMA ApplyOrdersInv == ASSUME LiveInv, ApplyOrders PROVE LiveInv'
<1> DEFINE new == {f \in fetchedOrders : Unknown(f.order)}
           found(o) == \E f \in new : f.order = o
<1>1. /\ round' = "sleeping" /\ fetchedOrders' = {}
      /\ orders' = [i \in InternalIds |->
                       IF \E f \in new : i = <<"recon", f.order>>
                       THEN Mapped((CHOOSE f \in new : f.order = i[2]).state) ELSE orders[i]]
      /\ internalOf' = [o \in Orders |-> IF found(o) THEN <<"recon", o>> ELSE internalOf[o]]
      /\ UNCHANGED <<venueVars, placing, cancelling, fills, balance, fetchedBalance>>
  BY DEF ApplyOrders
<1>2. \A f \in new : f.order \in Orders /\ f.state \in VenueStates /\ internalOf[f.order] = Untracked
  BY DEF LiveInv, LiveTypeOK, Unknown
<1> HIDE DEF new
<1>3. ASSUME NEW i \in InternalIds, \E f \in new : i = <<"recon", f.order>>
      PROVE  /\ orders'[i] \in OrderStates /\ orders'[i] # NotThere
             /\ i = <<"recon", i[2]>> /\ found(i[2])
  <2>1. PICK f \in new : i = <<"recon", f.order>> BY <1>3
  <2>2. i[2] = f.order BY <2>1
  <2> DEFINE g == CHOOSE g \in new : g.order = i[2]
  <2>3. g \in new BY <2>2
  <2> HIDE DEF g
  <2>4. g.state \in VenueStates BY <2>3, <1>2
  <2>5. orders'[i] = Mapped(g.state) BY <1>1, <1>3 DEF g
  <2> QED BY <2>1, <2>2, <2>4, <2>5, MappedState
<1>4. ASSUME NEW i \in InternalIds, ~ \E f \in new : i = <<"recon", f.order>>
      PROVE  orders'[i] = orders[i]
  BY <1>1, <1>4
<1>5. orders' \in [InternalIds -> OrderStates \cup {NotThere}]
  <2>1. orders' = [i \in InternalIds |-> orders'[i]] BY <1>1
  <2>2. \A i \in InternalIds : orders'[i] \in OrderStates \cup {NotThere}
    BY <1>3, <1>4 DEF LiveInv, LiveTypeOK
  <2> QED BY <2>1, <2>2
<1>6. internalOf' \in [Orders -> InternalIds \cup {Untracked}]
  <2>1. \A o \in Orders : internalOf[o] \in InternalIds \cup {Untracked} BY DEF LiveInv, LiveTypeOK
  <2> HIDE DEF found
  <2> QED BY <1>1, <2>1, Constants
<1>7. LiveTypeOK' BY <1>1, <1>5, <1>6 DEF LiveInv, LiveTypeOK, venueVars
<1>8. \A o \in Orders : \/ found(o) /\ internalOf'[o] = <<"recon", o>> /\ internalOf[o] = Untracked
                        \/ ~ found(o) /\ internalOf'[o] = internalOf[o]
  BY <1>1, <1>2
<1>9. \A o \in Orders : found(o) => orders'[<<"recon", o>>] # NotThere
  <2> SUFFICES ASSUME NEW o \in Orders, found(o) PROVE orders'[<<"recon", o>>] # NotThere
    OBVIOUS
  <2>1. <<"recon", o>> \in InternalIds BY Constants
  <2>2. \E f \in new : <<"recon", o>> = <<"recon", f.order>> OBVIOUS
  <2> QED BY <2>1, <2>2, <1>3
<1>10. \A i \in InternalIds : orders[i] # NotThere => orders'[i] # NotThere BY <1>3, <1>4
<1>11. \A o \in Orders : orders'[<<"live", o>>] = orders[<<"live", o>>] /\ orders'[<<"ext", o>>] = orders[<<"ext", o>>]
  BY <1>4, Constants
<1> HIDE DEF found
<1>12. MapsLeadToRecords'
  <2> SUFFICES ASSUME NEW o \in Orders
               PROVE  \/ internalOf'[o] \in {Untracked, <<"live", o>>}
                      \/ internalOf'[o] \in {<<"ext", o>>, <<"recon", o>>} /\ orders'[internalOf'[o]] # NotThere
    BY DEF MapsLeadToRecords
  <2>1. CASE found(o) BY <2>1, <1>8, <1>9
  <2>2. CASE ~ found(o)
    <3>1. \/ internalOf[o] \in {Untracked, <<"live", o>>}
          \/ internalOf[o] \in {<<"ext", o>>, <<"recon", o>>} /\ orders[internalOf[o]] # NotThere
      BY DEF LiveInv, MapsLeadToRecords
    <3> QED BY <3>1, <2>2, <1>8, <1>10, Constants
  <2> QED BY <2>1, <2>2
<1>13. VenueFollowsPlacing'
  <2>1. \A o \in Orders : internalOf'[o] = <<"live", o>> => internalOf[o] = <<"live", o>> BY <1>8
  <2> QED BY <1>1, <2>1 DEF LiveInv, VenueFollowsPlacing, OpenAtVenue, venueVars
<1>14. CancelAccepted' /\ UpAtFirst' BY <1>1, <1>10 DEF LiveInv, CancelAccepted, UpAtFirst, venueVars
<1>15. QueueTells' BY <1>1, <1>8, Constants, TellsKept DEF venueVars
<1>16. ExecutionsBookedOnce' BY <1>1, BooksKept DEF venueVars
<1>17. AnsweredOrdersAgree'
  <2> SUFFICES ASSUME NEW p \in Orders, internalOf'[p] = <<"live", p>>, orders'[<<"ext", p>>] = NotThere,
                      orders'[<<"recon", p>>] = NotThere, drops' = 0, EventsIn(userEvents', p) = {}
               PROVE  orders'[<<"live", p>>] = Mapped(venueOrders'[p])
    BY EventsOfIs DEF AnsweredOrdersAgree
  <2>1. internalOf[p] = <<"live", p>> BY <1>8
  <2>2. orders[<<"recon", p>>] = NotThere BY <1>10, Constants
  <2> QED BY <2>1, <2>2, <1>1, <1>11, EventsOfIs DEF LiveInv, AnsweredOrdersAgree, venueVars
<1> QED BY <1>7, <1>12, <1>13, <1>14, <1>15, <1>16, <1>17 DEF LiveInv

LEMMA LiveStutterInv == ASSUME LiveInv, UNCHANGED liveVars PROVE LiveInv'
<1> USE DEF liveVars, venueVars
<1>1. cancelling \in [InternalIds -> {"idle", "sent", "accepted"}] BY DEF LiveInv, LiveTypeOK
<1>2. \A j \in InternalIds : cancelling[j] # "idle" => orders[j] # NotThere BY DEF LiveInv, CancelAccepted
<1> QED BY <1>1, <1>2, CancelOnlyInv

LEMMA LiveNextInv == LiveInv /\ [LiveNext]_liveVars => LiveInv'
<1> SUFFICES ASSUME LiveInv, [LiveNext]_liveVars PROVE LiveInv'
  OBVIOUS
<1>1. CASE \E o \in Orders : \/ VenueFills(o) \/ PlaceLiveOrder(o) \/ VenueAccepts(o)
                             \/ FinishPlace(o) \/ PlaceRaises(o)
  BY <1>1, VenueFillsInv, PlaceLiveOrderInv, VenueAcceptsInv, FinishPlaceInv, PlaceRaisesInv
<1>2. CASE \E i \in InternalIds : BeginCancel(i) \/ VenueCancels(i) \/ FinishCancel(i) \/ CancelRaises(i)
  BY <1>2, BeginCancelInv, VenueCancelsInv, FinishCancelInv, CancelRaisesInv
<1>3. CASE StreamDrops \/ StreamResumes
  BY <1>3, StreamDropsInv, StreamResumesInv
<1>4. CASE HandleOrderUpdate \/ HandleBalanceUpdate
  BY <1>4, HandleOrderUpdateInv, HandleBalanceUpdateInv
<1>5. CASE FetchBalances \/ ApplyBalances \/ FetchOrders \/ ApplyOrders
  BY <1>5, FetchBalancesInv, ApplyBalancesInv, FetchOrdersInv, ApplyOrdersInv
<1>6. CASE UNCHANGED liveVars BY <1>6, LiveStutterInv
<1> QED BY <1>1, <1>2, <1>3, <1>4, <1>5, <1>6 DEF LiveNext

LEMMA LiveInvariance == LiveSpec => []LiveInv
BY LiveInitInv, LiveNextInv, PTL DEF LiveSpec

\* The types of orders, id maps, queue and requests under way.
THEOREM LiveTypes == LiveSpec => []LiveTypeOK
<1>1. LiveInv => LiveTypeOK BY DEF LiveInv
<1> QED BY <1>1, LiveInvariance, PTL

\* For any reports, losses and rounds of the reconciliation: no execution of an
\* order is booked twice, and while nothing is lost none is missed.
THEOREM Executions == LiveSpec => []ExecutionsBookedOnce
<1>1. LiveInv => ExecutionsBookedOnce BY DEF LiveInv
<1> QED BY <1>1, LiveInvariance, PTL

\* An order known by the answer of its own placement is, once no event of it is
\* queued and as long as nothing was lost, shown as the venue has it.
THEOREM AnsweredOrders == LiveSpec => []AnsweredOrdersAgree
<1>1. LiveInv => AnsweredOrdersAgree BY DEF LiveInv
<1> QED BY <1>1, LiveInvariance, PTL

=============================================================================
