------------------------------- MODULE L2Book -------------------------------
(***************************************************************************)
(* The local L2 order book of one symbol: BinanceL2Manager, fed by the     *)
(* depth stream of a WebSocket connection and by REST snapshots, with the  *)
(* calls BinanceSource makes on it.  Three coroutines share the book: the  *)
(* receive loop (apply_delta, _recover), BinanceSource.subscribe           *)
(* (initialize, then the depth subscription) and the connect handler       *)
(* (reinitialize_all).  Each suspends while it fetches a snapshot.         *)
(*                                                                         *)
(* The venue numbers its updates 1, 2, ...  A book is the set of updates   *)
(* it reflects; a delta carries an interval of them, a snapshot all up to  *)
(* some moment between request and answer.  Reconnecting follows WsLink:   *)
(* the next connection is opened when the receive loop of the last one is  *)
(* over.                                                                   *)
(*                                                                         *)
(* Abstractions: prices, quantities and the depth limit; a book that       *)
(* misses updates may cross (best bid at or above best ask), one that      *)
(* misses none does not; the cooldown of 5 s passes at any moment; the     *)
(* source serves another symbol too, so every connect re-initialises.      *)
(***************************************************************************)
EXTENDS Integers, Sequences

CONSTANTS
    Futures,     \* futures stream (with `pu`) or spot stream
    SmallGap,    \* the gap spot tolerates (500 in the code)
    RestFails,   \* whether snapshot requests may fail
    MaxUpdates,  \* bound: updates of the venue
    MaxLost,     \* bound: deltas that never reach the client
    MaxCalls,    \* bound: calls of subscribe
    MaxConnects  \* bound: connections

ASSUME ConstantsAssumption ==
    /\ Futures \in BOOLEAN
    /\ RestFails \in BOOLEAN
    /\ {SmallGap, MaxUpdates, MaxLost, MaxCalls, MaxConnects} \subseteq Nat

Updates == 1..MaxUpdates
Handles == 1..MaxCalls

VARIABLES
    venue,      \* the venue's last update
    link,       \* the connection, and the fetch of its connect handler
    connects,   \* connections so far
    streaming,  \* the venue sends the depth stream on this connection
    covered,    \* last update the stream has got to
    stream,     \* deltas received and not yet read
    lost,       \* updates in deltas that never arrived
    losses,     \* how many such deltas
    wanted,     \* the depth stream is among the client's subscriptions
    books,      \* books[h]: the _LocalOrderBook the h-th call made
    current,    \* the one in _books, 0 for none
    calls,      \* calls[h]: progress of the h-th subscribe
    loop        \* what the receive loop does

vars == <<venue, link, connects, streaming, covered, stream, lost, losses, wanted, books,
          current, calls, loop>>

(* `base` is the update of the snapshot a book rests on (0: on nothing), and   *)
(* `source` who fetched it; `joint` is the first update of the first delta     *)
(* applied after it.  The code keeps none of the three.                        *)
Book == [applied: SUBSET Updates, last: 0..MaxUpdates, initialized: BOOLEAN, cooling: BOOLEAN,
         base: 0..MaxUpdates, source: {"none", "call", "connect", "loop"}, joint: 0..MaxUpdates]

Delta == [first: Updates, last: Updates]

TypeOK ==
    /\ venue \in 0..MaxUpdates
    /\ link \in [state: {"down", "announcing", "up"}, book: 0..MaxCalls, asked: 0..MaxUpdates]
    /\ connects \in 0..MaxConnects
    /\ streaming \in BOOLEAN
    /\ covered \in 0..MaxUpdates
    /\ stream \in Seq(Delta)
    /\ lost \in SUBSET Updates
    /\ losses \in 0..MaxLost
    /\ wanted \in BOOLEAN
    /\ books \in [Handles -> Book]
    /\ current \in 0..MaxCalls
    /\ calls \in [Handles -> [state: {"unused", "fetching", "done"}, asked: 0..MaxUpdates]]
    /\ loop \in [state: {"reading", "recovering"}, book: 0..MaxCalls, asked: 0..MaxUpdates]

NewBook == [applied |-> {}, last |-> 0, initialized |-> FALSE, cooling |-> FALSE,
            base |-> 0, source |-> "none", joint |-> 0]

Down == [state |-> "down", book |-> 0, asked |-> 0]
Up == [state |-> "up", book |-> 0, asked |-> 0]
Reading == [state |-> "reading", book |-> 0, asked |-> 0]

Init ==
    /\ venue = 0
    /\ link = Down
    /\ connects = 0
    /\ streaming = FALSE
    /\ covered = 0
    /\ stream = <<>>
    /\ lost = {}
    /\ losses = 0
    /\ wanted = FALSE
    /\ books = [h \in Handles |-> NewBook]
    /\ current = 0
    /\ calls = [h \in Handles |-> [state |-> "unused", asked |-> 0]]
    /\ loop = Reading

-------------------------------------------------------------------------------
(* The book *)

\* _recover and reinitialize_all drop the content and keep last_update_id.
Cleared(b) == [b EXCEPT !.applied = {}, !.initialized = FALSE, !.base = 0, !.source = "none"]

\* The levels of the snapshot are added to those of the book.
SnapshotMerged(b, s, who) ==
    [b EXCEPT !.applied = @ \cup 1..s, !.last = s, !.initialized = FALSE, !.base = s, !.source = who]

\* _fetch_and_apply_snapshot, once the answer is there.
Snapshot(b, s, who) ==
    [b EXCEPT !.applied = 1..s, !.last = s, !.initialized = FALSE, !.base = s, !.source = who]

\* The levels of a delta replace those of the book.
Overlay(b, d) ==
    [b EXCEPT !.applied = @ \cup d.first..d.last, !.last = d.last, !.initialized = TRUE,
              !.joint = IF b.initialized THEN @ ELSE d.first]

Stale(b, d) == d.last <= b.last

\* The tolerance of spot applied to futures too.
GapSpotRule(b, d) == b.initialized /\ d.first - (b.last + 1) > SmallGap

\* The continuity check, not made for the first delta after a snapshot.  The
\* `pu` of a futures delta is the update before its first one.
Gap(b, d) ==
    /\ b.initialized
    /\ IF Futures THEN d.first - 1 # b.last ELSE d.first - (b.last + 1) > SmallGap

Missing(b) == (1..b.last) \ b.applied

-------------------------------------------------------------------------------
(* The venue and the network *)

Update ==
    /\ venue < MaxUpdates
    /\ venue' = venue + 1
    /\ UNCHANGED <<link, connects, streaming, covered, stream, lost, losses, wanted, books,
                   current, calls, loop>>

\* The stream batches the updates since its last delta.
DeliverDelta ==
    /\ streaming
    /\ covered < venue
    /\ stream' = Append(stream, [first |-> covered + 1, last |-> venue])
    /\ covered' = venue
    /\ UNCHANGED <<venue, link, connects, streaming, lost, losses, wanted, books, current, calls, loop>>

LoseDelta ==
    /\ streaming
    /\ covered < venue
    /\ losses < MaxLost
    /\ lost' = lost \cup (covered + 1)..venue
    /\ losses' = losses + 1
    /\ covered' = venue
    /\ UNCHANGED <<venue, link, connects, streaming, stream, wanted, books, current, calls, loop>>

\* What was received before is still read.
LinkBreaks ==
    /\ link.state = "up"
    /\ link' = Down
    /\ streaming' = FALSE
    /\ UNCHANGED <<venue, connects, covered, stream, lost, losses, wanted, books, current, calls, loop>>

\* A subscribe request on an open connection starts the stream.
StartStream ==
    IF streaming THEN UNCHANGED <<streaming, covered>>
                 ELSE streaming' = TRUE /\ covered' = venue

-------------------------------------------------------------------------------
(* The connect handler *)

\* reinitialize_all clears the book and asks for a snapshot.
Connect ==
    /\ link.state = "down"
    /\ loop.state = "reading"
    /\ stream = <<>>
    /\ connects < MaxConnects
    /\ connects' = connects + 1
    /\ link' = [state |-> "announcing", book |-> current, asked |-> venue]
    /\ books' = IF current = 0 THEN books
                ELSE [books EXCEPT ![current] = [Cleared(@) EXCEPT !.cooling = FALSE]]
    /\ UNCHANGED <<venue, streaming, covered, stream, lost, losses, wanted, current, calls, loop>>

\* The connection is served from here on: the client resubscribes.
FinishConnect ==
    /\ link.state = "announcing"
    /\ link' = Up
    /\ IF wanted THEN StartStream ELSE UNCHANGED <<streaming, covered>>
    /\ \/ /\ link.book # 0
          /\ \E s \in link.asked..venue :
                books' = [books EXCEPT ![link.book] = Snapshot(@, s, "connect")]
       \/ /\ link.book # 0 => RestFails
          /\ books' = books
    /\ UNCHANGED <<venue, connects, stream, lost, losses, wanted, current, calls, loop>>

-------------------------------------------------------------------------------
(* BinanceSource.subscribe: initialize makes a new book at once, and deltas are *)
(* applied to it while its snapshot is awaited                                  *)

Subscribe(h) ==
    /\ calls[h].state = "unused"
    /\ \A g \in Handles : g < h => calls[g].state # "unused"
    /\ calls' = [calls EXCEPT ![h] = [state |-> "fetching", asked |-> venue]]
    /\ current' = h
    /\ UNCHANGED <<venue, link, connects, streaming, covered, stream, lost, losses, wanted, books, loop>>

\* The depth stream is subscribed whether or not there is a snapshot.
FinishSubscribe(h) ==
    /\ calls[h].state = "fetching"
    /\ calls' = [calls EXCEPT ![h].state = "done"]
    /\ wanted' = TRUE
    /\ IF link.state = "down" THEN UNCHANGED <<streaming, covered>> ELSE StartStream
    /\ \/ \E s \in calls[h].asked..venue : books' = [books EXCEPT ![h] = Snapshot(@, s, "call")]
       \/ RestFails /\ books' = books
    /\ UNCHANGED <<venue, link, connects, stream, lost, losses, current, loop>>

-------------------------------------------------------------------------------
(* The receive loop: apply_delta *)

\* The next delta for a book; there is a reader from FinishConnect on.
Read(d) ==
    /\ link.state # "announcing"
    /\ loop.state = "reading"
    /\ stream # <<>>
    /\ d = Head(stream)
    /\ stream' = Tail(stream)

\* _recover leaves the book alone within the cooldown of its last recovery.
Recover(b) ==
    IF b.cooling
    THEN /\ books' = [books EXCEPT ![current] = b]
         /\ loop' = loop
    ELSE /\ books' = [books EXCEPT ![current] = [Cleared(b) EXCEPT !.cooling = TRUE]]
         /\ loop' = [state |-> "recovering", book |-> current, asked |-> venue]

DropDelta ==
    \E d \in Delta :
        /\ Read(d)
        /\ Stale(books[current], d)
        /\ UNCHANGED <<venue, link, connects, streaming, covered, lost, losses, wanted, books,
                       current, calls, loop>>

ApplyDelta ==
    \E d \in Delta :
        /\ Read(d)
        /\ ~ Stale(books[current], d)
        /\ ~ Gap(books[current], d)
        /\ books' = [books EXCEPT ![current] = Overlay(@, d)]
        /\ UNCHANGED <<venue, link, connects, streaming, covered, lost, losses, wanted, current,
                       calls, loop>>

\* The delta was applied, and the book is crossed now.
ApplyDeltaCrosses ==
    \E d \in Delta :
        /\ Read(d)
        /\ ~ Stale(books[current], d)
        /\ ~ Gap(books[current], d)
        /\ Missing(Overlay(books[current], d)) # {}
        /\ Recover(Overlay(books[current], d))
        /\ UNCHANGED <<venue, link, connects, streaming, covered, lost, losses, wanted, current, calls>>

DetectGap ==
    \E d \in Delta :
        /\ Read(d)
        /\ ~ Stale(books[current], d)
        /\ Gap(books[current], d)
        /\ Recover(books[current])
        /\ UNCHANGED <<venue, link, connects, streaming, covered, lost, losses, wanted, current, calls>>

\* A snapshot as old as the book that is being replaced.
FinishRecoveryStale ==
    /\ loop.state = "recovering"
    /\ loop' = Reading
    /\ books' = [books EXCEPT ![loop.book] = Snapshot(@, books[loop.book].last, "loop")]
    /\ UNCHANGED <<venue, link, connects, streaming, covered, stream, lost, losses, wanted,
                   current, calls>>

\* The answer, or an exception that the receive loop swallows.
FinishRecovery ==
    /\ loop.state = "recovering"
    /\ loop' = Reading
    /\ \/ \E s \in loop.asked..venue :
             books' = [books EXCEPT ![loop.book] = Snapshot(@, s, "loop")]
       \/ RestFails /\ books' = books
    /\ UNCHANGED <<venue, link, connects, streaming, covered, stream, lost, losses, wanted,
                   current, calls>>

CooldownEnds(h) ==
    /\ books[h].cooling
    /\ books' = [books EXCEPT ![h].cooling = FALSE]
    /\ UNCHANGED <<venue, link, connects, streaming, covered, stream, lost, losses, wanted,
                   current, calls, loop>>

-------------------------------------------------------------------------------

Next ==
    \/ Update \/ DeliverDelta \/ LoseDelta \/ LinkBreaks
    \/ Connect \/ FinishConnect
    \/ \E h \in Handles : Subscribe(h) \/ FinishSubscribe(h) \/ CooldownEnds(h)
    \/ DropDelta \/ ApplyDelta \/ ApplyDeltaCrosses \/ DetectGap \/ FinishRecovery

Spec == Init /\ [][Next]_vars

-------------------------------------------------------------------------------
(* Properties *)

\* Whatever is lost, reconnected, fetched late or subscribed again: a futures
\* book in use misses exactly the updates between the snapshot it rests on and
\* the first delta after it, and none that came later.
HolesOnlyAtJoint ==
    Futures => \A h \in Handles : books[h].initialized =>
        Missing(books[h]) = (books[h].base + 1)..(books[h].joint - 1)

\* A book never shows an update beyond the sequence id it is published with,
\* nor one the venue has not made.
SequenceIdIsHonest ==
    \A h \in Handles : books[h].applied \subseteq 1..books[h].last /\ books[h].last <= venue

\* A recovery closes the gap: the deltas that came in while the receive loop
\* waited for the snapshot join it without a hole, except for updates that
\* never arrived.
RecoveryClosesGap ==
    Futures => \A h \in Handles :
        books[h].initialized /\ books[h].source = "loop" => Missing(books[h]) \subseteq lost

\* The protocol of the module's docstring: a book in use misses no update.
BookIsComplete == \A h \in Handles : books[h].initialized => Missing(books[h]) = {}

=============================================================================
