---------------------------- MODULE L2BookProofs ----------------------------
(***************************************************************************)
(* For any number of updates, lost deltas, subscribe calls and connections *)
(* and with snapshot requests that may fail: the safety properties of      *)
(* L2Book.                                                                 *)
(***************************************************************************)
EXTENDS L2Book, TLAPS

-------------------------------------------------------------------------------
(* The inductive invariant *)

\* What a book reflects: the snapshot it rests on and, once it is in use, every
\* update from the joint on.
Shape(b) ==
    /\ b.base <= b.last
    /\ ~ b.initialized => b.applied = 1..b.base
    /\ ~ b.initialized /\ b.source # "none" => b.base = b.last
    /\ b.applied \subseteq 1..b.last
    /\ b.initialized /\ Futures => /\ b.joint <= b.last
                                   /\ Missing(b) = (b.base + 1)..(b.joint - 1)

BookShape == \A h \in Handles : Shape(books[h])

\* Nobody uses the book of a call that was not made, and the depth stream
\* belongs to a book.
CallShape ==
    /\ \A h \in Handles : calls[h].state = "unused" =>
          books[h].source = "none" /\ current # h /\ loop.book # h /\ link.book # h
    /\ wanted \/ streaming \/ stream # <<>> \/ (\E h \in Handles : calls[h].state # "unused")
          => current \in Handles

\* Deltas wait in order, and none is ahead of the stream or the venue.
StreamOrdered ==
    /\ covered <= venue
    /\ \A i \in DOMAIN stream : stream[i].first <= stream[i].last /\ stream[i].last <= covered
    /\ \A i, j \in DOMAIN stream : i < j => stream[i].last < stream[j].first

\* No book, and no request, is ahead of the venue.
NotAhead ==
    /\ \A h \in Handles : books[h].last <= venue
    /\ \A h \in Handles : calls[h].asked <= venue
    /\ link.asked <= venue
    /\ loop.asked <= venue

\* Update u was lost or waits to be read.
Held(u) == u \in lost \/ \E i \in DOMAIN stream : stream[i].first <= u /\ u <= stream[i].last

\* Every update after k that the stream has got to is held.
HeldAfter(k) == \A u \in Updates : k < u /\ u <= covered => Held(u)

\* What comes after the snapshot of a recovery is held for the book.
RecoveryHeld ==
    /\ loop.state = "recovering" => loop.book \in Handles /\ HeldAfter(loop.asked)
    /\ current \in Handles /\ books[current].source = "loop" /\ ~ books[current].initialized
          => HeldAfter(books[current].base)

\* A recovery belongs to a connection whose stream runs, or that is over.
RecoveryOnStream ==
    \/ loop.state = "recovering"
    \/ current \in Handles /\ books[current].source = "loop"
    \/ stream # <<>>
    => streaming \/ link.state = "down"

IInv ==
    /\ TypeOK
    /\ BookShape
    /\ CallShape
    /\ StreamOrdered
    /\ NotAhead
    /\ RecoveryHeld
    /\ RecoveryOnStream
    /\ RecoveryClosesGap

-------------------------------------------------------------------------------
(* Books *)

LEMMA NewBookFits == NewBook \in Book /\ Shape(NewBook)
<1>1. NewBook \in Book
  BY ConstantsAssumption DEF NewBook, Book
<1>2. Shape(NewBook)
  BY DEF NewBook, Shape
<1> QED
  BY <1>1, <1>2

LEMMA ClearedFits ==
    ASSUME NEW b \in Book, Shape(b), NEW c \in BOOLEAN
    PROVE  LET e == [Cleared(b) EXCEPT !.cooling = c]
           IN  e \in Book /\ Shape(e) /\ e.last = b.last /\ e.source = "none" /\ ~ e.initialized
<1> DEFINE f == Cleared(b)
           e == [f EXCEPT !.cooling = c]
<1> DEFINE zero == 0
<1>0. zero \in 0..MaxUpdates
  BY ConstantsAssumption
<1> HIDE DEF zero
<1>1. \A a \in SUBSET Updates :
         LET r == [b EXCEPT !.applied = a, !.initialized = FALSE, !.base = zero, !.source = "none"]
         IN  /\ r \in Book /\ r.applied = a /\ r.last = b.last /\ r.initialized = FALSE
             /\ r.base = zero /\ r.source = "none"
  BY <1>0 DEF Book
<1>2. /\ f \in Book /\ f.applied = {} /\ f.last = b.last /\ f.initialized = FALSE
      /\ f.base = 0 /\ f.source = "none"
  BY <1>1 DEF Cleared, zero
<1> HIDE DEF f
<1>3. e \in Book
  BY <1>2 DEF Book
<1>4. /\ e.applied = {} /\ e.last = b.last /\ e.initialized = FALSE
      /\ e.base = 0 /\ e.source = "none"
  BY <1>2 DEF Book
<1>5. b.last \in Nat
  BY ConstantsAssumption DEF Book
<1> HIDE DEF e
<1>6. Shape(e)
  BY <1>4, <1>5 DEF Shape
<1> QED
  BY <1>3, <1>4, <1>6 DEF e, f

LEMMA SnapshotFits ==
    ASSUME NEW b \in Book, NEW s \in 0..MaxUpdates, NEW who \in {"call", "connect", "loop"}
    PROVE  LET e == Snapshot(b, s, who)
           IN  e \in Book /\ Shape(e) /\ e.last = s /\ e.base = s /\ e.source = who /\ ~ e.initialized
<1> DEFINE e == Snapshot(b, s, who)
<1>1. \A a \in SUBSET Updates :
         LET r == [b EXCEPT !.applied = a, !.last = s, !.initialized = FALSE, !.base = s,
                            !.source = who]
         IN  /\ r \in Book /\ r.applied = a /\ r.last = s /\ r.initialized = FALSE
             /\ r.base = s /\ r.source = who
  BY DEF Book
<1>2. 1..s \in SUBSET Updates
  BY ConstantsAssumption DEF Updates
<1>3. /\ e \in Book /\ e.applied = 1..s /\ e.last = s /\ e.initialized = FALSE
      /\ e.base = s /\ e.source = who
  BY <1>1, <1>2 DEF Snapshot
<1> HIDE DEF e
<1>4. Shape(e)
  BY <1>3 DEF Shape
<1> QED
  BY <1>3, <1>4 DEF e

LEMMA CooledFits ==
    ASSUME NEW b \in Book, Shape(b)
    PROVE  LET e == [b EXCEPT !.cooling = FALSE]
           IN  /\ e \in Book /\ Shape(e) /\ Missing(e) = Missing(b)
               /\ e.last = b.last /\ e.base = b.base /\ e.source = b.source
               /\ e.initialized = b.initialized
<1> DEFINE e == [b EXCEPT !.cooling = FALSE]
<1>1. e \in Book
  BY DEF Book
<1>2. /\ e.applied = b.applied /\ e.last = b.last /\ e.initialized = b.initialized
      /\ e.base = b.base /\ e.source = b.source /\ e.joint = b.joint
  BY DEF Book
<1>3. Missing(e) = Missing(b)
  BY <1>2 DEF Missing
<1>4. Shape(e)
  BY <1>2, <1>3, Zenon DEF Shape
<1> QED
  BY <1>1, <1>2, <1>3, <1>4

\* A delta that is neither stale nor after a gap keeps the shape.
LEMMA OverlayFits ==
    ASSUME NEW b \in Book, Shape(b), NEW d \in Delta, d.first <= d.last,
           ~ Stale(b, d), ~ Gap(b, d)
    PROVE  LET e == Overlay(b, d)
           IN  /\ e \in Book /\ Shape(e) /\ e.last = d.last /\ e.source = b.source /\ e.initialized
               /\ Futures /\ b.initialized => Missing(e) = Missing(b)
               /\ Futures /\ ~ b.initialized => Missing(e) = (b.base + 1)..(d.first - 1)
<1> DEFINE e == Overlay(b, d)
<1>2. /\ b.last \in Nat /\ b.base \in Nat /\ b.joint \in Nat /\ b.applied \subseteq Nat
      /\ d.first \in Nat \ {0} /\ d.last \in Nat
  BY ConstantsAssumption DEF Book, Delta, Updates
<1> DEFINE a == b.applied \cup d.first..d.last
           j == IF b.initialized THEN b.joint ELSE d.first
           k == d.last
<1>3. a \in SUBSET Updates /\ k \in 0..MaxUpdates /\ j \in 0..MaxUpdates
  BY ConstantsAssumption DEF Book, Delta, Updates
<1>4. /\ e \in Book /\ e.applied = a /\ e.last = k /\ e.initialized = TRUE
      /\ e.joint = j /\ e.base = b.base /\ e.source = b.source
  <2>1. e = [b EXCEPT !.applied = a, !.last = k, !.initialized = TRUE, !.joint = j]
    BY DEF Overlay
  <2> HIDE DEF e, a, j, k
  <2>2. e \in Book
    BY <1>3, <2>1 DEF Book
  <2>3. /\ e.applied = a /\ e.last = k /\ e.initialized = TRUE
        /\ e.joint = j /\ e.base = b.base /\ e.source = b.source
    BY <1>3, <2>1 DEF Book
  <2> QED
    BY <2>2, <2>3
<1> HIDE DEF e
<1>5. b.last < d.last
  BY <1>2 DEF Stale
<1>6. Futures /\ b.initialized => d.first = b.last + 1
  BY <1>2 DEF Gap
<1>7. b.base <= b.last /\ b.applied \subseteq 1..b.last
  BY DEF Shape
<1>8. Futures /\ b.initialized => Missing(e) = Missing(b)
  BY <1>2, <1>4, <1>5, <1>6, <1>7 DEF Missing
<1>9. Futures /\ ~ b.initialized => Missing(e) = (b.base + 1)..(d.first - 1)
  <2>1. ~ b.initialized => b.applied = 1..b.base
    BY DEF Shape
  <2> QED
    BY <1>2, <1>4, <1>5, <1>7, <2>1 DEF Missing
<1>10. e.applied \subseteq 1..e.last /\ e.base <= e.last
  BY <1>2, <1>4, <1>5, <1>7
<1>11. ASSUME Futures
       PROVE  e.joint <= e.last /\ Missing(e) = (e.base + 1)..(e.joint - 1)
  <2>1. CASE b.initialized
    <3>1. b.joint <= b.last /\ Missing(b) = (b.base + 1)..(b.joint - 1)
      BY <1>11, <2>1 DEF Shape
    <3>2. e.joint = b.joint /\ Missing(e) = Missing(b)
      BY <1>4, <1>8, <1>11, <2>1
    <3> QED
      BY <1>2, <1>4, <1>5, <3>1, <3>2
  <2>2. CASE ~ b.initialized
    BY <1>2, <1>4, <1>9, <1>11, <2>2
  <2> QED
    BY <2>1, <2>2
<1>12. Shape(e)
  BY <1>4, <1>10, <1>11 DEF Shape
<1> QED
  BY <1>4, <1>8, <1>9, <1>12 DEF e

-------------------------------------------------------------------------------
(* Steps that leave the books alone, and steps that replace one *)

\* A book in use that a recovery fetched misses only what was lost.
Closed(b) == Futures /\ b.initialized /\ b.source = "loop" => Missing(b) \subseteq lost

LEMMA SameBooks ==
    ASSUME IInv, books' = books, venue \in Nat, venue' \in Nat, venue <= venue', lost \subseteq lost'
    PROVE  /\ books' \in [Handles -> Book] /\ BookShape' /\ RecoveryClosesGap'
           /\ \A h \in Handles : books'[h].last <= venue'
<1>1. books' \in [Handles -> Book]
  BY DEF IInv, TypeOK
<1>2. BookShape'
  BY Zenon DEF IInv, BookShape, Shape, Missing
<1>3. RecoveryClosesGap'
  BY DEF IInv, RecoveryClosesGap, Missing
<1>4. \A h \in Handles : books[h].last \in Nat /\ books[h].last <= venue
  BY ConstantsAssumption DEF IInv, TypeOK, NotAhead, Book
<1>5. \A h \in Handles : books'[h].last <= venue'
  BY <1>4
<1> QED
  BY <1>1, <1>2, <1>3, <1>5

LEMMA OneBook ==
    ASSUME IInv, NEW h \in Handles, NEW e \in Book, books' = [books EXCEPT ![h] = e],
           Shape(e), e.last <= venue, Closed(e), venue' = venue, lost' = lost
    PROVE  /\ books' \in [Handles -> Book] /\ BookShape' /\ RecoveryClosesGap'
           /\ \A g \in Handles : books'[g].last <= venue'
           /\ books'[h] = e /\ \A g \in Handles \ {h} : books'[g] = books[g]
<1>1. /\ books' \in [Handles -> Book]
      /\ books'[h] = e /\ \A g \in Handles \ {h} : books'[g] = books[g]
  BY DEF IInv, TypeOK
<1>2. \A g \in Handles : Shape(books'[g])
  BY <1>1, Zenon DEF IInv, BookShape
<1>3. BookShape'
  BY <1>2, Zenon DEF BookShape, Shape, Missing
<1>4. RecoveryClosesGap'
  BY <1>1 DEF IInv, RecoveryClosesGap, Missing, Closed
<1>5. \A g \in Handles : books'[g].last <= venue'
  BY <1>1 DEF IInv, NotAhead
<1> QED
  BY <1>1, <1>3, <1>4, <1>5

-------------------------------------------------------------------------------
(* Initially *)

LEMMA InitIInv == Init => IInv
<1> SUFFICES ASSUME Init PROVE IInv
  OBVIOUS
<1>1. \A h \in Handles : books[h] = NewBook
  BY DEF Init
<1>2. TypeOK
  <2>1. books \in [Handles -> Book]
    BY NewBookFits DEF Init
  <2>2. calls \in [Handles -> [state: {"unused", "fetching", "done"}, asked: 0..MaxUpdates]]
    BY ConstantsAssumption DEF Init
  <2>3. /\ venue \in 0..MaxUpdates /\ connects \in 0..MaxConnects /\ covered \in 0..MaxUpdates
        /\ losses \in 0..MaxLost /\ current \in 0..MaxCalls
    BY ConstantsAssumption DEF Init
  <2>7. streaming \in BOOLEAN /\ wanted \in BOOLEAN /\ lost \in SUBSET Updates
    BY DEF Init
  <2>4. link \in [state: {"down", "announcing", "up"}, book: 0..MaxCalls, asked: 0..MaxUpdates]
    BY ConstantsAssumption DEF Init, Down
  <2>5. loop \in [state: {"reading", "recovering"}, book: 0..MaxCalls, asked: 0..MaxUpdates]
    BY ConstantsAssumption DEF Init, Reading
  <2>6. stream \in Seq(Delta)
    BY DEF Init
  <2> QED
    BY <2>1, <2>2, <2>3, <2>4, <2>5, <2>6, <2>7 DEF TypeOK
<1>3. BookShape
  BY <1>1, NewBookFits DEF BookShape
<1>4. CallShape
  BY <1>1 DEF Init, CallShape, NewBook, Down, Reading, Handles
<1>5. StreamOrdered
  BY DEF Init, StreamOrdered
<1>6. NotAhead
  BY <1>1 DEF Init, NotAhead, NewBook, Down, Reading
<1>7. RecoveryHeld
  BY <1>1 DEF Init, RecoveryHeld, Handles, Reading
<1>8. RecoveryOnStream
  BY DEF Init, RecoveryOnStream, Down, Reading, Handles
<1>9. RecoveryClosesGap
  BY <1>1 DEF RecoveryClosesGap, NewBook
<1> QED
  BY <1>2, <1>3, <1>4, <1>5, <1>6, <1>7, <1>8, <1>9 DEF IInv

-------------------------------------------------------------------------------
(* The venue and the network *)

\* What every step starts from.
LEMMA Numbers ==
    ASSUME TypeOK
    PROVE  /\ MaxUpdates \in Nat /\ MaxCalls \in Nat /\ MaxLost \in Nat /\ MaxConnects \in Nat
           /\ venue \in Nat /\ covered \in Nat /\ losses \in Nat /\ connects \in Nat
           /\ venue <= MaxUpdates /\ covered <= MaxUpdates
           /\ link.asked \in Nat /\ loop.asked \in Nat
           /\ \A h \in Handles : /\ books[h] \in Book /\ books[h].last \in Nat /\ books[h].base \in Nat
                                 /\ calls[h].asked \in Nat
           /\ \A i \in DOMAIN stream : stream[i].first \in Nat /\ stream[i].last \in Nat
<1>1. /\ MaxUpdates \in Nat /\ MaxCalls \in Nat /\ MaxLost \in Nat /\ MaxConnects \in Nat
      /\ venue \in Nat /\ covered \in Nat /\ losses \in Nat /\ connects \in Nat
      /\ venue <= MaxUpdates /\ covered <= MaxUpdates
      /\ link.asked \in Nat /\ loop.asked \in Nat
      /\ \A h \in Handles : /\ books[h] \in Book /\ books[h].last \in Nat /\ books[h].base \in Nat
                            /\ calls[h].asked \in Nat
  BY ConstantsAssumption DEF TypeOK, Book
<1>2. ASSUME NEW i \in DOMAIN stream
      PROVE  stream[i].first \in Nat /\ stream[i].last \in Nat
  <2>1. stream[i] \in Delta
    BY DEF TypeOK
  <2>2. stream[i].first \in 1..MaxUpdates /\ stream[i].last \in 1..MaxUpdates
    BY <2>1 DEF Delta, Updates
  <2> QED
    BY <2>2, <1>1
<1> QED
  BY <1>1, <1>2

LEMMA UpdateKeeps == IInv /\ Update => IInv'
<1> SUFFICES ASSUME IInv, Update PROVE IInv'
  OBVIOUS
<1> USE Numbers
<1>0. /\ TypeOK /\ venue' = venue + 1 /\ venue < MaxUpdates
      /\ UNCHANGED <<link, connects, streaming, covered, stream, lost, losses, wanted, books,
                     current, calls, loop>>
  BY DEF IInv, Update
<1>1. TypeOK'
  BY <1>0 DEF TypeOK
<1>2. BookShape' /\ RecoveryClosesGap' /\ \A h \in Handles : books'[h].last <= venue'
  BY <1>0, SameBooks
<1>3. CallShape'
  BY <1>0 DEF IInv, CallShape
<1>4. StreamOrdered'
  BY <1>0 DEF IInv, StreamOrdered
<1>5. NotAhead'
  BY <1>0, <1>2 DEF IInv, NotAhead
<1>6. RecoveryHeld' /\ RecoveryOnStream'
  BY <1>0 DEF IInv, RecoveryHeld, RecoveryOnStream, HeldAfter, Held
<1> QED
  BY <1>1, <1>2, <1>3, <1>4, <1>5, <1>6 DEF IInv

\* A delta joins the stream behind the others.
LEMMA DeliverDeltaKeeps == IInv /\ DeliverDelta => IInv'
<1> SUFFICES ASSUME IInv, DeliverDelta PROVE IInv'
  OBVIOUS
<1> DEFINE d == [first |-> covered + 1, last |-> venue]
<1> USE Numbers
<1>0. /\ TypeOK /\ streaming /\ covered < venue /\ stream' = Append(stream, d) /\ covered' = venue
      /\ UNCHANGED <<venue, link, connects, streaming, lost, losses, wanted, books, current, calls, loop>>
  BY DEF IInv, DeliverDelta
<1>1. d \in Delta /\ d.first = covered + 1 /\ d.last = venue
  BY <1>0 DEF Delta, Updates
<1> HIDE DEF d
<1>2. TypeOK'
  BY <1>0, <1>1 DEF TypeOK
<1>3. BookShape' /\ RecoveryClosesGap' /\ \A h \in Handles : books'[h].last <= venue'
  BY <1>0, SameBooks
<1>4. CallShape'
  BY <1>0 DEF IInv, CallShape
<1>5. /\ stream \in Seq(Delta) /\ DOMAIN stream = 1..Len(stream) /\ DOMAIN stream' = 1..(Len(stream) + 1)
      /\ Len(stream) \in Nat /\ stream'[Len(stream) + 1] = d
      /\ \A i \in 1..Len(stream) : stream'[i] = stream[i]
  BY <1>0, <1>1 DEF TypeOK
<1>7. StreamOrdered'
  BY <1>0, <1>1, <1>5 DEF IInv, StreamOrdered
<1>8. NotAhead'
  BY <1>0, <1>3 DEF IInv, NotAhead
<1>9. \A k \in Nat : HeldAfter(k) => HeldAfter(k)'
  <2> SUFFICES ASSUME NEW k \in Nat, HeldAfter(k), NEW u \in Updates, k < u, u <= covered'
               PROVE  Held(u)'
    BY DEF HeldAfter
  <2>1. CASE u <= covered
    BY <2>1, <1>0, <1>5 DEF HeldAfter, Held
  <2>2. CASE ~ (u <= covered)
    <3>1. d.first <= u /\ u <= d.last
      BY <2>2, <1>0, <1>1 DEF Updates
    <3> QED
      BY <3>1, <1>5 DEF Held
  <2> QED
    BY <2>1, <2>2
<1>10. RecoveryHeld'
  BY <1>0, <1>9 DEF IInv, RecoveryHeld, HeldAfter, Held
<1>11. RecoveryOnStream'
  BY <1>0 DEF RecoveryOnStream
<1> QED
  BY <1>2, <1>3, <1>4, <1>7, <1>8, <1>10, <1>11 DEF IInv

LEMMA LoseDeltaKeeps == IInv /\ LoseDelta => IInv'
<1> SUFFICES ASSUME IInv, LoseDelta PROVE IInv'
  OBVIOUS
<1> USE Numbers
<1>0. /\ TypeOK /\ streaming /\ covered < venue /\ lost' = lost \cup (covered + 1)..venue /\ covered' = venue
      /\ losses < MaxLost /\ losses' = losses + 1
      /\ UNCHANGED <<venue, link, connects, streaming, stream, wanted, books, current, calls, loop>>
  BY DEF IInv, LoseDelta
<1>1. TypeOK'
  <2>1. lost' \in SUBSET Updates /\ losses' \in 0..MaxLost /\ covered' \in 0..MaxUpdates
    BY <1>0 DEF TypeOK, Updates
  <2> QED
    BY <1>0, <2>1 DEF TypeOK
<1>2. BookShape' /\ RecoveryClosesGap' /\ \A h \in Handles : books'[h].last <= venue'
  BY <1>0, SameBooks
<1>3. CallShape'
  BY <1>0 DEF IInv, CallShape
<1>5. StreamOrdered'
  BY <1>0 DEF IInv, StreamOrdered
<1>6. NotAhead'
  BY <1>0, <1>2 DEF IInv, NotAhead
<1>7. \A k \in Nat : HeldAfter(k) => HeldAfter(k)'
  BY <1>0 DEF HeldAfter, Held, Updates
<1>8. RecoveryHeld'
  BY <1>0, <1>7 DEF IInv, RecoveryHeld, HeldAfter, Held
<1>9. RecoveryOnStream'
  BY <1>0 DEF RecoveryOnStream
<1> QED
  BY <1>1, <1>2, <1>3, <1>5, <1>6, <1>8, <1>9 DEF IInv

LEMMA LinkBreaksKeeps == IInv /\ LinkBreaks => IInv'
<1> SUFFICES ASSUME IInv, LinkBreaks PROVE IInv'
  OBVIOUS
<1> USE Numbers
<1>0. /\ TypeOK /\ link' = Down /\ streaming' = FALSE
      /\ UNCHANGED <<venue, connects, covered, stream, lost, losses, wanted, books, current, calls, loop>>
  BY DEF IInv, LinkBreaks
<1>1. TypeOK'
  <2>1. link' \in [state: {"down", "announcing", "up"}, book: 0..MaxCalls, asked: 0..MaxUpdates]
    BY <1>0 DEF Down
  <2> QED
    BY <1>0, <2>1 DEF TypeOK
<1>2. BookShape' /\ RecoveryClosesGap' /\ \A h \in Handles : books'[h].last <= venue'
  BY <1>0, SameBooks
<1>3. CallShape'
  BY <1>0 DEF IInv, CallShape, Down, Handles
<1>4. StreamOrdered'
  BY <1>0 DEF IInv, StreamOrdered
<1>5. NotAhead'
  BY <1>0, <1>2 DEF IInv, NotAhead, Down
<1>6. RecoveryHeld'
  BY <1>0 DEF IInv, RecoveryHeld, HeldAfter, Held
<1>7. RecoveryOnStream'
  BY <1>0 DEF RecoveryOnStream, Down
<1> QED
  BY <1>1, <1>2, <1>3, <1>4, <1>5, <1>6, <1>7 DEF IInv

-------------------------------------------------------------------------------
(* The connect handler and subscribe *)

LEMMA ConnectKeeps == IInv /\ Connect => IInv'
<1> SUFFICES ASSUME IInv, Connect PROVE IInv'
  OBVIOUS
<1> USE Numbers
<1>0. /\ TypeOK /\ loop.state = "reading" /\ stream = <<>> /\ link.state = "down"
      /\ connects < MaxConnects /\ connects' = connects + 1
      /\ link' = [state |-> "announcing", book |-> current, asked |-> venue]
      /\ UNCHANGED <<venue, streaming, covered, stream, lost, losses, wanted, current, calls, loop>>
  BY DEF IInv, Connect
<1>1. /\ books' \in [Handles -> Book] /\ BookShape' /\ RecoveryClosesGap'
      /\ \A g \in Handles : books'[g].last <= venue'
      /\ current \in Handles => books'[current].source = "none"
      /\ \A g \in Handles : books'[g].source \in {books[g].source, "none"}
  <2>1. CASE current = 0
    <3>1. books' = books /\ current \notin Handles
      BY <2>1 DEF Connect, Handles
    <3> QED
      BY <3>1, <1>0, SameBooks
  <2>2. CASE current # 0
    <3> DEFINE e == [Cleared(books[current]) EXCEPT !.cooling = FALSE]
    <3>1. current \in Handles
      BY <2>2, <1>0 DEF TypeOK, Handles
    <3>2. books' = [books EXCEPT ![current] = e]
      BY <2>2 DEF Connect
    <3>3. Shape(books[current]) /\ books[current].last <= venue
      BY <3>1 DEF IInv, BookShape, NotAhead
    <3>4. e \in Book /\ Shape(e) /\ e.last = books[current].last /\ e.source = "none" /\ ~ e.initialized
      BY <1>0, <3>1, <3>3, ClearedFits
    <3> HIDE DEF e
    <3> QED
      BY <1>0, <3>1, <3>2, <3>3, <3>4, OneBook DEF Closed
  <2> QED
    BY <2>1, <2>2
<1>2. TypeOK'
  <2>1. link' \in [state: {"down", "announcing", "up"}, book: 0..MaxCalls, asked: 0..MaxUpdates]
    BY <1>0 DEF TypeOK
  <2>2. connects' \in 0..MaxConnects
    BY <1>0
  <2> QED
    BY <1>0, <1>1, <2>1, <2>2 DEF TypeOK
<1>3. CallShape'
  BY <1>0, <1>1 DEF IInv, CallShape
<1>4. StreamOrdered'
  BY <1>0 DEF IInv, StreamOrdered
<1>5. NotAhead'
  BY <1>0, <1>1 DEF IInv, NotAhead
<1>6. RecoveryHeld'
  BY <1>0, <1>1 DEF RecoveryHeld
<1>7. RecoveryOnStream'
  BY <1>0, <1>1 DEF RecoveryOnStream
<1> QED
  BY <1>1, <1>2, <1>3, <1>4, <1>5, <1>6, <1>7 DEF IInv

\* A stream that starts goes on from the venue's last update.
LEMMA StreamStarts ==
    ASSUME IInv, StartStream \/ UNCHANGED <<streaming, covered>>, venue' = venue, stream' = stream
    PROVE  /\ streaming' \in BOOLEAN /\ covered' \in 0..MaxUpdates
           /\ StreamOrdered'
           /\ streaming => streaming' /\ covered' = covered
<1> USE Numbers
<1>0. TypeOK
  BY DEF IInv
<1>1. /\ streaming' \in BOOLEAN /\ covered' \in {covered, venue}
      /\ streaming => streaming' /\ covered' = covered
  <2>1. CASE streaming /\ StartStream
    BY <2>1, <1>0 DEF StartStream, TypeOK
  <2>2. CASE ~ streaming /\ StartStream
    BY <2>2 DEF StartStream
  <2>3. CASE UNCHANGED <<streaming, covered>>
    BY <2>3, <1>0 DEF TypeOK
  <2> QED
    BY <2>1, <2>2, <2>3
<1>2. covered' \in 0..MaxUpdates
  BY <1>0, <1>1 DEF TypeOK
<1>3. covered <= covered' /\ covered' <= venue'
  BY <1>0, <1>1 DEF IInv, StreamOrdered
<1>4. StreamOrdered'
  BY <1>0, <1>1, <1>3 DEF IInv, StreamOrdered
<1> QED
  BY <1>1, <1>2, <1>4

LEMMA FinishConnectKeeps == IInv /\ FinishConnect => IInv'
<1> SUFFICES ASSUME IInv, FinishConnect PROVE IInv'
  OBVIOUS
<1> USE Numbers
<1>0. /\ TypeOK /\ link.state = "announcing" /\ link' = Up
      /\ \/ wanted /\ StartStream
         \/ ~ wanted /\ UNCHANGED <<streaming, covered>>
      /\ UNCHANGED <<venue, connects, stream, lost, losses, wanted, current, calls, loop>>
  BY DEF IInv, FinishConnect
<1>1. /\ books' \in [Handles -> Book] /\ BookShape' /\ RecoveryClosesGap'
      /\ \A g \in Handles : books'[g].last <= venue'
      /\ \A g \in Handles : \/ books'[g] = books[g]
                            \/ books'[g].source = "connect" /\ link.book = g
  <2>1. CASE books' = books
    BY <2>1, <1>0, SameBooks
  <2>2. ASSUME link.book # 0, NEW s \in link.asked..venue,
               books' = [books EXCEPT ![link.book] = Snapshot(books[link.book], s, "connect")]
        PROVE  /\ books' \in [Handles -> Book] /\ BookShape' /\ RecoveryClosesGap'
               /\ \A g \in Handles : books'[g].last <= venue'
               /\ \A g \in Handles : \/ books'[g] = books[g]
                                     \/ books'[g].source = "connect" /\ link.book = g
    <3> DEFINE e == Snapshot(books[link.book], s, "connect")
    <3>1. link.book \in Handles /\ s \in 0..MaxUpdates /\ s <= venue
      BY <2>2, <1>0 DEF TypeOK, Handles
    <3>2. /\ e \in Book /\ Shape(e) /\ e.last = s /\ e.source = "connect" /\ ~ e.initialized
      BY <1>0, <3>1, SnapshotFits
    <3>3. books' = [books EXCEPT ![link.book] = e]
      BY <2>2
    <3> HIDE DEF e
    <3> QED
      BY <1>0, <3>1, <3>2, <3>3, OneBook DEF Closed
  <2> QED
    BY <2>1, <2>2 DEF FinishConnect
<1>2. /\ streaming' \in BOOLEAN /\ covered' \in 0..MaxUpdates /\ StreamOrdered'
      /\ streaming => streaming' /\ covered' = covered
      /\ streaming' => streaming \/ wanted
  BY <1>0, StreamStarts
<1>3. TypeOK'
  <2>1. link' \in [state: {"down", "announcing", "up"}, book: 0..MaxCalls, asked: 0..MaxUpdates]
    BY <1>0 DEF Up
  <2> QED
    BY <1>0, <1>1, <1>2, <2>1 DEF TypeOK
<1>4. CallShape'
  BY <1>0, <1>1, <1>2 DEF IInv, CallShape, Up, Handles
<1>5. NotAhead'
  BY <1>0, <1>1 DEF IInv, NotAhead, Up
<1>6. \/ loop.state = "recovering"
      \/ current \in Handles /\ books'[current].source = "loop"
      => streaming
  BY <1>0, <1>1 DEF IInv, RecoveryOnStream
<1>7. RecoveryHeld'
  BY <1>0, <1>1, <1>2, <1>6 DEF IInv, RecoveryHeld, HeldAfter, Held
<1>8. RecoveryOnStream'
  BY <1>0, <1>1, <1>2, <1>6 DEF IInv, RecoveryOnStream
<1> QED
  BY <1>1, <1>2, <1>3, <1>4, <1>5, <1>7, <1>8 DEF IInv

\* A new book rests on nothing yet.
LEMMA SubscribeKeeps == IInv /\ (\E h \in Handles : Subscribe(h)) => IInv'
<1> SUFFICES ASSUME IInv, NEW h \in Handles, Subscribe(h) PROVE IInv'
  OBVIOUS
<1> USE Numbers
<1>0. /\ TypeOK /\ calls[h].state = "unused" /\ current' = h
      /\ calls' = [calls EXCEPT ![h] = [state |-> "fetching", asked |-> venue]]
      /\ UNCHANGED <<venue, link, connects, streaming, covered, stream, lost, losses, wanted, books, loop>>
  BY DEF IInv, Subscribe
<1>1. TypeOK'
  <2>1. calls' \in [Handles -> [state: {"unused", "fetching", "done"}, asked: 0..MaxUpdates]]
    BY <1>0 DEF TypeOK
  <2>2. current' \in 0..MaxCalls
    BY <1>0 DEF Handles
  <2> QED
    BY <1>0, <2>1, <2>2 DEF TypeOK
<1>2. BookShape' /\ RecoveryClosesGap' /\ \A g \in Handles : books'[g].last <= venue'
  BY <1>0, SameBooks
<1>3. /\ calls'[h] = [state |-> "fetching", asked |-> venue]
      /\ \A g \in Handles \ {h} : calls'[g] = calls[g]
  BY <1>0 DEF TypeOK
<1>4. books[h].source = "none"
  BY <1>0 DEF IInv, CallShape
<1>5. CallShape'
  BY <1>0, <1>3 DEF IInv, CallShape
<1>6. StreamOrdered'
  BY <1>0 DEF IInv, StreamOrdered
<1>7. NotAhead'
  BY <1>0, <1>2, <1>3 DEF IInv, NotAhead
<1>8. RecoveryHeld'
  BY <1>0, <1>4 DEF IInv, RecoveryHeld, HeldAfter, Held
<1>9. RecoveryOnStream'
  BY <1>0, <1>4 DEF IInv, RecoveryOnStream
<1> QED
  BY <1>1, <1>2, <1>5, <1>6, <1>7, <1>8, <1>9 DEF IInv

LEMMA FinishSubscribeKeeps == IInv /\ (\E h \in Handles : FinishSubscribe(h)) => IInv'
<1> SUFFICES ASSUME IInv, NEW h \in Handles, FinishSubscribe(h) PROVE IInv'
  OBVIOUS
<1> USE Numbers
<1>0. /\ TypeOK /\ calls[h].state = "fetching" /\ wanted' = TRUE
      /\ calls' = [calls EXCEPT ![h].state = "done"]
      /\ UNCHANGED <<venue, link, connects, stream, lost, losses, current, loop>>
  BY DEF IInv, FinishSubscribe
<1>1. \/ link.state = "down" /\ UNCHANGED <<streaming, covered>>
      \/ link.state # "down" /\ StartStream
  BY DEF FinishSubscribe
<1>2. /\ books' \in [Handles -> Book] /\ BookShape' /\ RecoveryClosesGap'
      /\ \A g \in Handles : books'[g].last <= venue'
      /\ \A g \in Handles : \/ books'[g] = books[g]
                            \/ books'[g].source = "call" /\ g = h
  <2>1. CASE books' = books
    BY <2>1, <1>0, SameBooks
  <2>2. ASSUME NEW s \in calls[h].asked..venue,
               books' = [books EXCEPT ![h] = Snapshot(books[h], s, "call")]
        PROVE  /\ books' \in [Handles -> Book] /\ BookShape' /\ RecoveryClosesGap'
               /\ \A g \in Handles : books'[g].last <= venue'
               /\ \A g \in Handles : \/ books'[g] = books[g]
                                     \/ books'[g].source = "call" /\ g = h
    <3> DEFINE e == Snapshot(books[h], s, "call")
    <3>1. s \in 0..MaxUpdates /\ s <= venue
      BY <2>2, <1>0
    <3>2. /\ e \in Book /\ Shape(e) /\ e.last = s /\ e.source = "call" /\ ~ e.initialized
      BY <1>0, <3>1, SnapshotFits
    <3>3. books' = [books EXCEPT ![h] = e]
      BY <2>2
    <3> HIDE DEF e
    <3> QED
      BY <1>0, <3>1, <3>2, <3>3, OneBook DEF Closed
  <2> QED
    BY <2>1, <2>2 DEF FinishSubscribe
<1>3. /\ streaming' \in BOOLEAN /\ covered' \in 0..MaxUpdates /\ StreamOrdered'
      /\ streaming => streaming' /\ covered' = covered
      /\ streaming' \/ (link.state = "down" /\ UNCHANGED <<streaming, covered>>)
  <2>1. StartStream => streaming'
    BY DEF StartStream
  <2> QED
    BY <1>0, <1>1, <2>1, StreamStarts
<1>4. /\ \A g \in Handles : calls'[g].asked = calls[g].asked
      /\ \A g \in Handles \ {h} : calls'[g] = calls[g]
      /\ calls'[h].state = "done"
      /\ calls' \in [Handles -> [state: {"unused", "fetching", "done"}, asked: 0..MaxUpdates]]
  BY <1>0 DEF TypeOK
<1>5. TypeOK'
  BY <1>0, <1>2, <1>3, <1>4 DEF TypeOK
<1>6. CallShape'
  <2>1. \A g \in Handles : calls'[g].state = "unused" =>
           books'[g].source = "none" /\ current' # g /\ loop'.book # g /\ link'.book # g
    BY <1>0, <1>2, <1>4 DEF IInv, CallShape
  <2>2. current' \in Handles
    BY <1>0 DEF IInv, CallShape
  <2> QED
    BY <2>1, <2>2 DEF CallShape
<1>7. NotAhead'
  BY <1>0, <1>2, <1>4 DEF IInv, NotAhead
<1>8. \/ loop.state = "recovering"
      \/ current \in Handles /\ books'[current].source = "loop"
      => covered' = covered
  BY <1>0, <1>1, <1>2, <1>3 DEF IInv, RecoveryOnStream
<1>9. RecoveryHeld'
  BY <1>0, <1>2, <1>8 DEF IInv, RecoveryHeld, HeldAfter, Held
<1>10. RecoveryOnStream'
  BY <1>0, <1>3 DEF RecoveryOnStream
<1> QED
  BY <1>2, <1>3, <1>5, <1>6, <1>7, <1>9, <1>10 DEF IInv

LEMMA CooldownEndsKeeps == IInv /\ (\E h \in Handles : CooldownEnds(h)) => IInv'
<1> SUFFICES ASSUME IInv, NEW h \in Handles, CooldownEnds(h) PROVE IInv'
  OBVIOUS
<1> USE Numbers
<1> DEFINE e == [books[h] EXCEPT !.cooling = FALSE]
<1>0. /\ TypeOK /\ books' = [books EXCEPT ![h] = e]
      /\ UNCHANGED <<venue, link, connects, streaming, covered, stream, lost, losses, wanted,
                     current, calls, loop>>
  BY DEF IInv, CooldownEnds
<1>1. /\ books[h] \in Book /\ Shape(books[h]) /\ books[h].last <= venue
  BY <1>0 DEF IInv, BookShape, NotAhead
<1>2. /\ e \in Book /\ Shape(e) /\ Missing(e) = Missing(books[h])
      /\ e.last = books[h].last /\ e.base = books[h].base /\ e.source = books[h].source
      /\ e.initialized = books[h].initialized
  BY <1>1, CooledFits
<1> HIDE DEF e
<1>3. Closed(e)
  BY <1>2 DEF IInv, RecoveryClosesGap, Closed
<1>4. /\ books' \in [Handles -> Book] /\ BookShape' /\ RecoveryClosesGap'
      /\ \A g \in Handles : books'[g].last <= venue'
      /\ \A g \in Handles : /\ books'[g].source = books[g].source /\ books'[g].base = books[g].base
                            /\ books'[g].initialized = books[g].initialized
  BY <1>0, <1>1, <1>2, <1>3, OneBook
<1>5. TypeOK'
  BY <1>0, <1>4 DEF TypeOK
<1>6. CallShape'
  BY <1>0, <1>4 DEF IInv, CallShape
<1>7. StreamOrdered'
  BY <1>0 DEF IInv, StreamOrdered
<1>8. NotAhead'
  BY <1>0, <1>4 DEF IInv, NotAhead
<1>9. RecoveryHeld'
  BY <1>0, <1>4 DEF IInv, RecoveryHeld, HeldAfter, Held
<1>10. RecoveryOnStream'
  BY <1>0, <1>4 DEF IInv, RecoveryOnStream
<1> QED
  BY <1>4, <1>5, <1>6, <1>7, <1>8, <1>9, <1>10 DEF IInv

-------------------------------------------------------------------------------
(* The receive loop *)

\* A delta that the loop takes is not ahead of the stream, and what waits behind
\* it is newer.
LEMMA ReadFacts ==
    ASSUME IInv, NEW d \in Delta, Read(d), UNCHANGED <<venue, covered, lost, link, streaming>>
    PROVE  /\ d.first \in Nat /\ d.last \in Nat /\ d.first <= d.last /\ d.last <= covered
           /\ stream' \in Seq(Delta)
           /\ StreamOrdered'
           /\ \A u \in Nat : Held(u) /\ ~ (d.first <= u /\ u <= d.last) => Held(u)'
           /\ \A u \in Nat : Held(u) /\ u < d.first => u \in lost
           /\ current \in Handles /\ loop.state = "reading"
           /\ streaming \/ link.state = "down"
<1> USE Numbers
<1>0. /\ TypeOK /\ stream # <<>> /\ d = Head(stream) /\ stream' = Tail(stream) /\ loop.state = "reading"
  BY DEF IInv, Read
<1>1. /\ stream \in Seq(Delta) /\ Len(stream) \in Nat \ {0} /\ DOMAIN stream = 1..Len(stream)
      /\ d = stream[1] /\ stream' \in Seq(Delta) /\ DOMAIN stream' = 1..(Len(stream) - 1)
      /\ \A i \in 1..(Len(stream) - 1) : stream'[i] = stream[i + 1]
  BY <1>0 DEF TypeOK
<1>2. /\ d.first \in Nat /\ d.last \in Nat /\ d.first <= d.last /\ d.last <= covered
  BY <1>0, <1>1 DEF IInv, StreamOrdered
<1>3. StreamOrdered'
  <2>1. \A i \in DOMAIN stream' : i + 1 \in DOMAIN stream /\ stream'[i] = stream[i + 1]
    BY <1>1
  <2>2. covered' <= venue'
    BY DEF IInv, StreamOrdered
  <2>3. \A i \in DOMAIN stream' : stream'[i].first <= stream'[i].last /\ stream'[i].last <= covered'
    BY <2>1 DEF IInv, StreamOrdered
  <2>4. \A i, k \in DOMAIN stream' : i < k => stream'[i].last < stream'[k].first
    <3> SUFFICES ASSUME NEW i \in DOMAIN stream', NEW k \in DOMAIN stream', i < k
                 PROVE  stream'[i].last < stream'[k].first
      OBVIOUS
    <3>1. i + 1 < k + 1 /\ i + 1 \in DOMAIN stream /\ k + 1 \in DOMAIN stream
      BY <1>1
    <3>2. stream[i + 1].last < stream[k + 1].first
      BY <3>1 DEF IInv, StreamOrdered
    <3> QED
      BY <2>1, <3>2
  <2> QED
    BY <2>2, <2>3, <2>4 DEF StreamOrdered
<1>4. ASSUME NEW u \in Nat, Held(u), ~ (d.first <= u /\ u <= d.last)
      PROVE  Held(u)'
  <2>1. CASE u \in lost
    BY <2>1 DEF Held
  <2>2. ASSUME NEW i \in DOMAIN stream, stream[i].first <= u, u <= stream[i].last
        PROVE  Held(u)'
    <3>1. i # 1
      BY <1>1, <1>4, <2>2
    <3>2. i - 1 \in DOMAIN stream' /\ stream'[i - 1] = stream[i]
      BY <1>1, <3>1
    <3> QED
      BY <2>2, <3>2 DEF Held
  <2> QED
    BY <1>4, <2>1, <2>2 DEF Held
<1>5. ASSUME NEW u \in Nat, Held(u), u < d.first
      PROVE  u \in lost
  <2>1. ASSUME NEW i \in DOMAIN stream, stream[i].first <= u
        PROVE  FALSE
    <3>1. i # 1
      BY <1>0, <1>1, <1>2, <1>5, <2>1
    <3>2. 1 \in DOMAIN stream /\ 1 < i
      BY <1>1, <3>1
    <3>3. d.last < stream[i].first
      BY <1>1, <3>2 DEF IInv, StreamOrdered
    <3> QED
      BY <1>0, <1>2, <1>5, <2>1, <3>3
  <2> QED
    BY <1>5, <2>1 DEF Held
<1>6. current \in Handles
  BY <1>0 DEF IInv, CallShape
<1>7. streaming \/ link.state = "down"
  BY <1>0 DEF IInv, RecoveryOnStream
<1> QED
  BY <1>0, <1>1, <1>2, <1>3, <1>4, <1>5, <1>6, <1>7

\* Reading a delta that leaves the current book in use, or sends it into
\* recovery.
LEMMA ReadStep ==
    ASSUME IInv, NEW d \in Delta, Read(d),
           UNCHANGED <<venue, link, connects, streaming, covered, lost, losses, wanted, current, calls>>,
           NEW e \in Book, books' = [books EXCEPT ![current] = e],
           Shape(e), e.last <= venue, Closed(e),
           \/ e.initialized /\ e.source = books[current].source /\ loop' = loop
           \/ /\ e.source = "none" /\ ~ e.initialized
              /\ loop' = [state |-> "recovering", book |-> current, asked |-> venue]
    PROVE  IInv'
<1> USE Numbers
<1>0. TypeOK
  BY DEF IInv
<1>1. /\ stream' \in Seq(Delta) /\ StreamOrdered'
      /\ current \in Handles /\ loop.state = "reading"
      /\ streaming \/ link.state = "down"
  BY ReadFacts
<1>2. /\ books' \in [Handles -> Book] /\ BookShape' /\ RecoveryClosesGap'
      /\ \A g \in Handles : books'[g].last <= venue'
      /\ books'[current] = e /\ \A g \in Handles \ {current} : books'[g] = books[g]
  BY <1>1, OneBook
<1>3. TypeOK'
  <2>1. loop' \in [state: {"reading", "recovering"}, book: 0..MaxCalls, asked: 0..MaxUpdates]
    BY <1>0 DEF TypeOK
  <2> QED
    BY <1>0, <1>1, <1>2, <2>1 DEF TypeOK
<1>4. CallShape'
  <2>1. \A g \in Handles : calls[g].state = "unused" => books'[g].source = "none"
    BY <1>1, <1>2 DEF IInv, CallShape
  <2>2. \A g \in Handles : calls[g].state = "unused" => loop'.book # g
    BY DEF IInv, CallShape
  <2> QED
    BY <1>1, <2>1, <2>2 DEF IInv, CallShape
<1>5. NotAhead'
  BY <1>0, <1>2 DEF IInv, NotAhead
<1>6. RecoveryHeld'
  <2>1. ~ (books'[current].source = "loop" /\ ~ books'[current].initialized)
    BY <1>2
  <2>2. loop'.state = "recovering" => loop'.book = current /\ loop'.asked = venue
    BY <1>1
  <2>3. \A u \in Updates : ~ (venue < u /\ u <= covered)
    BY <1>0 DEF IInv, StreamOrdered, Updates
  <2> QED
    BY <1>1, <2>1, <2>2, <2>3 DEF RecoveryHeld, HeldAfter
<1>7. RecoveryOnStream'
  BY <1>1 DEF RecoveryOnStream
<1> QED
  BY <1>1, <1>2, <1>3, <1>4, <1>5, <1>6, <1>7 DEF IInv

\* A delta that is dropped is part of the book already.
LEMMA DropDeltaKeeps == IInv /\ DropDelta => IInv'
<1> SUFFICES ASSUME IInv, NEW d \in Delta, Read(d), Stale(books[current], d),
                    UNCHANGED <<venue, link, connects, streaming, covered, lost, losses, wanted, books,
                                current, calls, loop>>
             PROVE  IInv'
  BY DEF DropDelta
<1> USE Numbers
<1>0. TypeOK
  BY DEF IInv
<1>1. /\ d.first \in Nat /\ d.last \in Nat /\ stream' \in Seq(Delta) /\ StreamOrdered'
      /\ \A u \in Nat : Held(u) /\ ~ (d.first <= u /\ u <= d.last) => Held(u)'
      /\ current \in Handles /\ loop.state = "reading"
      /\ streaming \/ link.state = "down"
  BY ReadFacts
<1>2. TypeOK'
  BY <1>0, <1>1 DEF TypeOK
<1>3. BookShape' /\ RecoveryClosesGap' /\ \A g \in Handles : books'[g].last <= venue'
  BY <1>0, SameBooks
<1>4. CallShape'
  BY <1>1 DEF IInv, CallShape
<1>5. NotAhead'
  BY <1>3 DEF IInv, NotAhead
<1>6. RecoveryHeld'
  <2> SUFFICES ASSUME books[current].source = "loop", ~ books[current].initialized,
                      NEW u \in Updates, books[current].base < u, u <= covered
               PROVE  Held(u)'
    BY <1>1 DEF RecoveryHeld, HeldAfter
  <2>1. u \in Nat
    BY <1>0 DEF Updates
  <2>2. Held(u)
    BY <1>1 DEF IInv, RecoveryHeld, HeldAfter
  <2>3. books[current].base = books[current].last
    BY <1>1 DEF IInv, BookShape, Shape
  <2>4. d.last < u
    BY <1>0, <1>1, <2>1, <2>3 DEF Stale
  <2> QED
    BY <1>1, <2>1, <2>2, <2>4
<1>7. RecoveryOnStream'
  BY <1>1 DEF RecoveryOnStream
<1> QED
  BY <1>1, <1>2, <1>3, <1>4, <1>5, <1>6, <1>7 DEF IInv

\* The book after a delta that was applied: the first one after a recovery
\* starts where its snapshot ends, except for updates that were lost.
LEMMA AppliedFits ==
    ASSUME IInv, NEW d \in Delta, Read(d), UNCHANGED <<venue, covered, lost, link, streaming>>,
           ~ Stale(books[current], d), ~ Gap(books[current], d)
    PROVE  LET e == Overlay(books[current], d)
           IN  /\ e \in Book /\ Shape(e) /\ e.last <= venue /\ Closed(e)
               /\ e.initialized /\ e.source = books[current].source
<1> DEFINE b == books[current]
           e == Overlay(b, d)
<1> USE Numbers
<1>0. TypeOK
  BY DEF IInv
<1>1. /\ d.first \in Nat /\ d.last \in Nat /\ d.first <= d.last /\ d.last <= covered
      /\ \A u \in Nat : Held(u) /\ u < d.first => u \in lost
      /\ current \in Handles
  BY ReadFacts
<1>2. b \in Book /\ Shape(b) /\ b.last \in Nat /\ b.base \in Nat
  BY <1>0, <1>1 DEF IInv, BookShape
<1>3. /\ b.initialized /\ b.source = "loop" /\ Futures => Missing(b) \subseteq lost
      /\ b.source = "loop" /\ ~ b.initialized => HeldAfter(b.base)
  BY <1>1 DEF IInv, RecoveryClosesGap, RecoveryHeld
<1> HIDE DEF b
<1>4. /\ e \in Book /\ Shape(e) /\ e.last = d.last /\ e.source = b.source /\ e.initialized
      /\ Futures /\ b.initialized => Missing(e) = Missing(b)
      /\ Futures /\ ~ b.initialized => Missing(e) = (b.base + 1)..(d.first - 1)
  BY <1>1, <1>2, OverlayFits DEF b
<1> HIDE DEF e
<1>5. e.last <= venue
  BY <1>0, <1>1, <1>4 DEF IInv, StreamOrdered
<1>6. ASSUME Futures, b.source = "loop"
      PROVE  Missing(e) \subseteq lost
  <2>1. CASE b.initialized
    BY <1>3, <1>4, <1>6, <2>1
  <2>2. CASE ~ b.initialized
    <3> SUFFICES ASSUME NEW u \in (b.base + 1)..(d.first - 1) PROVE u \in lost
      BY <1>4, <1>6, <2>2
    <3>1. u \in Updates /\ u \in Nat /\ b.base < u /\ u <= covered /\ u < d.first
      BY <1>0, <1>1, <1>2 DEF Updates
    <3>2. Held(u)
      BY <1>3, <1>6, <2>2, <3>1 DEF HeldAfter
    <3> QED
      BY <1>1, <3>1, <3>2
  <2> QED
    BY <2>1, <2>2
<1>7. Closed(e)
  BY <1>4, <1>6 DEF Closed
<1> QED
  BY <1>4, <1>5, <1>7 DEF b, e

LEMMA ApplyDeltaKeeps == IInv /\ ApplyDelta => IInv'
<1> SUFFICES ASSUME IInv, NEW d \in Delta, Read(d),
                    ~ Stale(books[current], d), ~ Gap(books[current], d),
                    books' = [books EXCEPT ![current] = Overlay(books[current], d)],
                    UNCHANGED <<venue, link, connects, streaming, covered, lost, losses, wanted,
                                current, calls, loop>>
             PROVE  IInv'
  BY DEF ApplyDelta
<1> DEFINE e == Overlay(books[current], d)
<1>1. /\ e \in Book /\ Shape(e) /\ e.last <= venue /\ Closed(e)
      /\ e.initialized /\ e.source = books[current].source
  BY AppliedFits
<1>2. books' = [books EXCEPT ![current] = e]
  OBVIOUS
<1> HIDE DEF e
<1> QED
  BY <1>1, <1>2, ReadStep

\* A recovery keeps the invariant, whatever book it is called on.
LEMMA RecoverKeeps ==
    ASSUME IInv, NEW d \in Delta, Read(d), NEW b \in Book, Recover(b),
           UNCHANGED <<venue, link, connects, streaming, covered, lost, losses, wanted, current, calls>>,
           Shape(b), b.last <= venue, Closed(b), b.initialized, b.source = books[current].source
    PROVE  IInv'
<1>1. CASE b.cooling
  <2>1. books' = [books EXCEPT ![current] = b] /\ loop' = loop
    BY <1>1 DEF Recover
  <2> QED
    BY <2>1, ReadStep
<1>2. CASE ~ b.cooling
  <2> DEFINE e == [Cleared(b) EXCEPT !.cooling = TRUE]
  <2>1. e \in Book /\ Shape(e) /\ e.last = b.last /\ e.source = "none" /\ ~ e.initialized
    BY ClearedFits
  <2>2. /\ books' = [books EXCEPT ![current] = e]
        /\ loop' = [state |-> "recovering", book |-> current, asked |-> venue]
    BY <1>2 DEF Recover
  <2> HIDE DEF e
  <2>3. Closed(e) /\ e.last <= venue
    BY <2>1 DEF Closed
  <2> QED
    BY <2>1, <2>2, <2>3, ReadStep
<1> QED
  BY <1>1, <1>2

LEMMA ApplyDeltaCrossesKeeps == IInv /\ ApplyDeltaCrosses => IInv'
<1> SUFFICES ASSUME IInv, NEW d \in Delta, Read(d),
                    ~ Stale(books[current], d), ~ Gap(books[current], d),
                    Recover(Overlay(books[current], d)),
                    UNCHANGED <<venue, link, connects, streaming, covered, lost, losses, wanted,
                                current, calls>>
             PROVE  IInv'
  BY DEF ApplyDeltaCrosses
<1> DEFINE e == Overlay(books[current], d)
<1>1. /\ e \in Book /\ Shape(e) /\ e.last <= venue /\ Closed(e)
      /\ e.initialized /\ e.source = books[current].source
  BY AppliedFits
<1>2. Recover(e)
  OBVIOUS
<1> HIDE DEF e
<1> QED
  BY <1>1, <1>2, RecoverKeeps

LEMMA DetectGapKeeps == IInv /\ DetectGap => IInv'
<1> SUFFICES ASSUME IInv, NEW d \in Delta, Read(d), Gap(books[current], d), Recover(books[current]),
                    UNCHANGED <<venue, link, connects, streaming, covered, lost, losses, wanted,
                                current, calls>>
             PROVE  IInv'
  BY DEF DetectGap
<1>1. current \in Handles
  BY ReadFacts
<1>2. /\ books[current] \in Book /\ Shape(books[current]) /\ books[current].last <= venue
      /\ Closed(books[current]) /\ books[current].initialized
  BY <1>1, Numbers DEF IInv, BookShape, NotAhead, RecoveryClosesGap, Closed, Gap
<1> QED
  BY <1>2, RecoverKeeps

\* The snapshot of a recovery is no older than the request.
LEMMA FinishRecoveryKeeps == IInv /\ FinishRecovery => IInv'
<1> SUFFICES ASSUME IInv, FinishRecovery PROVE IInv'
  OBVIOUS
<1> USE Numbers
<1>0. /\ TypeOK /\ loop.state = "recovering" /\ loop' = Reading
      /\ UNCHANGED <<venue, link, connects, streaming, covered, stream, lost, losses, wanted,
                     current, calls>>
  BY DEF IInv, FinishRecovery
<1>1. loop.book \in Handles /\ HeldAfter(loop.asked)
  BY <1>0 DEF IInv, RecoveryHeld
<1>2. /\ books' \in [Handles -> Book] /\ BookShape' /\ RecoveryClosesGap'
      /\ \A g \in Handles : books'[g].last <= venue'
      /\ \A g \in Handles : \/ books'[g] = books[g]
                            \/ g = loop.book /\ loop.asked <= books'[g].base
  <2>1. CASE books' = books
    BY <2>1, <1>0, SameBooks
  <2>2. ASSUME NEW s \in loop.asked..venue,
               books' = [books EXCEPT ![loop.book] = Snapshot(books[loop.book], s, "loop")]
        PROVE  /\ books' \in [Handles -> Book] /\ BookShape' /\ RecoveryClosesGap'
               /\ \A g \in Handles : books'[g].last <= venue'
               /\ \A g \in Handles : \/ books'[g] = books[g]
                                     \/ g = loop.book /\ loop.asked <= books'[g].base
    <3> DEFINE e == Snapshot(books[loop.book], s, "loop")
    <3>1. s \in 0..MaxUpdates /\ s <= venue /\ loop.asked <= s
      BY <2>2, <1>0
    <3>2. /\ e \in Book /\ Shape(e) /\ e.last = s /\ e.base = s /\ ~ e.initialized
      BY <1>0, <1>1, <3>1, SnapshotFits
    <3>3. books' = [books EXCEPT ![loop.book] = e]
      BY <2>2
    <3> HIDE DEF e
    <3> QED
      BY <1>0, <1>1, <3>1, <3>2, <3>3, OneBook DEF Closed
  <2> QED
    BY <2>1, <2>2 DEF FinishRecovery
<1>3. TypeOK'
  <2>1. loop' \in [state: {"reading", "recovering"}, book: 0..MaxCalls, asked: 0..MaxUpdates]
    BY <1>0 DEF Reading
  <2> QED
    BY <1>0, <1>2, <2>1 DEF TypeOK
<1>4. CallShape'
  BY <1>0, <1>1, <1>2 DEF IInv, CallShape, Reading, Handles
<1>5. StreamOrdered'
  BY <1>0 DEF IInv, StreamOrdered
<1>6. NotAhead'
  BY <1>0, <1>2 DEF IInv, NotAhead, Reading
<1>7. RecoveryHeld'
  <2> SUFFICES ASSUME current \in Handles, books'[current].source = "loop",
                      ~ books'[current].initialized,
                      NEW u \in Updates, books'[current].base < u, u <= covered
               PROVE  Held(u)
    BY <1>0 DEF RecoveryHeld, HeldAfter, Held, Reading
  <2>1. CASE books'[current] = books[current]
    BY <2>1 DEF IInv, RecoveryHeld, HeldAfter
  <2>2. CASE loop.asked <= books'[current].base
    <3>1. books'[current].base \in Nat /\ u \in Nat
      BY <1>0, <1>2 DEF Book, Updates
    <3>2. loop.asked < u
      BY <1>0, <2>2, <3>1
    <3> QED
      BY <1>1, <3>2 DEF HeldAfter
  <2> QED
    BY <1>2, <2>1, <2>2
<1>8. RecoveryOnStream'
  BY <1>0 DEF IInv, RecoveryOnStream
<1> QED
  BY <1>2, <1>3, <1>4, <1>5, <1>6, <1>7, <1>8 DEF IInv

-------------------------------------------------------------------------------
(* The theorems *)

LEMMA StepKeeps == IInv /\ [Next]_vars => IInv'
<1> SUFFICES ASSUME IInv, [Next]_vars PROVE IInv'
  OBVIOUS
<1>1. CASE UNCHANGED vars
  BY <1>1 DEF vars, IInv, TypeOK, BookShape, Shape, Missing, CallShape, StreamOrdered, NotAhead,
              RecoveryHeld, HeldAfter, Held, RecoveryOnStream, RecoveryClosesGap
<1> QED
  BY <1>1, UpdateKeeps, DeliverDeltaKeeps, LoseDeltaKeeps, LinkBreaksKeeps, ConnectKeeps,
     FinishConnectKeeps, SubscribeKeeps, FinishSubscribeKeeps, CooldownEndsKeeps, DropDeltaKeeps,
     ApplyDeltaKeeps, ApplyDeltaCrossesKeeps, DetectGapKeeps, FinishRecoveryKeeps
     DEF Next

LEMMA Invariance == Spec => []IInv
BY InitIInv, StepKeeps, PTL DEF Spec

\* For any bounds, and with failing snapshot requests: the book's variables keep
\* their types (_LocalOrderBook and the calls on it).
THEOREM TypeCorrect == Spec => []TypeOK
<1>1. IInv => TypeOK
  BY DEF IInv
<1> QED
  BY <1>1, Invariance, PTL

\* apply_delta: a futures book in use misses what lies between its snapshot and
\* the first delta after it, and nothing later.
THEOREM HolesAtJoint == Spec => []HolesOnlyAtJoint
<1>1. IInv => HolesOnlyAtJoint
  BY DEF IInv, BookShape, Shape, HolesOnlyAtJoint
<1> QED
  BY <1>1, Invariance, PTL

\* last_update_id is the last update the book shows, through snapshots that
\* arrive late and recoveries that fail.
THEOREM HonestSequenceId == Spec => []SequenceIdIsHonest
<1>1. IInv => SequenceIdIsHonest
  BY DEF IInv, BookShape, Shape, NotAhead, SequenceIdIsHonest
<1> QED
  BY <1>1, Invariance, PTL

\* _recover: while the receive loop waits for the snapshot the deltas wait too,
\* so the book it restores misses only updates that never arrived.
THEOREM RecoveryCloses == Spec => []RecoveryClosesGap
<1>1. IInv => RecoveryClosesGap
  BY DEF IInv
<1> QED
  BY <1>1, Invariance, PTL

=============================================================================
