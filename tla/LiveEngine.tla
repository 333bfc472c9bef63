----------------------------- MODULE LiveEngine -----------------------------
(***************************************************************************)
(* LiveExecutionEngine: orders placed over REST, tracked by the events of  *)
(* the private WebSocket and by the periodic reconciliation over REST.     *)
(*                                                                         *)
(* Three channels tell the engine of one order in no order among them: the *)
(* answer to place_order, the events (in order, none twice, lost while the *)
(* stream is down) and the open orders a reconciliation round fetched.     *)
(*                                                                         *)
(* The venue is external, modelled as the engine uses it.  Abstractions:   *)
(* one asset, whose balance is the quantity executed so far; prices, fees  *)
(* and callbacks are left out; both id maps of an order are one map, since *)
(* the code always sets them together; a reconciliation round that raises  *)
(* is a round that has not happened.                                       *)
(***************************************************************************)
EXTENDS Integers, Sequences, FiniteSetsExt

CONSTANTS
    Orders,        \* orders a user places, by client order id
    Quantity,      \* quantity of each of them
    Untracked,     \* no internal id
    MaxDrops       \* bound: losses of the private stream in a behaviour

ASSUME LiveAssumption ==
    /\ IsFiniteSet(Orders)
    /\ Quantity \in Nat \ {0}
    /\ Untracked \notin {"live", "ext", "recon"} \X Orders
    /\ MaxDrops \in Nat

VARIABLES
    venueOrders,   \* venueOrders[o]: status and filled quantity at the exchange
    userEvents,    \* events of the private stream on their way
    streamUp,      \* the private stream is subscribed
    drops,         \* losses of the stream so far
    placing,       \* placing[o]: progress of place_order and the answer on its way
    cancelling,    \* cancelling[i]: progress of cancel_order on internal id i
    orders,        \* orders[i]: status and filled quantity in _orders
    internalOf,    \* internalOf[o]: the internal id the id maps hold
    fills,         \* fills[i]: quantity of the fills of internal id i
    balance,       \* the engine's balance
    round,         \* progress of the reconciliation round
    fetchedBalance, fetchedOrders   \* what its REST calls have returned

venueVars == <<venueOrders, userEvents, streamUp, drops>>
liveVars == <<venueVars, placing, cancelling, orders, internalOf, fills, balance, round,
              fetchedBalance, fetchedOrders>>

\* Internal ids say where they come from: place_order, an event, a round.
InternalIds == {"live", "ext", "recon"} \X Orders
VenueStatuses == {"NEW", "PARTIALLY_FILLED", "FILLED", "CANCELED"}
Terminal == {"FILLED", "CANCELLED", "REJECTED"}

\* The same mapping in the engine and in the Binance adapter.
StatusMap == [NEW |-> "ACCEPTED", PARTIALLY_FILLED |-> "PARTIAL", FILLED |-> "FILLED",
              CANCELED |-> "CANCELLED"]
Mapped(v) == [status |-> StatusMap[v.status], filled |-> v.filled]

NotThere == [status |-> "none", filled |-> 0]
VenueStates == [status: VenueStatuses, filled: 0..Quantity]
OrderStates == [status: {"ACCEPTED", "PARTIAL"} \cup Terminal, filled: 0..Quantity]
Events == [kind: {"order"}, order: Orders, state: VenueStates, last: 0..Quantity]
            \cup [kind: {"balance"}, balance: Nat]

LiveTypeOK ==
    /\ venueOrders \in [Orders -> VenueStates \cup {NotThere}]
    /\ userEvents \in Seq(Events)
    /\ streamUp \in BOOLEAN
    /\ drops \in 0..MaxDrops
    /\ placing \in [Orders -> [pc: {"idle", "sent", "answered", "placed", "raised"},
                               answer: VenueStates \cup {NotThere}]]
    /\ cancelling \in [InternalIds -> {"idle", "sent", "accepted"}]
    /\ orders \in [InternalIds -> OrderStates \cup {NotThere}]
    /\ internalOf \in [Orders -> InternalIds \cup {Untracked}]
    /\ fills \in [InternalIds -> Nat]
    /\ balance \in Nat
    /\ round \in {"sleeping", "balances", "applied", "orders"}
    /\ fetchedBalance \in Nat
    /\ fetchedOrders \subseteq [order: Orders, state: VenueStates]

LiveInit ==
    /\ venueOrders = [o \in Orders |-> NotThere]
    /\ userEvents = <<>>
    /\ streamUp = TRUE
    /\ drops = 0
    /\ placing = [o \in Orders |-> [pc |-> "idle", answer |-> NotThere]]
    /\ cancelling = [i \in InternalIds |-> "idle"]
    /\ orders = [i \in InternalIds |-> NotThere]
    /\ internalOf = [o \in Orders |-> Untracked]
    /\ fills = [i \in InternalIds |-> 0]
    /\ balance = 0
    /\ round = "sleeping"
    /\ fetchedBalance = 0
    /\ fetchedOrders = {}

-------------------------------------------------------------------------------
(* The venue *)

Executed == MapThenSumSet(LAMBDA o : venueOrders[o].filled, Orders)
OpenAtVenue(o) == venueOrders[o].status \in {"NEW", "PARTIALLY_FILLED"}

\* What the stream tells when the order has moved from state u to v.
Report(o, u, v) ==
    LET last     == v.filled - u.filled
        balances == IF last > 0 THEN <<[kind |-> "balance", balance |-> Executed']>> ELSE <<>>
    IN  <<[kind |-> "order", order |-> o, state |-> v, last |-> last]>> \o balances

\* The order moves to state v; its events follow on the stream if that is up.
VenueMoves(o, v) ==
    /\ venueOrders' = [venueOrders EXCEPT ![o] = v]
    /\ userEvents' = IF streamUp THEN userEvents \o Report(o, venueOrders[o], v) ELSE userEvents
    /\ UNCHANGED <<streamUp, drops>>

VenueFills(o) ==
    /\ OpenAtVenue(o)
    /\ LET f == venueOrders[o].filled + 1
       IN  VenueMoves(o, [status |-> IF f = Quantity THEN "FILLED" ELSE "PARTIALLY_FILLED", filled |-> f])
    /\ UNCHANGED <<placing, cancelling, orders, internalOf, fills, balance, round,
                   fetchedBalance, fetchedOrders>>

\* The stream is lost with the events on their way, and later subscribed again.
StreamDrops ==
    /\ streamUp
    /\ drops < MaxDrops
    /\ streamUp' = FALSE
    /\ drops' = drops + 1
    /\ userEvents' = <<>>
    /\ UNCHANGED <<venueOrders, placing, cancelling, orders, internalOf, fills, balance, round,
                   fetchedBalance, fetchedOrders>>

StreamResumes ==
    /\ ~ streamUp
    /\ streamUp' = TRUE
    /\ UNCHANGED <<venueOrders, userEvents, drops, placing, cancelling, orders, internalOf, fills,
                   balance, round,
                   fetchedBalance, fetchedOrders>>

-------------------------------------------------------------------------------
(* place_order and cancel_order *)

PlaceLiveOrder(o) ==
    /\ placing[o].pc = "idle"
    /\ placing' = [placing EXCEPT ![o].pc = "sent"]
    /\ UNCHANGED <<venueVars, cancelling, orders, internalOf, fills, balance, round,
                   fetchedBalance, fetchedOrders>>

NewOrder == [status |-> "NEW", filled |-> 0]

\* The exchange takes the order and answers with the state it then has: open,
\* or executed at once, which the stream tells in two events.
VenueAccepts(o) ==
    /\ placing[o].pc = "sent"
    /\ \E v \in {NewOrder, [status |-> "FILLED", filled |-> Quantity]} :
          /\ venueOrders' = [venueOrders EXCEPT ![o] = v]
          /\ userEvents' = IF streamUp
                           THEN userEvents \o Report(o, NotThere, NewOrder)
                                  \o (IF v = NewOrder THEN <<>> ELSE Report(o, NewOrder, v))
                           ELSE userEvents
          /\ placing' = [placing EXCEPT ![o] = [pc |-> "answered", answer |-> v]]
    /\ UNCHANGED <<streamUp, drops, cancelling, orders, internalOf, fills, balance, round,
                   fetchedBalance, fetchedOrders>>

\* place_order goes on with the answer: a new record, and both ids mapped to it.
FinishPlace(o) ==
    /\ placing[o].pc = "answered"
    /\ placing' = [placing EXCEPT ![o].pc = "placed"]
    /\ orders' = [orders EXCEPT ![<<"live", o>>] = Mapped(placing[o].answer)]
    /\ internalOf' = [internalOf EXCEPT ![o] = <<"live", o>>]
    /\ UNCHANGED <<venueVars, cancelling, fills, balance, round,
                   fetchedBalance, fetchedOrders>>

\* The REST call raises, whether or not the exchange has taken the order.
PlaceRaises(o) ==
    /\ placing[o].pc \in {"sent", "answered"}
    /\ placing' = [placing EXCEPT ![o].pc = "raised"]
    /\ UNCHANGED <<venueVars, cancelling, orders, internalOf, fills, balance, round,
                   fetchedBalance, fetchedOrders>>

CancelLocally(i) == orders' = [orders EXCEPT ![i].status = "CANCELLED"]

BeginCancelMarking(i) ==
    /\ orders[i] # NotThere
    /\ cancelling[i] = "idle"
    /\ cancelling' = [cancelling EXCEPT ![i] = "sent"]
    /\ CancelLocally(i)
    /\ UNCHANGED <<venueVars, placing, internalOf, fills, balance, round,
                   fetchedBalance, fetchedOrders>>

\* cancel_order of a record: an internal id the maps no longer hold has no
\* exchange id, and is cancelled in the engine only.
BeginCancel(i) ==
    /\ orders[i] # NotThere
    /\ cancelling[i] = "idle"
    /\ IF internalOf[i[2]] = i
       THEN cancelling' = [cancelling EXCEPT ![i] = "sent"] /\ UNCHANGED orders
       ELSE CancelLocally(i) /\ UNCHANGED cancelling
    /\ UNCHANGED <<venueVars, placing, internalOf, fills, balance, round,
                   fetchedBalance, fetchedOrders>>

VenueCancels(i) ==
    /\ cancelling[i] = "sent"
    /\ OpenAtVenue(i[2])
    /\ VenueMoves(i[2], [venueOrders[i[2]] EXCEPT !.status = "CANCELED"])
    /\ cancelling' = [cancelling EXCEPT ![i] = "accepted"]
    /\ UNCHANGED <<placing, orders, internalOf, fills, balance, round,
                   fetchedBalance, fetchedOrders>>

FinishCancel(i) ==
    /\ cancelling[i] = "accepted"
    /\ cancelling' = [cancelling EXCEPT ![i] = "idle"]
    /\ CancelLocally(i)
    /\ UNCHANGED <<venueVars, placing, internalOf, fills, balance, round,
                   fetchedBalance, fetchedOrders>>

\* The REST call raises, since the order is no longer open or the answer is lost.
CancelRaises(i) ==
    /\ cancelling[i] # "idle"
    /\ cancelling' = [cancelling EXCEPT ![i] = "idle"]
    /\ UNCHANGED <<venueVars, placing, orders, internalOf, fills, balance, round,
                   fetchedBalance, fetchedOrders>>

-------------------------------------------------------------------------------
(* Events *)

\* The record an event or a fetched order of o belongs to.
RecordOf(o, kind) == IF internalOf[o] # Untracked THEN internalOf[o] ELSE <<kind, o>>

HandleOrderUpdateCumulative ==
    /\ userEvents # <<>>
    /\ Head(userEvents).kind = "order"
    /\ LET e == Head(userEvents)
           i == RecordOf(e.order, "ext")
       IN  /\ orders' = [orders EXCEPT ![i] = Mapped(e.state)]
           /\ internalOf' = [internalOf EXCEPT ![e.order] = i]
           /\ fills' = [fills EXCEPT ![i] = @ + e.state.filled]
    /\ userEvents' = Tail(userEvents)
    /\ UNCHANGED <<venueOrders, streamUp, drops, placing, cancelling, balance, round,
                   fetchedBalance, fetchedOrders>>

\* handle_exchange_order_update: status and quantity overwrite those of the
\* record, an order the maps do not hold gets a record, an execution a fill.
HandleOrderUpdate ==
    /\ userEvents # <<>>
    /\ Head(userEvents).kind = "order"
    /\ LET e == Head(userEvents)
           i == RecordOf(e.order, "ext")
       IN  /\ orders' = [orders EXCEPT ![i] = Mapped(e.state)]
           /\ internalOf' = [internalOf EXCEPT ![e.order] = i]
           /\ fills' = [fills EXCEPT ![i] = @ + e.last]
    /\ userEvents' = Tail(userEvents)
    /\ UNCHANGED <<venueOrders, streamUp, drops, placing, cancelling, balance, round,
                   fetchedBalance, fetchedOrders>>

HandleBalanceUpdate ==
    /\ userEvents # <<>>
    /\ Head(userEvents).kind = "balance"
    /\ balance' = Head(userEvents).balance
    /\ userEvents' = Tail(userEvents)
    /\ UNCHANGED <<venueOrders, streamUp, drops, placing, cancelling, orders, internalOf, fills,
                   round,
                   fetchedBalance, fetchedOrders>>

-------------------------------------------------------------------------------
(* Reconciliation *)

\* A round of _periodic_loop fetches the balances ...
FetchBalances ==
    /\ round = "sleeping"
    /\ round' = "balances"
    /\ fetchedBalance' = Executed
    /\ UNCHANGED <<venueVars, placing, cancelling, orders, internalOf, fills, balance, fetchedOrders>>

\* ... which replace those of the engine, whatever events came meanwhile ...
ApplyBalances ==
    /\ round = "balances"
    /\ round' = "applied"
    /\ balance' = fetchedBalance
    /\ UNCHANGED <<venueVars, placing, cancelling, orders, internalOf, fills, fetchedBalance,
                   fetchedOrders>>

\* ... and then the open orders,
FetchOrders ==
    /\ round = "applied"
    /\ round' = "orders"
    /\ fetchedOrders' = {[order |-> o, state |-> venueOrders[o]] : o \in {o \in Orders : OpenAtVenue(o)}}
    /\ UNCHANGED <<venueVars, placing, cancelling, orders, internalOf, fills, balance, fetchedBalance>>

Unknown(o) == internalOf[o] = Untracked

\* of which only those the maps do not hold get a record.
ApplyOrders ==
    /\ round = "orders"
    /\ round' = "sleeping"
    /\ fetchedOrders' = {}
    /\ LET new == {f \in fetchedOrders : Unknown(f.order)}
       IN  /\ orders' = [i \in InternalIds |->
                           IF \E f \in new : i = <<"recon", f.order>>
                           THEN Mapped((CHOOSE f \in new : f.order = i[2]).state) ELSE orders[i]]
           /\ internalOf' = [o \in Orders |->
                               IF \E f \in new : f.order = o THEN <<"recon", o>> ELSE internalOf[o]]
    /\ UNCHANGED <<venueVars, placing, cancelling, fills, balance, fetchedBalance>>

-------------------------------------------------------------------------------

LiveNext ==
    \/ \E o \in Orders : \/ VenueFills(o) \/ PlaceLiveOrder(o) \/ VenueAccepts(o)
                         \/ FinishPlace(o) \/ PlaceRaises(o)
    \/ \E i \in InternalIds : BeginCancel(i) \/ VenueCancels(i) \/ FinishCancel(i) \/ CancelRaises(i)
    \/ StreamDrops \/ StreamResumes
    \/ HandleOrderUpdate \/ HandleBalanceUpdate
    \/ FetchBalances \/ ApplyBalances \/ FetchOrders \/ ApplyOrders

LiveSpec == LiveInit /\ [][LiveNext]_liveVars

-------------------------------------------------------------------------------
(* Properties *)

EventsOf(o) == {n \in 1..Len(userEvents) : userEvents[n].kind = "order" /\ userEvents[n].order = o}

\* What place_order, events and rounds have booked of an order, under one
\* internal id or several, is what the venue has executed of it but for the
\* events on their way and those lost: no execution is booked twice.
ExecutionsBookedOnce ==
    \A o \in Orders :
        LET booked == MapThenSumSet(LAMBDA i : fills[i], {i \in InternalIds : i[2] = o})
            coming == MapThenSumSet(LAMBDA n : userEvents[n].last, EventsOf(o))
        IN  /\ booked + coming <= venueOrders[o].filled
            /\ drops = 0 => booked + coming = venueOrders[o].filled

\* An order whose answer came before any event or round told of it is in the
\* end shown as the venue has it, as long as the stream loses nothing.
AnsweredOrdersAgree ==
    \A o \in Orders :
        /\ internalOf[o] = <<"live", o>>
        /\ orders[<<"ext", o>>] = NotThere /\ orders[<<"recon", o>>] = NotThere
        /\ drops = 0
        /\ EventsOf(o) = {}
        => orders[<<"live", o>>] = Mapped(venueOrders[o])

=============================================================================
