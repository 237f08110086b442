---------------------------- MODULE AlpacaGateway ----------------------------
(***************************************************************************)
(* AlpacaGateway: the venue's trade updates carry the quantity and average *)
(* price an order has reached in total, the engine expects the increment   *)
(* of every fill.  The gateway remembers the last totals of each order.    *)
(*                                                                         *)
(* The venue and the vendor's stream are external: updates of a connection *)
(* arrive in order, some may be missed or come twice, and an order that    *)
(* has ended sends no more.  The dispatcher that hands the reports on is   *)
(* the one of PaperGateway.                                                *)
(***************************************************************************)
EXTENDS OrderStore, Sequences, FiniteSetsExt

CONSTANT MaxUpdates  \* bound: updates the venue sends

VARIABLES
    cum,        \* cum_qty_ and cum_cost_; an order without an entry counts as 0
    connected,  \* the stream is open
    orders,     \* the venue: id -> order, None before it is placed
    updates,    \* updates sent and not yet handled
    sent,       \* how many updates were sent
    reported,   \* sum over the reports of an order: quantity, and quantity * price
    shown,      \* totals of the last fill that reached the gateway
    finals      \* how many fills that completed the order reached it

\* An order at the venue.
VenueOrder == [quantity : Nat, filled : Nat, cost : Nat, live : BOOLEAN]

ASSUME NoneIsNotAVenueOrder == None \notin VenueOrder

alpacaVars == <<cum, connected, orders, updates, sent, reported, shown, finals>>

Nothing == [qty |-> 0, cost |-> Rat(0)]

AlpacaInit ==
    /\ cum = [b \in BrokerIds |-> Nothing]
    /\ connected = FALSE
    /\ orders = [b \in BrokerIds |-> None]
    /\ updates = <<>>
    /\ sent = 0
    /\ reported = cum
    /\ shown = cum
    /\ finals = [b \in BrokerIds |-> 0]

Placed == {b \in BrokerIds : orders[b] # None}

\* A new order gets the next id of the venue.
NewOrder(table, quantity) ==
    LET b == Cardinality(Placed)
    IN  [table EXCEPT ![b] = [quantity |-> quantity, filled |-> 0, cost |-> 0, live |-> TRUE]]

submit_order(quantity) ==
    /\ Placed # BrokerIds
    /\ orders' = NewOrder(orders, quantity)
    /\ UNCHANGED <<cum, connected, updates, sent, reported, shown, finals>>

------------------------------------------------------------------------------
\* The venue.

Update(b, event, order) ==
    [id |-> b, event |-> event, filledQty |-> order.filled,
     filledAvgPrice |-> IF order.filled = 0 THEN Rat(0) ELSE Ratio(order.cost, order.filled)]

\* The venue sends an update; without a connection it is missed.
Send(update) ==
    /\ sent < MaxUpdates
    /\ sent' = sent + 1
    /\ updates' = IF connected THEN Append(updates, update) ELSE updates

Execute(b, quantity, price) ==
    LET order == orders[b]
        after == [order EXCEPT !.filled = @ + quantity,
                               !.cost = @ + quantity * price,
                               !.live = order.filled + quantity < order.quantity]
    IN  /\ order # None
        /\ order.live
        /\ order.filled + quantity <= order.quantity
        /\ orders' = [orders EXCEPT ![b] = after]
        /\ Send(Update(b, IF after.live THEN "partial_fill" ELSE "fill", after))
        /\ UNCHANGED <<cum, connected, reported, shown, finals>>

\* The venue ends an order: on request (cancel_order) or of its own accord.
EndOrder(b, event) ==
    /\ orders[b] # None
    /\ orders[b].live
    /\ event = "rejected" => orders[b].filled = 0
    /\ orders' = [orders EXCEPT ![b].live = FALSE]
    /\ Send(Update(b, event, orders[b]))
    /\ UNCHANGED <<cum, connected, reported, shown, finals>>

cancel_order(b) == EndOrder(b, "canceled")

\* The venue retires the order and places another, under an id of its own.
replace_order(b, quantity) ==
    /\ Placed # BrokerIds
    /\ orders[b] # None
    /\ orders[b].live
    /\ orders' = NewOrder([orders EXCEPT ![b].live = FALSE], quantity)
    /\ Send(Update(b, "replaced", orders[b]))
    /\ UNCHANGED <<cum, connected, reported, shown, finals>>

\* The vendor's stream misses an update, or delivers it twice.
Miss ==
    /\ updates # <<>>
    /\ updates' = Tail(updates)
    /\ UNCHANGED <<cum, connected, orders, sent, reported, shown, finals>>

Repeat ==
    /\ updates # <<>>
    /\ sent < MaxUpdates
    /\ sent' = sent + 1
    /\ updates' = <<Head(updates)>> \o updates
    /\ UNCHANGED <<cum, connected, orders, reported, shown, finals>>

------------------------------------------------------------------------------
\* The gateway.

start ==
    /\ ~connected
    /\ connected' = TRUE
    /\ UNCHANGED <<cum, orders, updates, sent, reported, shown, finals>>

stop ==
    /\ connected
    /\ connected' = FALSE
    /\ updates' = <<>>
    /\ UNCHANGED <<cum, orders, sent, reported, shown, finals>>

\* The totals an update carries.
Totals(update) ==
    [qty |-> update.filledQty, cost |-> RatScale(update.filledQty, update.filledAvgPrice)]

\* Faulty: the price of the report is the average over the whole order.
Increment_Average(prev, new, average) ==
    [qty |-> new.qty - prev.qty, price |-> average]

\* The report's quantity and price: what the totals gained since the last update.
Increment(prev, new, average) ==
    LET incr_qty == new.qty - prev.qty
    IN  [qty   |-> incr_qty,
         price |-> IF incr_qty > 0 THEN RatDiv(RatSub(new.cost, prev.cost), incr_qty)
                                   ELSE average]

enqueue_report(b, report) ==
    reported' = [reported EXCEPT ![b] =
                     [qty  |-> @.qty + report.qty,
                      cost |-> RatAdd(@.cost, RatScale(report.qty, report.price))]]

\* cbs.onUpdate.  A rejection is not handled, and no update but a fill leads to
\* a report.
onUpdate ==
    LET u     == Head(updates)
        fills == u.event \in {"fill", "partial_fill"}
    IN  /\ updates # <<>>
        /\ updates' = Tail(updates)
        /\ cum' = [cum EXCEPT ![u.id] =
                       CASE u.event = "partial_fill" -> Totals(u)
                         [] u.event = "rejected" -> @
                         [] OTHER -> Nothing]
        /\ IF fills
           THEN /\ enqueue_report(u.id,
                                  Increment(cum[u.id], Totals(u), u.filledAvgPrice))
                /\ shown' = [shown EXCEPT ![u.id] = Totals(u)]
           ELSE UNCHANGED <<reported, shown>>
        /\ finals' = [finals EXCEPT ![u.id] = IF u.event = "fill" THEN @ + 1 ELSE @]
        /\ UNCHANGED <<connected, orders, sent>>

------------------------------------------------------------------------------
AlpacaNext ==
    \/ start \/ stop \/ onUpdate \/ Miss \/ Repeat
    \/ \E quantity \in Quantities : submit_order(quantity)
    \/ \E b \in BrokerIds :
          \/ \E quantity \in Quantities, price \in Prices : Execute(b, quantity, price)
          \/ \E event \in {"expired", "rejected"} : EndOrder(b, event)
          \/ cancel_order(b)
          \/ \E quantity \in Quantities : replace_order(b, quantity)

AlpacaSpec == AlpacaInit /\ [][AlpacaNext]_alpacaVars

\* The reports of an order add up to the totals of the last fill the gateway was
\* shown, in quantity and in cost: a missed update is made up for by the next, and
\* a partial fill that comes twice counts once. The fill that completes an order
\* counts as often as it comes: the totals are erased with the first copy, and
\* each further one is reported in full.
ReportsAddUpToTotals ==
    \A b \in BrokerIds :
        LET copies == Max({1, finals[b]})
        IN  /\ reported[b].qty = copies * shown[b].qty
            /\ RatEq(reported[b].cost, RatScale(copies, shown[b].cost))
==============================================================================
