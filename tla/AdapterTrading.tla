--------------------------- MODULE AdapterTrading ----------------------------
(***************************************************************************)
(* An OrderManager trading through a GrpcGateway and a Python adapter: the *)
(* clients, the dispatch thread, which is in the middle of a call while    *)
(* the adapter and the venue go on, the stream thread, the handlers of the *)
(* adapter, and the venue.  Calls fail before or after they had their      *)
(* effect, the link of the stream breaks, the venue sends executions       *)
(* again, and the engine crashes and starts again on the same database.    *)
(* The order manager is not destroyed here.                                *)
(*                                                                         *)
(* The venue is not in the repository (PaperAdapter never reports): it is  *)
(* modelled from what the gateway, the adapter and execution.proto expect  *)
(* of it.  Its executions are numbered, of one unit each.                  *)
(***************************************************************************)
EXTENDS OrderManager, GrpcGateway, FiniteSetsExt

CONSTANTS Resent,       \* how many of its latest executions the venue may send again
          MaxSurprises, \* bound: how often it does, or ends an order by itself
          MaxRestarts,  \* bound: how often the engine crashes
          MaxExecutions, \* bound: how often the venue executes
          MaxCommands   \* bound: how many commands the clients give

ASSUME VenueAssumption ==
    /\ Resent \in Nat
    /\ kMaxSeenIds >= 2 * Resent - 1
    /\ MaxSurprises \in Nat
    /\ MaxRestarts \in Nat
    /\ MaxExecutions \in Nat
    /\ MaxCommands \in Nat
    /\ Prices # {}

VARIABLES
    call,        \* the SubmitOrder or ReplaceOrder call that has reached the venue
    venue,       \* per broker id: the order, whether it is live, what was executed
    executions,  \* the broker ids of the executions, in order
    unrecorded,  \* orders whose acceptance the engine did not get to record
    surprises,
    restarts,
    commands     \* how many commands the clients have given

venueVars == <<call, venue, executions, unrecorded, surprises, restarts, commands>>

vars == <<omVars, gatewayVars, adapterVars, venueVars>>

NoCall == [stage |-> "none", broker_id |-> 0, answered |-> FALSE]

AdapterTradingInit ==
    /\ Init
    /\ GatewayInit
    /\ AdapterInit
    /\ call = NoCall
    /\ venue = [b \in BrokerIds |-> None]
    /\ executions = <<>>
    /\ unrecorded = {}
    /\ surprises = 0
    /\ restarts = 0
    /\ commands = 0

\* What the venue knows of an order.
VenueOrders == [order : Signals, live : BOOLEAN, executed : Nat]

ASSUME NoneIsNotAVenueOrder == None \notin VenueOrders

Live == {b \in BrokerIds : venue[b] # None /\ venue[b].live}

NewOrder(order) == [order |-> order, live |-> TRUE, executed |-> 0]

Kill(orders) == [b \in BrokerIds |-> IF b \in orders /\ venue[b] # None
                                     THEN [venue[b] EXCEPT !.live = FALSE]
                                     ELSE venue[b]]

Idle == call.stage = "none"

InCall == ~Idle

------------------------------------------------------------------------------
(* The dispatch thread.  A submission or a replacement that the venue        *)
(* accepts takes three steps: the venue has the order, the adapter can route *)
(* it, the handler goes on with the answer or without it.                   *)

\* Broker ids are opaque: those of the orders the engine will never know of are
\* taken from the other end.
PlacedId(answered) ==
    IF answered THEN broker_count
    ELSE MaxOrders - 1 - Cardinality({b \in unrecorded : b >= broker_count})

ReplacedId == IF event.kind = "replace" THEN {get_broker_id(id_mapper_, event.order_id)} ELSE {}

\* answered: the RPC will return OK (the future is chosen here).  Bound: there is
\* an id left.
Place(answered) ==
    /\ Idle
    /\ queue_ # <<>>
    /\ id_generator_ < MaxOrders
    /\ \/ event.kind = "submit" /\ SubmitStored({}) /\ RiskAllows
       \/ event.kind = "replace" /\ IsMapped(event.order_id)
    /\ call' = [stage |-> "placed", broker_id |-> PlacedId(answered), answered |-> answered]
    /\ venue' = [Kill(ReplacedId) EXCEPT ![PlacedId(answered)] = NewOrder(event.signal)]
    /\ UNCHANGED <<omVars, gatewayVars, adapterVars, executions, unrecorded, surprises,
                   restarts, commands>>

RouteOrder ==
    /\ call.stage = "placed"
    /\ call' = [call EXCEPT !.stage = "routed"]
    /\ Route(ReplacedId, call.broker_id)
    /\ UNCHANGED <<omVars, gatewayVars, venue, executions, unrecorded, surprises, restarts,
                   commands>>

\* The handler ends and the call with it.
Return(lost) ==
    /\ call' = NoCall
    /\ unrecorded' = unrecorded \cup lost
    /\ UNCHANGED <<gatewayVars, adapterVars, venue, executions, surprises, restarts, commands>>

NoEffect == UNCHANGED <<gatewayVars, adapterVars, venueVars>>

AdapterSubmit(fail) ==
    \/ /\ Idle
       /\ SubmitNotStored(fail) \/ SubmitRefusedByRisk(fail) \/ SubmitRejectedByGateway(fail)
       /\ NoEffect
    \/ /\ call.stage = "routed" /\ ~call.answered
       /\ SubmitRejectedByGateway(fail)
       /\ Return({call.broker_id})
    \/ /\ call.stage = "routed" /\ call.answered
       /\ \/ SubmitNotRecorded(fail, call.broker_id) /\ Return({call.broker_id})
          \/ SubmitAccepted(fail, call.broker_id) /\ Return({})

AdapterReplace(fail) ==
    \/ /\ Idle
       /\ ReplaceUnknown \/ ReplaceRejectedByGateway
       /\ NoEffect
    \/ /\ call.stage = "routed" /\ ~call.answered
       /\ ReplaceRejectedByGateway
       /\ Return({call.broker_id})
    \/ /\ call.stage = "routed" /\ call.answered
       /\ \/ ReplaceNotRecorded(fail, call.broker_id) /\ Return({call.broker_id})
          \/ ReplaceDone(fail, call.broker_id) /\ Return({})

\* The venue cancels these orders in the course of a handler.
Cancels(orders) ==
    /\ venue' = Kill(orders)
    /\ UNCHANGED <<gatewayVars, adapterVars, call, executions, unrecorded, surprises, restarts,
                   commands>>

AdapterCancel(fail) ==
    \/ CancelUnknown /\ NoEffect
    \/ CancelRefusedByGateway /\ NoEffect
    \/ /\ \/ CancelRefusedByGateway  \* the answer was lost
          \/ CancelNotRecorded(fail)
          \/ CancelDone(fail)
       /\ Cancels({get_broker_id(id_mapper_, event.order_id)})

\* The calls for `unanswered', a part of `refused', failed after their effect.
AdapterCancelAll(fail, refused, unanswered, unrecordable) ==
    /\ handle_cancel_all_command(fail, refused, unrecordable)
    /\ unanswered \subseteq refused
    /\ Cancels({order_store_[l].broker_id : l \in (Reachable(fail) \ refused) \cup unanswered})

DispatchThread ==
    \/ \E fail \in SUBSET SubmitFaults : AdapterSubmit(fail)
    \/ \E fail \in SUBSET ReplaceFaults : AdapterReplace(fail)
    \/ \E fail \in SUBSET CancelFaults : AdapterCancel(fail)
    \/ \E fail \in SUBSET SweepFaults, refused, unanswered, unrecordable \in SUBSET LocalIds :
           AdapterCancelAll(fail, refused, unanswered, unrecordable)
    \/ \E fail \in SUBSET FillFaults : handle_fill(fail) /\ NoEffect

------------------------------------------------------------------------------
(* The stream thread and the adapter's handlers.                            *)

StreamLoop == run_fill_stream /\ UNCHANGED <<omVars, venueVars>>

SkipDuplicate == (\E r \in Range(fill_queue) : ReadDuplicate(r)) /\ UNCHANGED <<omVars, venueVars>>

\* The fill handler pushes onto the queue of the order manager.
DeliverReport ==
    /\ \E r \in Range(fill_queue) : ReadNew(r) /\ GatewayReport(r.report)
    /\ UNCHANGED venueVars

\* Bound: there is a stream left to reconnect with.
BreakLink ==
    /\ handler[MaxStreams] = "unused"
    /\ Disconnect
    /\ UNCHANGED <<omVars, venueVars>>

HandleStream ==
    /\ \E n \in Streams : StreamFills(n) \/ (connection # n /\ CloseStream(n))
    /\ UNCHANGED <<omVars, gatewayVars, venueVars>>

------------------------------------------------------------------------------
(* The venue.                                                               *)

Report(b, quantity, status) ==
    [broker_id |-> b, symbol |-> venue[b].order.symbol, side |-> venue[b].order.side,
     filled_quantity |-> quantity, avg_fill_price |-> CHOOSE p \in Prices : TRUE,
     status |-> status]

Send(id, b, quantity, status) ==
    PutReport(b, connection, [id |-> id, report |-> Report(b, quantity, status)])

Execute(b) ==
    /\ b \in Live
    /\ venue[b].executed < venue[b].order.quantity
    /\ Len(executions) < MaxExecutions
    /\ executions' = Append(executions, b)
    /\ venue' = [venue EXCEPT ![b].executed = @ + 1,
                              ![b].live = venue[b].executed + 1 < venue[b].order.quantity]
    /\ Send(Len(executions'), b, 1, "NONE")
    /\ UNCHANGED <<omVars, gatewayVars, call, unrecorded, surprises, restarts, commands>>

\* The venue ends an order nobody asked it to end.  The report has no execution id.
EndOrder(b, status) ==
    /\ surprises < MaxSurprises
    /\ surprises' = surprises + 1
    /\ b \in Live
    /\ venue' = Kill({b})
    /\ Send(NoId, b, 0, status)
    /\ UNCHANGED <<omVars, gatewayVars, call, executions, unrecorded, restarts, commands>>

Resend(id) ==
    /\ surprises < MaxSurprises
    /\ id \in DOMAIN executions
    /\ id > Len(executions) - Resent
    /\ surprises' = surprises + 1
    /\ Send(id, executions[id], 1, "NONE")
    /\ UNCHANGED <<omVars, gatewayVars, call, venue, executions, unrecorded, restarts, commands>>

Venue ==
    \/ \E b \in BrokerIds : Execute(b) \/ EndOrder(b, "CANCELLED")
    \/ \E id \in DOMAIN executions : Resend(id)

------------------------------------------------------------------------------
(* The engine crashes.                                                       *)

\* The tables a crash can leave while a call is being made: the statements of
\* the handler before the call, and those after it up to the last.
Interrupted ==
    CASE Idle -> {order_store_}
      [] InCall /\ event.kind = "submit" ->
            {WithPendingRow, update_order_status(WithPendingRow, id_generator_, "SUBMITTED")}
      [] InCall /\ event.kind = "replace" -> {order_store_, ReplacedTable}

\* The process dies, with everything in memory; a new order manager starts on
\* the same store, and reads nothing from it.  The ids it generates are new:
\* they contain the time.  The adapter process is still there.
Crash(table) ==
    /\ restarts < MaxRestarts
    /\ handler[MaxStreams] = "unused"
    /\ table \in Interrupted
    /\ restarts' = restarts + 1
    /\ order_store_' = table
    /\ id_generator_' = IF InCall THEN id_generator_ + 1 ELSE id_generator_
    /\ broker_count' = IF call.answered THEN broker_count + 1 ELSE broker_count
    /\ unrecorded' = IF InCall THEN unrecorded \cup {call.broker_id} ELSE unrecorded
    /\ order_routing' = IF InCall THEN order_routing \cup {call.broker_id} ELSE order_routing
    /\ call' = NoCall
    /\ queue_' = <<>>
    /\ waiting' = {}
    /\ id_mapper_' = EmptyMapper
    /\ open_order_count_' = 0
    /\ positions_' = [s \in Symbols |-> FlatPosition]
    /\ fill_sink_' = FALSE
    /\ stream' = start
    /\ connection' = NoStream
    /\ seen_id_order_' = <<>>
    /\ fill_queue' = <<>>
    /\ UNCHANGED <<journal_, streamed, phase, handler, fill_queues, displaced, venue,
                   executions, surprises, commands>>

\* The clients.
Commands ==
    /\ commands < MaxCommands
    /\ ClientStep
    /\ commands' = commands + 1
    /\ UNCHANGED <<gatewayVars, adapterVars, call, venue, executions, unrecorded, surprises,
                   restarts>>

AdapterTradingNext ==
    \/ Commands
    \/ \E answered \in BOOLEAN : Place(answered)
    \/ RouteOrder
    \/ DispatchThread
    \/ StreamLoop
    \/ SkipDuplicate
    \/ DeliverReport
    \/ BreakLink
    \/ HandleStream
    \/ Venue
    \/ \E table \in Interrupted : Crash(table)

AdapterTradingSpec == AdapterTradingInit /\ [][AdapterTradingNext]_vars

------------------------------------------------------------------------------
(* Properties.                                                              *)

QueuedFor(b) ==
    Cardinality({i \in DOMAIN queue_ : /\ queue_[i].kind = "report"
                                       /\ queue_[i].report.broker_id = b
                                       /\ queue_[i].report.status = "NONE"})

\* What the store has recorded of an order, and what the dispatch thread will
\* add to it, is no more than what the venue has executed: each execution counts
\* at most once, through reconnections, executions sent again (as long as the
\* venue sends again few enough for the window) and restarts, after which the
\* window is empty.
EachExecutionCountsOnce ==
    \A l \in Stored(order_store_) :
        LET row == order_store_[l]
        IN  row.broker_id # None =>
                row.filled_quantity
                    + (IF IsMapped(l) THEN QueuedFor(row.broker_id) ELSE 0)
                    <= venue[row.broker_id].executed

\* An order that can still execute is one the kill switch reaches (its row is
\* open and has its broker id), or one whose acceptance never got to the store:
\* the answer was lost, the store failed, or the engine crashed in the call.
LiveOrdersStayReachable ==
    \A b \in Live \ unrecorded :
        \/ InCall /\ call.broker_id = b
        \/ \E l \in Reachable({}) : order_store_[l].broker_id = b

\* While the handler of the stream the engine reads is active, its queue is
\* where the adapter puts the strategy's reports, unless the handler of an
\* earlier stream has taken the registration away.
OpenStreamsAreFed ==
    connection # NoStream /\ handler[connection] = "active" =>
        fill_queues = connection \/ displaced
==============================================================================
