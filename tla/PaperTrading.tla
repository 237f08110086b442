---------------------------- MODULE PaperTrading -----------------------------
(***************************************************************************)
(* An OrderManager trading against the PaperGateway, from construction to  *)
(* destruction.  The threads: the clients, the dispatch thread of the      *)
(* order manager, the simulation thread and the dispatcher thread of the   *)
(* gateway, and the thread that destroys the order manager.                *)
(***************************************************************************)
EXTENDS OrderManager, PaperGateway

vars == <<omVars, gatewayVars>>

PaperInit == Init /\ GatewayInit

------------------------------------------------------------------------------
(* The dispatch thread: each path of a handler with the gateway calls it made. *)

PaperSubmit(fail) ==
    \/ /\ \/ SubmitNotStored(fail)
          \/ SubmitRefusedByRisk(fail)
          \/ SubmitRejectedByGateway(fail)
       /\ UNCHANGED gatewayVars
    \/ \E b \in BrokerIds :
          /\ SubmitNotRecorded(fail, b) \/ SubmitAccepted(fail, b)
          /\ submit_order(event.signal, b)

PaperCancel(fail) ==
    \/ CancelUnknown /\ UNCHANGED gatewayVars
    \/ /\ CancelNotRecorded(fail) \/ CancelDone(fail)
       /\ cancel_orders({get_broker_id(id_mapper_, event.order_id)})

PaperReplace(fail) ==
    \/ ReplaceUnknown /\ UNCHANGED gatewayVars
    \/ ReplaceRejectedByGateway /\ UNCHANGED gatewayVars
    \/ \E b \in BrokerIds :
          /\ ReplaceNotRecorded(fail, b) \/ ReplaceDone(fail, b)
          /\ replace_order(get_broker_id(id_mapper_, event.order_id), event.signal, b)

PaperCancelAll(fail, unrecorded) ==
    /\ handle_cancel_all_command(fail, {}, unrecorded)
    /\ cancel_orders({order_store_[l].broker_id : l \in Reachable(fail)})

PaperFill(fail) == handle_fill(fail) /\ UNCHANGED gatewayVars

DispatchThread ==
    \/ \E fail \in SUBSET SubmitFaults : PaperSubmit(fail)
    \/ \E fail \in SUBSET CancelFaults : PaperCancel(fail)
    \/ \E fail \in SUBSET ReplaceFaults : PaperReplace(fail)
    \/ \E fail \in SUBSET SweepFaults, unrecorded \in SUBSET LocalIds :
           PaperCancelAll(fail, unrecorded)
    \/ \E fail \in SUBSET FillFaults : PaperFill(fail)
    \/ LeaveLoop /\ UNCHANGED gatewayVars

------------------------------------------------------------------------------
(* The other threads.                                                       *)

PaperClient == ClientStep /\ UNCHANGED gatewayVars

Simulate == (CheckRunning \/ SimulationPass) /\ UNCHANGED omVars

EnqueueFill == (\E r \in generated_fills_ : enqueue_report(r)) /\ UNCHANGED omVars

\* The fill handler the order manager installed pushes onto its event queue.
DeliverReport == \E r \in Reports : PopReport(r) /\ GatewayReport(r)

StopGateway == Destroy /\ stop

StopDispatcher == stop_dispatcher /\ UNCHANGED omVars

DispatcherLoop == (NothingToDo \/ Wait \/ DispatcherExit) /\ UNCHANGED omVars

GatewayJoined == dispatcher = "exited" /\ GatewayStopped /\ UNCHANGED gatewayVars

\* The notification of stop_dispatcher came after the dispatcher had evaluated
\* its predicate and before it waited.
WakeupLost == stop_requested /\ dispatcher = "waiting"

\* stop() then waits in join() for ever.
Hung == WakeupLost /\ UNCHANGED vars

PaperNext ==
    \/ PaperClient
    \/ DispatchThread
    \/ Simulate
    \/ EnqueueFill
    \/ DeliverReport
    \/ StopGateway
    \/ StopDispatcher
    \/ DispatcherLoop
    \/ GatewayJoined
    \/ Destroyed /\ UNCHANGED gatewayVars
    \/ Hung

PaperSpec == PaperInit /\ [][PaperNext]_vars

\* Every thread the two components create runs on: its loop waits for nothing
\* but the conditions in the guards (a mutex, a join, a notification, a queue
\* that is not empty).  Clients and the destruction of the order manager are not
\* obliged to happen.
Fairness ==
    /\ WF_vars(DispatchThread)
    /\ WF_vars(Simulate)
    /\ WF_vars(EnqueueFill)
    /\ WF_vars(DeliverReport)
    /\ WF_vars(StopDispatcher)
    /\ WF_vars(DispatcherLoop)
    /\ WF_vars(GatewayJoined)

PaperFairSpec == PaperSpec /\ Fairness

------------------------------------------------------------------------------
(* Properties.                                                              *)

\* What the reports of an order amount to: in a set, in the gateway's queue and
\* in the engine's.
Generated(b, reports) ==
    MapThenSumSet(LAMBDA r : r.filled_quantity, {r \in reports : r.broker_id = b})

Enqueued(b, reports) ==
    MapThenSumSet(LAMBDA i : reports[i].filled_quantity,
                  {i \in DOMAIN reports : reports[i].broker_id = b})

Delivered(b, events) ==
    MapThenSumSet(LAMBDA i : events[i].report.filled_quantity,
                  {i \in DOMAIN events : /\ events[i].kind = "report"
                                         /\ events[i].report.broker_id = b})

\* What the gateway has executed of an order and the dispatch thread has not
\* yet handled.
InFlight(b) ==
    Generated(b, generated_fills_) + Enqueued(b, reports_queue_) + Delivered(b, queue_)

\* What the gateway has executed of an order it accepted and did not cancel.
Executed(b) ==
    IF pending_orders_[b] # None
    THEN pending_orders_[b].cumulative_filled
    ELSE order_store_[get_local_id(id_mapper_, b)].order.quantity

GatewayTypeOK ==
    /\ pending_orders_ \in [BrokerIds -> SimulatedOrder \cup {None}]
    /\ running_ \in BOOLEAN
    /\ simulation \in {"sleeping", "simulating", "enqueueing", "exited"}
    /\ generated_fills_ \subseteq Reports
    /\ reports_queue_ \in Seq(Reports)
    /\ dispatcher \in {"checking", "blocking", "waiting", "exited"}
    /\ stop_requested \in BOOLEAN

\* As long as the store does not fail: an order that can still execute is one
\* the engine tracks, with the same terms, and one the kill switch will find,
\* because its row is open and has the broker id.
LiveOrdersAreTracked ==
    \A b \in Pending :
        LET l == get_local_id(id_mapper_, b)
        IN  /\ l # None
            /\ order_store_[l].status \in OpenStatus
            /\ order_store_[l].broker_id = b
            /\ order_store_[l].order = pending_orders_[b].order

\* As long as the store does not fail: for every order the engine tracks, what
\* the store has recorded and what is in flight add up to what the gateway has
\* executed.  No fill of a tracked order is lost, applied twice or overfills it,
\* and no fill stream shows more of an order than the store has.
FillsAreConserved ==
    /\ \A l \in Mapped :
           LET b == get_broker_id(id_mapper_, l)
           IN  order_store_[l].filled_quantity + InFlight(b) = Executed(b)
    /\ StreamNeverAhead

\* What the rows of a symbol have been filled by, signed.
NetFilled(table, s) ==
    MapThenSumSet(LAMBDA l : signed_fill(table[l].order.side, table[l].filled_quantity),
                  {l \in Stored(table) : table[l].order.symbol = s})

\* As long as the store does not fail: the in-memory position of a symbol is the
\* signed sum of what the store has recorded, over all its orders.
PositionMatchesStore ==
    \A s \in Symbols : positions_[s].quantity = NetFilled(order_store_, s)

\* The dispatch thread handles an event of this kind in this step.
Handles(kind) == queue_ # <<>> /\ event.kind = kind /\ queue_' = Tail(queue_)

\* As long as the store does not fail: the kill switch leaves no order alive at
\* the gateway, none tracked and none open in the store.
KillSwitchCancelsAll ==
    [][Handles("cancel_all") => /\ Pending' = {}
                                /\ Mapped' = {}
                                /\ get_open_orders(order_store_') = {}]_vars

\* As long as the store does not fail: the journal and the store tell the same
\* story of every order, at every moment.
AuditTrail ==
    \A l \in Stored(order_store_) :
        LET status == order_store_[l].status
            logged(e) == <<e, l>> \in journal_
        IN  /\ (status = "FILLED") = logged("ORDER_FILLED")
            /\ (status = "CANCELLED") = logged("ORDER_CANCELLED")
            /\ (status = "REJECTED") = logged("ORDER_REJECTED")
            /\ (status \notin {"PENDING_SUBMISSION", "REJECTED"}) = logged("ORDER_SUBMITTED")
            /\ order_store_[l].filled_quantity > 0 =>
                   logged("ORDER_FILLED") \/ logged("ORDER_PARTIALLY_FILLED")

\* Destruction loses nothing that was on its way: when the order manager is gone
\* no client is left blocked and no report is left in a queue.
ShutdownDrains ==
    phase = "destroyed" =>
        /\ queue_ = <<>>
        /\ waiting = {}
        /\ reports_queue_ = <<>>
        /\ generated_fills_ = {}

\* Every fill the dispatch thread takes from its queue moves the position.
\* (position_keeper.h:23: on_fill is "Called by OrderManager::process_fills()
\* whenever a fill arrives from the gateway".)
EveryFillMovesThePosition ==
    [][Handles("report") =>
          positions_'[fill.symbol].quantity =
              positions_[fill.symbol].quantity
                  + signed_fill(fill.side, fill.filled_quantity)]_vars

\* A client that calls process_signal or cancel_all gets its answer, even when
\* the order manager is being destroyed.
EveryClientIsAnswered == \A c \in Clients : c \in waiting ~> c \notin waiting

\* ~OrderManager returns, unless the dispatcher of the gateway sleeps through
\* its stop request: nothing else can hold up the joins and the two drains.
DestructionEndsUnlessLost == phase = "stopping" ~> phase = "destroyed" \/ WakeupLost

\* ~OrderManager returns.  (order_manager.cpp:66-71 gives the order of shutdown:
\* stop the gateway, join the dispatch thread, destroy the members.)
DestructionEnds == phase = "stopping" ~> phase = "destroyed"
==============================================================================
