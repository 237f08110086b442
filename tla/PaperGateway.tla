---------------------------- MODULE PaperGateway -----------------------------
(***************************************************************************)
(* PaperGateway and the GatewayDispatchBase it derives from: the pending   *)
(* orders (under orders_mutex_), the simulation thread that fills them in  *)
(* passes, and the dispatcher thread that hands the reports over.          *)
(*                                                                         *)
(* The random draws (rejection, fill or not, how much, at which price) are *)
(* nondeterministic choices over the values they can take.  Orders are     *)
(* MARKET orders: OrderManager creates no other.                           *)
(***************************************************************************)
EXTENDS OrderStore, FiniteSets, Sequences

VARIABLES
    pending_orders_,  \* broker id -> the order and what has been filled of it
    running_,         \* cleared by stop()
    simulation,       \* where the simulation thread is
    generated_fills_, \* reports of the current pass, not yet enqueued
    reports_queue_,   \* reports the dispatcher has not delivered
    dispatcher,       \* where the dispatcher thread is
    stop_requested    \* of the dispatcher thread

gatewayVars == <<pending_orders_, running_, simulation, generated_fills_, reports_queue_,
                 dispatcher, stop_requested>>

SimulatedOrder == [order : Signals, cumulative_filled : Nat]

ASSUME NoneIsNotPending == None \notin SimulatedOrder

Pending == {b \in BrokerIds : pending_orders_[b] # None}

\* Faulty: every fill starts again from the ordered quantity.
remaining_Ordered(b) == pending_orders_[b].order.quantity

remaining(b) == pending_orders_[b].order.quantity - pending_orders_[b].cumulative_filled

Larger(m, n) == IF m > n THEN m ELSE n

\* All that remains, or the floor of 30% to 90% of it but at least 1, and
\* never more than remains.
fill_quantities(rem) ==
    {rem} \cup {n \in 1 .. rem : \E x \in (3 * rem) \div 10 .. (9 * rem - 1) \div 10 :
                                     n = Larger(x, 1)}

PlainFill(b, qty, price) ==
    [broker_id |-> b, symbol |-> pending_orders_[b].order.symbol,
     side |-> pending_orders_[b].order.side, filled_quantity |-> qty,
     avg_fill_price |-> price, status |-> "NONE"]

GatewayInit ==
    /\ pending_orders_ = [b \in BrokerIds |-> None]
    /\ running_ = TRUE
    /\ simulation = "sleeping"
    /\ generated_fills_ = {}
    /\ reports_queue_ = <<>>
    /\ dispatcher = "checking"
    /\ stop_requested = FALSE

------------------------------------------------------------------------------
(* Calls of the order manager.                                              *)

accept(pending, broker_id, order) ==
    [pending EXCEPT ![broker_id] = [order |-> order, cumulative_filled |-> 0]]

erase(pending, broker_ids) ==
    [b \in BrokerIds |-> IF b \in broker_ids THEN None ELSE pending[b]]

KeepThreads == UNCHANGED <<running_, simulation, generated_fills_, reports_queue_, dispatcher,
                           stop_requested>>

submit_order(order, broker_id) ==
    pending_orders_' = accept(pending_orders_, broker_id, order) /\ KeepThreads

\* cancel_order succeeds whether or not the orders are pending.
cancel_orders(broker_ids) ==
    pending_orders_' = erase(pending_orders_, broker_ids) /\ KeepThreads

\* The replaced order need not be pending either.
replace_order(old_broker_id, new_order, broker_id) ==
    /\ pending_orders_' =
           accept(erase(pending_orders_, {old_broker_id}), broker_id, new_order)
    /\ KeepThreads

\* stop() clears running_ and joins the simulation thread.
stop ==
    /\ running_' = FALSE
    /\ UNCHANGED <<pending_orders_, simulation, generated_fills_, reports_queue_, dispatcher,
                   stop_requested>>

------------------------------------------------------------------------------
(* The simulation thread.                                                   *)

\* Faulty: the loop does not look at running_.
CheckRunning_Ignored ==
    /\ simulation = "sleeping"
    /\ simulation' = "simulating"
    /\ UNCHANGED <<pending_orders_, running_, generated_fills_, reports_queue_, dispatcher,
                   stop_requested>>

CheckRunning ==
    /\ simulation = "sleeping"
    /\ simulation' = IF running_ THEN "simulating" ELSE "exited"
    /\ UNCHANGED <<pending_orders_, running_, generated_fills_, reports_queue_, dispatcher,
                   stop_requested>>

\* The pending order after a fill; a fully filled order is erased.
AfterFill(b, qty) ==
    IF qty >= remaining(b)
    THEN None
    ELSE [pending_orders_[b] EXCEPT !.cumulative_filled = @ + qty]

\* One pass: some of the pending orders (the domain of fills) are filled, each
\* by a quantity and at a price.
simulate_fills(fills) ==
    /\ simulation = "simulating"
    /\ \A b \in DOMAIN fills : fills[b][1] \in fill_quantities(remaining(b))
    /\ generated_fills_' = {PlainFill(b, fills[b][1], fills[b][2]) : b \in DOMAIN fills}
    /\ pending_orders_' = [b \in BrokerIds |-> IF b \in DOMAIN fills
                                               THEN AfterFill(b, fills[b][1])
                                               ELSE pending_orders_[b]]
    /\ simulation' = IF DOMAIN fills = {} THEN "sleeping" ELSE "enqueueing"
    /\ UNCHANGED <<running_, reports_queue_, dispatcher, stop_requested>>

SimulationPass ==
    \E filled \in SUBSET Pending :
        \E fills \in [filled -> FillQuantity \X Prices] : simulate_fills(fills)

\* A notification of dispatch_cv_ reaches the dispatcher only if it waits.
Notify == dispatcher' = IF dispatcher = "waiting" THEN "checking" ELSE dispatcher

\* The order of the reports of a pass is the hash map's: any order.  The queue
\* is locked by a dispatcher that has tested it and does not wait yet.
enqueue_report(report) ==
    /\ simulation = "enqueueing"
    /\ report \in generated_fills_
    /\ dispatcher # "blocking"
    /\ reports_queue_' = Append(reports_queue_, report)
    /\ Notify
    /\ generated_fills_' = generated_fills_ \ {report}
    /\ simulation' = IF generated_fills_' = {} THEN "sleeping" ELSE "enqueueing"
    /\ UNCHANGED <<pending_orders_, running_, stop_requested>>

------------------------------------------------------------------------------
(* The dispatcher thread.  "checking": it evaluates the predicate of its    *)
(* wait, or is on its way there; "blocking": the predicate was false, the   *)
(* thread still holds dispatch_mu_ and is not on the condition variable;    *)
(* "waiting": it is.  A spurious wakeup only evaluates the predicate again. *)

\* After the join of the simulation thread, stop() requests the dispatcher to
\* stop and notifies it, both without dispatch_mu_: even while it is blocking.
stop_dispatcher ==
    /\ ~running_
    /\ simulation = "exited"
    /\ ~stop_requested
    /\ stop_requested' = TRUE
    /\ Notify
    /\ UNCHANGED <<pending_orders_, running_, simulation, generated_fills_, reports_queue_>>

NothingToDo ==
    /\ dispatcher = "checking"
    /\ reports_queue_ = <<>>
    /\ ~stop_requested
    /\ dispatcher' = "blocking"
    /\ UNCHANGED <<pending_orders_, running_, simulation, generated_fills_, reports_queue_,
                   stop_requested>>

Wait ==
    /\ dispatcher = "blocking"
    /\ dispatcher' = "waiting"
    /\ UNCHANGED <<pending_orders_, running_, simulation, generated_fills_, reports_queue_,
                   stop_requested>>

\* Pop the oldest report and call the fill handler with it.
PopReport(report) ==
    /\ dispatcher = "checking"
    /\ reports_queue_ # <<>>
    /\ report = Head(reports_queue_)
    /\ reports_queue_' = Tail(reports_queue_)
    /\ UNCHANGED <<pending_orders_, running_, simulation, generated_fills_, dispatcher,
                   stop_requested>>

\* Faulty: the dispatcher leaves as soon as it is asked to stop.
MayExit_Early == stop_requested

\* The dispatcher leaves its loop when asked to stop and nothing is queued.
MayExit == stop_requested /\ reports_queue_ = <<>>

DispatcherExit ==
    /\ dispatcher = "checking"
    /\ MayExit
    /\ dispatcher' = "exited"
    /\ UNCHANGED <<pending_orders_, running_, simulation, generated_fills_, reports_queue_,
                   stop_requested>>
==============================================================================
