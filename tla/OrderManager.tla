---------------------------- MODULE OrderManager -----------------------------
(***************************************************************************)
(* One OrderManager: the event queue, the dispatch thread that is the only *)
(* writer of the order store, of the id mapper and of the open-order       *)
(* counter, and the handlers it runs.                                      *)
(*                                                                         *)
(* Around it, an environment as wide as the code allows: client threads    *)
(* that block in process_signal and cancel_all, a gateway that accepts or  *)
(* refuses each request and reports anything, in any order, about any      *)
(* broker id, and store calls that fail (FaultyCalls).  PaperTrading       *)
(* replaces that gateway by the one in the source.                         *)
(*                                                                         *)
(* A handler is one step: it runs on the dispatch thread to its end, and   *)
(* what other threads do in between commutes with it (see README.md).      *)
(* Its paths are separate actions, named for how the handler ends.         *)
(***************************************************************************)
EXTENDS OrderIdMapper, OrderStore, RiskManager, PositionKeeper, FiniteSets, Sequences

CONSTANTS Clients,      \* client threads calling the order manager
          FaultyCalls,  \* the store and clock calls that may fail
          Streaming     \* whether clients open a StreamFills stream

StoreCalls == {"timestamp", "store_order", "update_order_status", "update_broker_id",
               "apply_fill", "get_order", "get_open_orders"}

ASSUME OrderManagerAssumption ==
    /\ FaultyCalls \subseteq StoreCalls
    /\ Streaming \in BOOLEAN
    /\ MaxOrders < SizeModulus

VARIABLES
    queue_,            \* events the dispatch thread has not handled
    waiting,           \* clients blocked on the future of their command
    id_generator_,     \* counter of the local ids
    order_store_,      \* the orders table
    id_mapper_,        \* local id <-> broker id of the orders being tracked
    open_order_count_,
    positions_,        \* PositionKeeper
    journal_,          \* what journal_->log was called with, as a set
    fill_sink_,        \* whether a StreamFills stream is attached
    streamed,          \* per broker id, the quantity written to the stream
    phase,             \* progress of ~OrderManager
    broker_count       \* gateway: how many broker ids it has returned

omVars == <<queue_, waiting, id_generator_, order_store_, id_mapper_, open_order_count_,
            positions_, journal_, fill_sink_, streamed, phase, broker_count>>

\* A report's status is set by adapters; "NONE" stands for a plain fill.
Reports == [broker_id : BrokerIds, symbol : Symbols, side : Sides,
            filled_quantity : FillQuantity, avg_fill_price : Prices,
            status : {"NONE", "REJECTED", "CANCELLED"}]

SubmitCommand    == [kind : {"submit"}, client : Clients, signal : Signals]
CancelCommand    == [kind : {"cancel"}, client : Clients, order_id : LocalIds]
ReplaceCommand   == [kind : {"replace"}, client : Clients, order_id : LocalIds,
                     signal : Signals]
CancelAllCommand == [kind : {"cancel_all"}, client : Clients]
Command          == SubmitCommand \cup CancelCommand \cup ReplaceCommand
                        \cup CancelAllCommand
ReportEvent      == [kind : {"report"}, report : Reports]

Events == {"ORDER_CREATED", "ORDER_SUBMITTED", "ORDER_REJECTED", "ORDER_REPLACED",
           "ORDER_CANCELLED", "ORDER_FILLED", "ORDER_PARTIALLY_FILLED",
           "KILL_SWITCH_ACTIVATED", "ERROR_OCCURRED"}

Init ==
    /\ queue_ = <<>>
    /\ waiting = {}
    /\ id_generator_ = 0
    /\ order_store_ = EmptyTable
    /\ id_mapper_ = EmptyMapper
    /\ open_order_count_ = 0
    /\ positions_ = [s \in Symbols |-> FlatPosition]
    /\ journal_ = {}
    /\ fill_sink_ = FALSE
    /\ streamed = [b \in BrokerIds |-> 0]
    /\ phase = "running"
    /\ broker_count = 0

------------------------------------------------------------------------------
(* Client threads: process_signal and cancel_all push a command and block.  *)

\* Bound: ids that queued commands will still take.
QueuedOrders == Cardinality({i \in DOMAIN queue_ : queue_[i].kind \in {"submit", "replace"}})

enqueue(e) == queue_' = Append(queue_, e)

process_signal(cmd) ==
    /\ phase = "running"
    /\ cmd.client \notin waiting
    /\ enqueue(cmd)
    /\ waiting' = waiting \cup {cmd.client}
    /\ UNCHANGED <<id_generator_, order_store_, id_mapper_, open_order_count_, positions_,
                   journal_, fill_sink_, streamed, phase, broker_count>>

SubmitSignal(c, signal) ==
    /\ id_generator_ + QueuedOrders < MaxOrders
    /\ process_signal([kind |-> "submit", client |-> c, signal |-> signal])

CancelSignal(c, order_id) ==
    /\ order_id < id_generator_
    /\ process_signal([kind |-> "cancel", client |-> c, order_id |-> order_id])

ReplaceSignal(c, order_id, signal) ==
    /\ order_id < id_generator_
    /\ id_generator_ + QueuedOrders < MaxOrders
    /\ process_signal([kind |-> "replace", client |-> c, order_id |-> order_id,
                       signal |-> signal])

cancel_all(c) == process_signal([kind |-> "cancel_all", client |-> c])

\* StreamFills attaches the fill sink and detaches it when the stream ends.
SwitchFillSink(attached) ==
    /\ Streaming
    /\ phase # "destroyed"
    /\ fill_sink_ # attached
    /\ fill_sink_' = attached
    /\ UNCHANGED <<queue_, waiting, id_generator_, order_store_, id_mapper_,
                   open_order_count_, positions_, journal_, streamed, phase, broker_count>>

set_fill_sink   == SwitchFillSink(TRUE)
clear_fill_sink == SwitchFillSink(FALSE)

\* The gateway's fill handler pushes a report.
GatewayReport(r) ==
    /\ phase \in {"running", "stopping"}
    /\ enqueue([kind |-> "report", report |-> r])
    /\ UNCHANGED <<waiting, id_generator_, order_store_, id_mapper_, open_order_count_,
                   positions_, journal_, fill_sink_, streamed, phase, broker_count>>

------------------------------------------------------------------------------
(* The dispatch thread.                                                     *)

event == Head(queue_)

\* run_dispatch_loop pops the next event, which has the given kind.
Dispatch(kind) ==
    /\ phase # "destroyed"
    /\ queue_ # <<>>
    /\ event.kind = kind
    /\ queue_' = Tail(queue_)

Answer(c) == waiting' = waiting \ {c}

generate == id_generator_' = id_generator_ + 1

log(entries) == journal_' = journal_ \cup entries

\* The table after a statement that fails when `call' is among the faults.
Persisted(call, fail, table) == IF call \in fail THEN order_store_ ELSE table

ErrorIf(failed, id) == IF failed THEN {<<"ERROR_OCCURRED", id>>} ELSE {}

------------------------------------------------------------------------------
(* handle_submit_command                                                    *)

PendingRow == NewRow(event.signal, "PENDING_SUBMISSION", None)

WithPendingRow == store_order(order_store_, id_generator_, PendingRow)

StoreOrderFails(fail) ==
    \/ "store_order" \in fail
    \/ ~CanStore(order_store_, id_generator_, PendingRow)

RiskAllows ==
    check(event.signal.quantity, ToSizeT(open_order_count_), get_total_pnl(positions_))

\* The common head of the handler: a fresh id and the ORDER_CREATED entry.
Submitting(entries) ==
    /\ id_generator_ < MaxOrders
    /\ generate
    /\ log({<<"ORDER_CREATED", id_generator_>>} \cup entries)
    /\ Answer(event.client)
    /\ UNCHANGED <<positions_, fill_sink_, streamed, phase>>

SubmitNotStored(fail) ==
    /\ Dispatch("submit")
    /\ \/ "timestamp" \in fail /\ Submitting({})
       \/ /\ "timestamp" \notin fail
          /\ StoreOrderFails(fail)
          /\ Submitting({<<"ERROR_OCCURRED", id_generator_>>})
    /\ UNCHANGED <<order_store_, id_mapper_, open_order_count_, broker_count>>

SubmitStored(fail) == "timestamp" \notin fail /\ ~StoreOrderFails(fail)

RecordRejection(fail) ==
    /\ SubmitStored(fail)
    /\ Submitting({<<"ORDER_REJECTED", id_generator_>>}
                    \cup ErrorIf("update_order_status" \in fail, id_generator_))
    /\ order_store_' = IF "update_order_status" \in fail
                       THEN WithPendingRow
                       ELSE update_order_status(WithPendingRow, id_generator_, "REJECTED")
    /\ UNCHANGED <<id_mapper_, open_order_count_, broker_count>>

SubmitRefusedByRisk(fail) ==
    Dispatch("submit") /\ ~RiskAllows /\ RecordRejection(fail)

SubmitRejectedByGateway(fail) ==
    Dispatch("submit") /\ RiskAllows /\ RecordRejection(fail)

\* The gateway has accepted the order; recording that as SUBMITTED fails, and
\* the handler returns before it registers the mapping.
SubmitNotRecorded(fail, broker_id) ==
    /\ Dispatch("submit")
    /\ SubmitStored(fail)
    /\ RiskAllows
    /\ "update_order_status" \in fail
    /\ Submitting({<<"ERROR_OCCURRED", id_generator_>>})
    /\ broker_id = broker_count
    /\ broker_count' = broker_count + 1
    /\ order_store_' = WithPendingRow
    /\ UNCHANGED <<id_mapper_, open_order_count_>>

SubmitAccepted(fail, broker_id) ==
    LET submitted == update_order_status(WithPendingRow, id_generator_, "SUBMITTED")
        unlinked  == \/ "update_broker_id" \in fail
                     \/ ~BrokerIdFree(submitted, id_generator_, broker_id)
    IN  /\ Dispatch("submit")
        /\ SubmitStored(fail)
        /\ RiskAllows
        /\ "update_order_status" \notin fail
        /\ Submitting({<<"ORDER_SUBMITTED", id_generator_>>}
                        \cup ErrorIf(unlinked, id_generator_))
        /\ broker_id = broker_count
        /\ broker_count' = broker_count + 1
        /\ id_mapper_' = add_mapping(id_mapper_, id_generator_, broker_id)
        /\ open_order_count_' = open_order_count_ + 1
        /\ order_store_' = IF unlinked THEN submitted
                           ELSE update_broker_id(submitted, id_generator_, broker_id)

handle_submit_command(fail) ==
    \/ SubmitNotStored(fail)
    \/ SubmitRefusedByRisk(fail)
    \/ SubmitRejectedByGateway(fail)
    \/ \E b \in BrokerIds : SubmitNotRecorded(fail, b) \/ SubmitAccepted(fail, b)

------------------------------------------------------------------------------
(* handle_cancel_command                                                    *)

IsMapped(local_id) == get_broker_id(id_mapper_, local_id) # None

\* The handler answers with an error and changes nothing else.
Refuse(kind) ==
    /\ Dispatch(kind)
    /\ Answer(event.client)
    /\ UNCHANGED <<id_generator_, order_store_, id_mapper_, open_order_count_, positions_,
                   journal_, fill_sink_, streamed, phase, broker_count>>

\* Faulty: no early return, the counter is released for an unknown order.
CancelUnknown_Releases ==
    /\ Dispatch("cancel")
    /\ ~IsMapped(event.order_id)
    /\ Answer(event.client)
    /\ open_order_count_' = open_order_count_ - 1
    /\ UNCHANGED <<id_generator_, order_store_, id_mapper_, positions_, journal_, fill_sink_,
                   streamed, phase, broker_count>>

CancelUnknown == Refuse("cancel") /\ ~IsMapped(event.order_id)

CancelRefusedByGateway == Refuse("cancel") /\ IsMapped(event.order_id)

\* The gateway has cancelled; the order is forgotten before the store is told.
Cancelling(entries) ==
    /\ IsMapped(event.order_id)
    /\ log({<<"ORDER_CANCELLED", event.order_id>>} \cup entries)
    /\ id_mapper_' = remove_mapping(id_mapper_, event.order_id)
    /\ Answer(event.client)
    /\ UNCHANGED <<id_generator_, positions_, fill_sink_, streamed, phase, broker_count>>

CancelNotRecorded(fail) ==
    /\ Dispatch("cancel")
    /\ "update_order_status" \in fail
    /\ Cancelling({<<"ERROR_OCCURRED", event.order_id>>})
    /\ UNCHANGED <<order_store_, open_order_count_>>

CancelDone(fail) ==
    /\ Dispatch("cancel")
    /\ "update_order_status" \notin fail
    /\ Cancelling({})
    /\ order_store_' = update_order_status(order_store_, event.order_id, "CANCELLED")
    /\ open_order_count_' = open_order_count_ - 1

handle_cancel_command(fail) ==
    \/ CancelUnknown
    \/ CancelRefusedByGateway
    \/ CancelNotRecorded(fail)
    \/ CancelDone(fail)

------------------------------------------------------------------------------
(* handle_replace_command                                                   *)

ReplaceUnknown == Refuse("replace") /\ ~IsMapped(event.order_id)

\* The common head of the other paths: a fresh id and the ORDER_REPLACED entry.
Replacing(entries) ==
    /\ IsMapped(event.order_id)
    /\ id_generator_ < MaxOrders
    /\ generate
    /\ log({<<"ORDER_REPLACED", id_generator_>>} \cup entries)
    /\ Answer(event.client)
    /\ UNCHANGED <<open_order_count_, positions_, fill_sink_, streamed, phase>>

ReplaceRejectedByGateway ==
    /\ Dispatch("replace")
    /\ Replacing({<<"ORDER_REJECTED", id_generator_>>})
    /\ UNCHANGED <<order_store_, id_mapper_, broker_count>>

\* Faulty: the replaced order is stored as cancelled.
ReplacedTable_Cancelled == update_order_status(order_store_, event.order_id, "CANCELLED")

ReplacedTable == update_order_status(order_store_, event.order_id, "REPLACED")

ReplacementRow(broker_id) == NewRow(event.signal, "SUBMITTED", broker_id)

StoreReplacementFails(fail, broker_id) ==
    \/ "store_order" \in fail
    \/ ~CanStore(ReplacedTable, id_generator_, ReplacementRow(broker_id))

\* The gateway has replaced the order; a store or clock failure ends the
\* handler after the old mapping is gone and before the new one exists.
ReplaceNotRecorded(fail, broker_id) ==
    /\ Dispatch("replace")
    /\ \/ /\ "update_order_status" \in fail
          /\ Replacing({<<"ERROR_OCCURRED", event.order_id>>})
          /\ UNCHANGED order_store_
       \/ /\ "update_order_status" \notin fail
          /\ "timestamp" \in fail
          /\ Replacing({})
          /\ order_store_' = ReplacedTable
       \/ /\ fail \cap {"update_order_status", "timestamp"} = {}
          /\ StoreReplacementFails(fail, broker_id)
          /\ Replacing({<<"ERROR_OCCURRED", id_generator_>>})
          /\ order_store_' = ReplacedTable
    /\ broker_id = broker_count
    /\ broker_count' = broker_count + 1
    /\ id_mapper_' = remove_mapping(id_mapper_, event.order_id)

ReplaceDone(fail, broker_id) ==
    /\ Dispatch("replace")
    /\ fail \cap {"update_order_status", "timestamp"} = {}
    /\ ~StoreReplacementFails(fail, broker_id)
    /\ Replacing({<<"ORDER_SUBMITTED", id_generator_>>})
    /\ broker_id = broker_count
    /\ broker_count' = broker_count + 1
    /\ id_mapper_' = add_mapping(remove_mapping(id_mapper_, event.order_id),
                                 id_generator_, broker_id)
    /\ order_store_' = store_order(ReplacedTable, id_generator_, ReplacementRow(broker_id))

handle_replace_command(fail) ==
    \/ ReplaceUnknown
    \/ ReplaceRejectedByGateway
    \/ \E b \in BrokerIds : ReplaceNotRecorded(fail, b) \/ ReplaceDone(fail, b)

------------------------------------------------------------------------------
(* handle_cancel_all_command                                                *)

\* The stored orders the kill switch asks the gateway to cancel.
Reachable(fail) ==
    IF "get_open_orders" \in fail
    THEN {}
    ELSE {l \in get_open_orders(order_store_) : order_store_[l].broker_id # None}

\* The gateway refuses to cancel `refused'; the status of `unrecorded' cannot
\* be written.
handle_cancel_all_command(fail, refused, unrecorded) ==
    LET cancelled == Reachable(fail) \ (refused \cup unrecorded)
    IN  /\ Dispatch("cancel_all")
        /\ refused \subseteq Reachable(fail)
        /\ unrecorded \subseteq Reachable(fail) \ refused
        /\ unrecorded # {} => "update_order_status" \in FaultyCalls
        /\ order_store_' = update_order_statuses(order_store_, cancelled, "CANCELLED")
        /\ id_mapper_' = remove_mappings(id_mapper_, cancelled)
        /\ log({<<"KILL_SWITCH_ACTIVATED", None>>}
                 \cup {<<"ORDER_CANCELLED", l>> : l \in cancelled}
                 \cup {<<"ERROR_OCCURRED", l>> : l \in refused \cup unrecorded})
        /\ Answer(event.client)
        /\ UNCHANGED <<id_generator_, open_order_count_, positions_, fill_sink_, streamed,
                       phase, broker_count>>

------------------------------------------------------------------------------
(* handle_fill                                                              *)

fill == event.report

filled_local_id == get_local_id(id_mapper_, fill.broker_id)

\* The report reaches the attached StreamFills stream, if there is one.
NotifyFillSink ==
    streamed' = IF fill_sink_
                THEN [streamed EXCEPT ![fill.broker_id] = @ + fill.filled_quantity]
                ELSE streamed

\* No mapping: the report is logged to the console and dropped.
FillUnknown ==
    /\ Dispatch("report")
    /\ filled_local_id = None
    /\ UNCHANGED <<waiting, id_generator_, order_store_, id_mapper_, open_order_count_,
                   positions_, journal_, fill_sink_, streamed, phase, broker_count>>

\* A REJECTED or CANCELLED report ends the order.
FillTerminal(fail) ==
    /\ Dispatch("report")
    /\ filled_local_id # None
    /\ fill.status # "NONE"
    /\ order_store_' = Persisted("update_order_status", fail,
                           update_order_status(order_store_, filled_local_id, fill.status))
    /\ log(ErrorIf("update_order_status" \in fail, filled_local_id))
    /\ id_mapper_' = remove_mapping(id_mapper_, filled_local_id)
    /\ NotifyFillSink
    /\ UNCHANGED <<waiting, id_generator_, open_order_count_, positions_, fill_sink_, phase,
                   broker_count>>

GetOrderFails(fail) == "get_order" \in fail \/ order_store_[filled_local_id] = None

FillNotApplied(fail) ==
    /\ Dispatch("report")
    /\ filled_local_id # None
    /\ fill.status = "NONE"
    /\ GetOrderFails(fail)
    /\ log({<<"ERROR_OCCURRED", filled_local_id>>})
    /\ UNCHANGED <<waiting, id_generator_, order_store_, id_mapper_, open_order_count_,
                   positions_, fill_sink_, streamed, phase, broker_count>>

fully_filled(row, filled_qty) == row.filled_quantity + filled_qty >= row.order.quantity

FillApplied(fail) ==
    LET row        == order_store_[filled_local_id]
        fully      == fully_filled(row, fill.filled_quantity)
        new_status == IF fully THEN "FILLED" ELSE "PARTIALLY_FILLED"
    IN  /\ Dispatch("report")
        /\ filled_local_id # None
        /\ fill.status = "NONE"
        /\ ~GetOrderFails(fail)
        /\ order_store_' = Persisted("apply_fill", fail,
                               apply_fill(order_store_, filled_local_id, fill.filled_quantity,
                                          fill.avg_fill_price, new_status))
        /\ positions_' = on_fill(positions_, fill.symbol, fill.filled_quantity,
                                 fill.avg_fill_price, fill.side)
        /\ log({<<IF fully THEN "ORDER_FILLED" ELSE "ORDER_PARTIALLY_FILLED",
                  filled_local_id>>}
                 \cup ErrorIf("apply_fill" \in fail, filled_local_id))
        /\ id_mapper_' = IF fully THEN remove_mapping(id_mapper_, filled_local_id)
                                  ELSE id_mapper_
        /\ open_order_count_' = IF fully THEN open_order_count_ - 1 ELSE open_order_count_
        /\ NotifyFillSink
        /\ UNCHANGED <<waiting, id_generator_, fill_sink_, phase, broker_count>>

handle_fill(fail) ==
    \/ FillUnknown
    \/ FillTerminal(fail)
    \/ FillNotApplied(fail)
    \/ FillApplied(fail)

\* The calls of each handler that can fail (each is made at most once per path).
SubmitFaults  == FaultyCalls \cap {"timestamp", "store_order", "update_order_status",
                                   "update_broker_id"}
CancelFaults  == FaultyCalls \cap {"update_order_status"}
ReplaceFaults == FaultyCalls \cap {"timestamp", "store_order", "update_order_status"}
SweepFaults   == FaultyCalls \cap {"get_open_orders"}
FillFaults    == FaultyCalls \cap {"update_order_status", "get_order", "apply_fill"}

run_dispatch_loop ==
    \/ \E fail \in SUBSET SubmitFaults : handle_submit_command(fail)
    \/ \E fail \in SUBSET CancelFaults : handle_cancel_command(fail)
    \/ \E fail \in SUBSET ReplaceFaults : handle_replace_command(fail)
    \/ \E fail \in SUBSET SweepFaults, refused, unrecorded \in SUBSET LocalIds :
           handle_cancel_all_command(fail, refused, unrecorded)
    \/ \E fail \in SUBSET FillFaults : handle_fill(fail)

------------------------------------------------------------------------------
(* ~OrderManager: stop the gateway, then stop the dispatch thread, which     *)
(* leaves its loop only when the queue is empty.                            *)

Enters(from, to) ==
    /\ phase = from
    /\ phase' = to
    /\ UNCHANGED <<queue_, waiting, id_generator_, order_store_, id_mapper_,
                   open_order_count_, positions_, journal_, fill_sink_, streamed,
                   broker_count>>

Destroy == Enters("running", "stopping")

GatewayStopped == Enters("stopping", "draining")

\* Faulty: the loop ends as soon as it is asked to stop.
LeaveLoop_Early == Enters("draining", "destroyed")

LeaveLoop == queue_ = <<>> /\ Enters("draining", "destroyed")

\* Nothing is left to do.
Destroyed == phase = "destroyed" /\ UNCHANGED omVars

------------------------------------------------------------------------------
(* The order manager against any gateway.                                   *)

ClientStep ==
    \/ \E c \in Clients, signal \in Signals : SubmitSignal(c, signal)
    \/ \E c \in Clients, l \in LocalIds : CancelSignal(c, l)
    \/ \E c \in Clients, l \in LocalIds, signal \in Signals : ReplaceSignal(c, l, signal)
    \/ \E c \in Clients : cancel_all(c)
    \/ set_fill_sink
    \/ clear_fill_sink

AnyGatewayStep == \E r \in Reports : GatewayReport(r)

Next ==
    \/ ClientStep
    \/ AnyGatewayStep
    \/ run_dispatch_loop
    \/ Destroy
    \/ GatewayStopped
    \/ LeaveLoop
    \/ Destroyed

Spec == Init /\ [][Next]_omVars

------------------------------------------------------------------------------
(* Properties.                                                              *)

Mapped == {l \in LocalIds : IsMapped(l)}

TypeOK ==
    /\ queue_ \in Seq(Command \cup ReportEvent)
    /\ waiting \subseteq Clients
    /\ id_generator_ \in 0 .. MaxOrders
    /\ order_store_ \in Table
    /\ id_mapper_ \in Mapper
    /\ open_order_count_ \in Int
    /\ positions_ \in [Symbols -> Position]
    /\ journal_ \subseteq Events \X (LocalIds \cup {None})
    /\ fill_sink_ \in BOOLEAN
    /\ streamed \in [BrokerIds -> Nat]
    /\ phase \in {"running", "stopping", "draining", "destroyed"}
    /\ broker_count \in 0 .. MaxOrders

\* The two maps of the mapper are inverse of each other: a report finds the
\* order that a cancellation would cancel.  (add_mapping, remove_mapping and
\* the order in which handle_replace_command calls them.)
MapperInverse ==
    \A l \in LocalIds, b \in BrokerIds :
        get_broker_id(id_mapper_, l) = b <=> get_local_id(id_mapper_, b) = l

\* What the engine tracks is what the store holds open: a mapped order has a
\* row, its status is SUBMITTED or PARTIALLY_FILLED, and the row knows no other
\* broker id.  Any store call may have failed.
MappedOrdersAreOpen ==
    \A l \in Mapped :
        /\ order_store_[l] # None
        /\ order_store_[l].status \in {"SUBMITTED", "PARTIALLY_FILLED"}
        /\ order_store_[l].broker_id \in {None, get_broker_id(id_mapper_, l)}

\* open_order_count_, which the risk check reads as a size_t, never loses an
\* order the engine tracks, so it never goes negative either: cancellations,
\* fills, replacements and failures release at most what they stop tracking.
CountCoversMapped == open_order_count_ >= Cardinality(Mapped)

\* The open-orders limit bounds what the engine tracks.  check compares with
\* `>' the count before the new order, so the bound is one more than the limit.
OpenOrdersBounded ==
    MaxOpenOrders > 0 => Cardinality(Mapped) <= MaxOpenOrders + 1

\* risk_manager.h:14: "Max amount of open orders at the same time".
OpenOrdersWithinLimit ==
    MaxOpenOrders > 0 => Cardinality(Mapped) <= MaxOpenOrders

\* risk_manager.h:12: "Max quantity in a single order", for every order the
\* engine has at the broker.
QuantityWithinLimit ==
    MaxQuantity > 0 => \A l \in Mapped : order_store_[l].order.quantity <= MaxQuantity

\* Of the two limits of risk_manager.h:12-14 at least one holds: the orders at the
\* broker never exceed both the number and the size it was configured with.
RiskLimitsHold == OpenOrdersWithinLimit \/ QuantityWithinLimit

\* A live fill stream never shows more of an order than the store has recorded,
\* as long as the store does not fail: the sink is called last in handle_fill.
StreamNeverAhead ==
    \A b \in BrokerIds :
        streamed[b] > 0 =>
            \E l \in Stored(order_store_) :
                /\ order_store_[l].broker_id = b
                /\ streamed[b] <= order_store_[l].filled_quantity

LifeState(row) ==
    CASE row = None -> "none"
      [] row # None /\ row.status = "PENDING_SUBMISSION" -> "pending"
      [] row # None /\ row.status = "FILLED" -> "filled"
      [] row # None /\ row.status = "CANCELLED" -> "cancelled"
      [] row # None /\ row.status = "REPLACED" -> "replaced"
      [] row # None /\ row.status = "REJECTED" -> "rejected"
      [] OTHER -> "working"

Lifecycle == INSTANCE OrderLifecycle
    WITH Orders   <- LocalIds,
         Amounts  <- Quantities,
         Fills    <- FillQuantity,
         state    <- [l \in LocalIds |-> LifeState(order_store_[l])],
         quantity <- [l \in LocalIds |-> IF order_store_[l] = None THEN 0
                                         ELSE order_store_[l].order.quantity],
         filled   <- [l \in LocalIds |-> IF order_store_[l] = None THEN 0
                                         ELSE order_store_[l].filled_quantity]

\* The rows of the order store live the life OrderLifecycle describes: in
\* particular a terminal status is final and no late fill, cancellation or
\* kill switch touches the order again.  Any store call may fail.
LifecycleRefined == Lifecycle!LifeSpec
==============================================================================
