---------------------------- MODULE AdapterProofs ----------------------------
(***************************************************************************)
(* Theorems about trading through an adapter: for every number of orders,  *)
(* streams, executions, crashes and executions sent again, and for every   *)
(* window of remembered execution ids that covers what the venue may send  *)
(* again.                                                                  *)
(***************************************************************************)
EXTENDS AdapterTrading, OrderManagerProofs

------------------------------------------------------------------------------
(* The streams.                                                             *)

StreamInv ==
    /\ handler \in [Streams -> {"unused", "requested", "active", "closed"}]
    /\ fill_queues \in Streams \cup {NoStream}
    /\ displaced \in BOOLEAN
    /\ connection \in Streams \cup {NoStream}
    /\ connection # NoStream => handler[connection] # "unused"
    /\ \A n, m \in Streams : n < m /\ handler[n] = "unused" => handler[m] = "unused"
    /\ \A m \in Streams : connection # NoStream /\ m > connection => handler[m] = "unused"
    /\ fill_queues # NoStream => handler[fill_queues] # "unused"
    /\ OpenStreamsAreFed

------------------------------------------------------------------------------
(* The orders of the venue.                                                 *)

FillReports == [id : Nat \cup {NoId}, report : Reports]

\* What the stream carries: an execution of one unit, or the end of an order.
Carried(r) ==
    \/ r.id = NoId /\ r.report.status = "CANCELLED"
    \/ /\ r.id \in DOMAIN executions
       /\ r.report.broker_id = executions[r.id]
       /\ r.report.status = "NONE"
       /\ r.report.filled_quantity = 1

VenueType ==
    /\ call \in [stage : {"none", "placed", "routed"}, broker_id : Nat, answered : BOOLEAN]
    /\ venue \in [BrokerIds -> VenueOrders \cup {None}]
    /\ unrecorded \subseteq BrokerIds

FeedType ==
    /\ executions \in Seq(BrokerIds)
    /\ \A i \in DOMAIN executions : /\ venue[executions[i]] # None
                                    /\ venue[executions[i]].order.quantity >= 1
    /\ fill_queue \in Seq(FillReports)
    /\ \A k \in DOMAIN fill_queue : Carried(fill_queue[k])

Lost == {b \in unrecorded : b >= broker_count}

\* While a call is being made, its command stays at the head of the queue.
CallInv ==
    /\ Idle => call = NoCall
    /\ InCall => /\ queue_ # <<>>
                 /\ event.kind \in {"submit", "replace"}
                 /\ id_generator_ < MaxOrders
                 /\ call.broker_id = PlacedId(call.answered)
                 /\ venue[call.broker_id] # None
                 /\ venue[call.broker_id].order = event.signal

\* The broker ids of the orders the engine knows are counted from one end, those
\* of the orders it will never know from the other, and they do not meet.
FreshInv ==
    /\ Lost = (MaxOrders - Cardinality(Lost)) .. (MaxOrders - 1)
    /\ broker_count + Cardinality(Lost) <= id_generator_
    /\ \A b \in BrokerIds : b < broker_count => venue[b] # None
    /\ \A b \in BrokerIds :
           venue[b] # None => b < broker_count \/ b \in Lost \/ (InCall /\ b = call.broker_id)
    /\ \A l \in Stored(order_store_) :
           order_store_[l].broker_id # None => order_store_[l].broker_id < broker_count

VenueInv == TrackingInv /\ VenueType /\ FeedType /\ CallInv /\ FreshInv

------------------------------------------------------------------------------
(* What may still be counted.                                               *)

\* i comes after e in the order in which the gateway reads.
NotOld(e, i) == e < i + Resent

WindowInv ==
    /\ seen_id_order_ \in Seq(Nat)
    /\ Len(seen_id_order_) <= kMaxSeenIds
    /\ \A i \in DOMAIN seen_id_order_ : seen_id_order_[i] \in DOMAIN executions
    /\ \A i, j \in DOMAIN seen_id_order_ :
           i < j => seen_id_order_[i] # seen_id_order_[j]
                    /\ NotOld(seen_id_order_[i], seen_id_order_[j])
    /\ \A i \in DOMAIN seen_id_order_, k \in DOMAIN fill_queue :
           fill_queue[k].id # NoId => NotOld(seen_id_order_[i], fill_queue[k].id)
    /\ \A k, m \in DOMAIN fill_queue :
           k < m /\ fill_queue[k].id # NoId /\ fill_queue[m].id # NoId =>
               NotOld(fill_queue[k].id, fill_queue[m].id)

Coming(i) == \E k \in DOMAIN fill_queue : fill_queue[k].id = i

ExecutionsOf(b) == {i \in DOMAIN executions : executions[i] = b}

Countable(b) ==
    {i \in ExecutionsOf(b) : ~Seen(i) /\ (i > Len(executions) - Resent \/ Coming(i))}

Executed(b) == IF venue[b] = None THEN 0 ELSE venue[b].executed

\* What the dispatch thread may still be given to count for an order.
ToCount(b) == QueuedFor(b) + Cardinality(Countable(b))

UnitReports ==
    \A i \in DOMAIN queue_ :
        queue_[i].kind = "report" /\ queue_[i].report.status = "NONE" =>
            queue_[i].report.filled_quantity = 1

RowCounted(l, b) ==
    order_store_[l] # None /\ order_store_[l].broker_id = b =>
        /\ order_store_[l].filled_quantity <= Executed(b)
        /\ IsMapped(l) => order_store_[l].filled_quantity + ToCount(b) <= Executed(b)

CountInv ==
    /\ UnitReports
    /\ \A b \in BrokerIds : /\ Cardinality(ExecutionsOf(b)) <= Executed(b)
                            /\ ToCount(b) <= Executed(b)
    /\ \A l \in LocalIds, b \in BrokerIds : RowCounted(l, b)

------------------------------------------------------------------------------
(* What stays reachable.                                                    *)

IsLive(b) == venue[b] # None /\ venue[b].live

Dead(b) == venue[b] # None /\ ~venue[b].live

\* An order that has been executed to the end is not live.
Unfinished ==
    \A b \in BrokerIds :
        IsLive(b) /\ venue[b].executed > 0 => venue[b].executed < venue[b].order.quantity

RowOrders ==
    \A l \in LocalIds, b \in BrokerIds :
        order_store_[l] # None /\ order_store_[l].broker_id = b =>
            order_store_[l].order = venue[b].order

\* The end of an order is reported after the fact: on the stream, in the queue.
EndsSent ==
    \A k \in DOMAIN fill_queue, b \in BrokerIds :
        fill_queue[k].id = NoId /\ fill_queue[k].report.broker_id = b => Dead(b)

EndsQueued ==
    \A i \in DOMAIN queue_, b \in BrokerIds :
        /\ queue_[i].kind = "report" /\ queue_[i].report.status # "NONE"
        /\ queue_[i].report.broker_id = b
        => Dead(b)

\* The venue has replaced the order before the engine records it.
ReplacedIsDead ==
    InCall /\ event.kind = "replace" =>
        /\ IsMapped(event.order_id)
        /\ \A b \in BrokerIds : get_broker_id(id_mapper_, event.order_id) = b => Dead(b)

OpenRow(l, b) ==
    /\ order_store_[l] # None
    /\ order_store_[l].status \in OpenStatus
    /\ order_store_[l].broker_id = b

Reached ==
    \A b \in BrokerIds :
        IsLive(b) /\ b \notin unrecorded =>
            (InCall /\ call.broker_id = b) \/ \E l \in LocalIds : OpenRow(l, b)

BrokerIdsWritten == "update_broker_id" \notin FaultyCalls

ReachInv ==
    /\ Unfinished
    /\ RowOrders
    /\ EndsSent
    /\ EndsQueued
    /\ ReplacedIsDead
    /\ BrokerIdsWritten => Reached

------------------------------------------------------------------------------
(* OpenStreamsAreFed.                                                       *)

\* The steps that touch neither the streams nor the registration.
StreamsUntouched == UNCHANGED <<handler, fill_queues, displaced, connection>>

LEMMA StreamsKept == StreamInv /\ StreamsUntouched => StreamInv'
BY DEF StreamInv, StreamsUntouched, OpenStreamsAreFed

\* run_fill_stream opens the next stream: it is the latest, and not active yet.
LEMMA OpenStreamInv ==
    ASSUME StreamInv, run_fill_stream
    PROVE  StreamInv'
<1>1. PICK n \in Streams :
          /\ handler[n] = "unused" /\ \A m \in 1 .. n - 1 : handler[m] # "unused"
          /\ handler' = [handler EXCEPT ![n] = "requested"]
          /\ connection' = n
  BY DEF run_fill_stream, Open
<1>2. UNCHANGED <<fill_queues, displaced>>
  BY DEF run_fill_stream, Open
<1>3. Streams \subseteq Nat /\ 0 \notin Streams /\ \A m \in Streams : m < n => m \in 1 .. n - 1
  BY StreamsAssumption DEF Streams
<1>4. /\ handler' \in [Streams -> {"unused", "requested", "active", "closed"}]
      /\ handler'[n] = "requested"
      /\ \A m \in Streams : m # n => handler'[m] = handler[m]
  BY <1>1 DEF StreamInv
<1>5. \A m \in Streams : m > n => handler[m] = "unused"
  BY <1>1 DEF StreamInv
<1>6. \A k, m \in Streams : k < m /\ handler'[k] = "unused" => handler'[m] = "unused"
  <2> SUFFICES ASSUME NEW k \in Streams, NEW m \in Streams, k < m, handler'[k] = "unused"
               PROVE  handler'[m] = "unused"
    OBVIOUS
  <2>1. k # n /\ handler[k] = "unused" /\ handler[m] = "unused"
    BY <1>4 DEF StreamInv
  <2>2. m # n
    BY <1>1, <1>3, <2>1
  <2> QED
    BY <1>4, <2>1, <2>2
<1>7. fill_queues' # NoStream => handler'[fill_queues'] # "unused"
  BY <1>2, <1>4 DEF StreamInv, NoStream
<1>8. /\ fill_queues' \in Streams \cup {NoStream}
      /\ displaced' \in BOOLEAN
      /\ connection' \in Streams \cup {NoStream}
      /\ handler'[connection'] # "unused"
      /\ \A m \in Streams : m > connection' => handler'[m] = "unused"
  <2>1. \A m \in Streams : m > n => m # n
    BY <1>3
  <2> QED
    BY <1>1, <1>2, <1>4, <1>5, <2>1 DEF StreamInv
<1>9. OpenStreamsAreFed'
  BY <1>1, <1>4 DEF OpenStreamsAreFed
<1> QED
  BY <1>4, <1>6, <1>7, <1>8, <1>9 DEF StreamInv

\* The handler of a stream registers its queue: if it is not the stream the
\* engine reads, it takes the place of a later one.
LEMMA RegisterInv ==
    ASSUME StreamInv, NEW n \in Streams, StreamFills(n) \/ (connection # n /\ CloseStream(n)),
           UNCHANGED connection
    PROVE  StreamInv'
<1>1. /\ handler[n] \in {"requested", "active"}
      /\ handler' = [handler EXCEPT ![n] = IF handler[n] = "requested" THEN "active"
                                           ELSE "closed"]
      /\ handler[n] = "active" => connection # n
      /\ fill_queues' = IF handler[n] = "requested" THEN n ELSE NoStream
      /\ displaced' = (displaced \/ fill_queues > n)
  BY DEF StreamFills, CloseStream, RegisterQueue
<1>2. /\ handler' \in [Streams -> {"unused", "requested", "active", "closed"}]
      /\ handler'[n] \in {"active", "closed"}
      /\ \A m \in Streams : m # n => handler'[m] = handler[m]
  BY <1>1 DEF StreamInv
<1>3. \A m \in Streams : handler'[m] = "unused" <=> handler[m] = "unused"
  BY <1>1, <1>2
<1>4. Streams \subseteq Nat /\ 0 \notin Streams
  BY StreamsAssumption DEF Streams
<1>5. /\ fill_queues' \in Streams \cup {NoStream}
      /\ fill_queues' # NoStream => handler'[fill_queues'] # "unused"
      /\ displaced' \in BOOLEAN
  BY <1>1, <1>2 DEF StreamInv
<1>6. OpenStreamsAreFed'
  <2> SUFFICES ASSUME connection # NoStream, handler'[connection] = "active", connection # n,
                      ~displaced'
               PROVE  FALSE
    BY <1>1, <1>2 DEF OpenStreamsAreFed, StreamInv
  <2>1. connection \in Streams /\ handler[connection] = "active"
    BY <1>2 DEF StreamInv
  <2>2. ~displaced /\ fill_queues = connection
    BY <1>1, <2>1 DEF StreamInv, OpenStreamsAreFed
  <2>3. n < connection
    BY <1>1, <1>4, <2>1 DEF StreamInv
  <2> QED
    BY <1>1, <1>4, <2>1, <2>2, <2>3
<1> QED
  BY <1>2, <1>3, <1>5, <1>6 DEF StreamInv

LEMMA StreamInvariant == AdapterTradingSpec => []StreamInv
<1>1. AdapterTradingInit => StreamInv
  BY StreamsAssumption DEF AdapterTradingInit, AdapterInit, GatewayInit, StreamInv,
                           OpenStreamsAreFed
<1>2. StreamInv /\ [AdapterTradingNext]_vars => StreamInv'
  <2> SUFFICES ASSUME StreamInv, [AdapterTradingNext]_vars PROVE StreamInv'
    OBVIOUS
  <2>1. CASE Commands \/ (\E answered \in BOOLEAN : Place(answered)) \/ RouteOrder
    BY <2>1, StreamsKept DEF Commands, Place, RouteOrder, Route, StreamsUntouched, gatewayVars,
                             adapterVars
  <2>2. CASE DispatchThread
    <3>1. UNCHANGED <<gatewayVars, adapterVars>>
      BY <2>2 DEF DispatchThread, AdapterSubmit, AdapterReplace, AdapterCancel,
                  AdapterCancelAll, NoEffect, Return, Cancels
    <3> QED
      BY <3>1, StreamsKept DEF StreamsUntouched, gatewayVars, adapterVars
  <2>3. CASE StreamLoop
    BY <2>3, OpenStreamInv DEF StreamLoop
  <2>4. CASE SkipDuplicate \/ DeliverReport
    BY <2>4, StreamsKept DEF SkipDuplicate, DeliverReport, ReadDuplicate, ReadNew, Read,
                             StreamsUntouched
  <2>5. CASE BreakLink \/ \E table \in Interrupted : Crash(table)
    <3>1. UNCHANGED <<handler, fill_queues, displaced>> /\ connection' = NoStream
      BY <2>5 DEF BreakLink, Disconnect, Crash
    <3> QED
      BY <3>1 DEF StreamInv, OpenStreamsAreFed
  <2>6. CASE HandleStream
    BY <2>6, RegisterInv DEF HandleStream, gatewayVars
  <2>7. CASE Venue
    BY <2>7, StreamsKept DEF Venue, Execute, EndOrder, Resend, Send, PutReport,
                             StreamsUntouched, gatewayVars
  <2>8. CASE UNCHANGED vars
    BY <2>8, StreamsKept DEF vars, StreamsUntouched, gatewayVars, adapterVars
  <2> QED
    BY <2>1, <2>2, <2>3, <2>4, <2>5, <2>6, <2>7, <2>8 DEF AdapterTradingNext
<1> QED
  BY <1>1, <1>2, PTL DEF AdapterTradingSpec

\* The stream the gateway reads is the one the adapter feeds, as long as no
\* handler of an earlier stream has run late (StreamFills and its finally clause
\* in base_adapter.py, run_fill_stream of GrpcGateway), for any number of
\* reconnections and crashes.
THEOREM StreamsFed == AdapterTradingSpec => []OpenStreamsAreFed
<1>1. StreamInv => OpenStreamsAreFed
  BY DEF StreamInv
<1> QED
  BY <1>1, StreamInvariant, PTL

------------------------------------------------------------------------------
(* What the handlers do to a row.                                           *)

\* Only the status differs.
Restated(old, new) ==
    /\ old # None /\ new # None
    /\ new.order = old.order
    /\ new.broker_id = old.broker_id
    /\ new.filled_quantity = old.filled_quantity

\* The row of a new order, known to the venue as broker_id if that is not None.
Entered(old, new, order, broker_id) ==
    /\ old = None /\ new # None
    /\ new.order = order
    /\ new.broker_id = broker_id
    /\ new.filled_quantity = 0

RowStep(l, closing) ==
    \/ order_store_'[l] = order_store_[l]
    \/ l \in closing /\ Restated(order_store_[l], order_store_'[l])
    \/ /\ l = id_generator_
       /\ Entered(order_store_[l], order_store_'[l], event.signal, None)
    \/ /\ l = id_generator_
       /\ Entered(order_store_[l], order_store_'[l], event.signal, broker_count)
       /\ order_store_'[l].status = "SUBMITTED"
       /\ broker_count' = broker_count + 1

LEMMA RestatedRow ==
    ASSUME NEW row \in StoredOrder, NEW s \in OrderStatus
    PROVE  Restated(row, [row EXCEPT !.status = s])
BY RestatusedRow, NoneIsNotARow DEF Restated

\* The rows whose status an UPDATE writes are restated, the others kept.
LEMMA UpdatedRows ==
    ASSUME NEW table \in Table, NEW ids \in SUBSET LocalIds, NEW s \in OrderStatus,
           NEW l \in LocalIds
    PROVE  \/ update_order_statuses(table, ids, s)[l] = table[l]
           \/ l \in ids /\ Restated(table[l], update_order_statuses(table, ids, s)[l])
<1>1. CASE l \in ids /\ table[l] # None
  <2>1. table[l] \in StoredOrder
    BY <1>1 DEF Table
  <2>2. update_order_statuses(table, ids, s)[l] = [table[l] EXCEPT !.status = s]
    BY <1>1 DEF update_order_statuses
  <2> QED
    BY <1>1, <2>1, <2>2, RestatedRow
<1>2. CASE ~(l \in ids /\ table[l] # None)
  BY <1>2 DEF update_order_statuses
<1> QED
  BY <1>1, <1>2

\* The tables handle_submit_command goes through before it writes a broker id.
LEMMA PendingTables ==
    ASSUME TrackingInv, queue_ # <<>>, event.kind = "submit", id_generator_ < MaxOrders,
           NEW s \in OrderStatus
    PROVE  /\ id_generator_ \in LocalIds
           /\ WithPendingRow \in Table
           /\ update_order_status(WithPendingRow, id_generator_, s) \in Table
           /\ event.signal \in Signals
           /\ \A l \in LocalIds \ {id_generator_} :
                  /\ WithPendingRow[l] = order_store_[l]
                  /\ update_order_status(WithPendingRow, id_generator_, s)[l] = order_store_[l]
           /\ Entered(order_store_[id_generator_], WithPendingRow[id_generator_],
                      event.signal, None)
           /\ Entered(order_store_[id_generator_],
                      update_order_status(WithPendingRow, id_generator_, s)[id_generator_],
                      event.signal, None)
           /\ update_order_status(WithPendingRow, id_generator_, s)[id_generator_].status = s
<1>1. /\ id_generator_ \in LocalIds
      /\ order_store_ \in Table
      /\ order_store_[id_generator_] = None
  BY FreshAndWorking, OrderIdsAssumption DEF TrackingInv, TypeOK, LocalIds
<1>2. event.signal \in Signals
  <2>1. queue_ \in Seq(Command \cup ReportEvent)
    BY DEF TrackingInv, TypeOK
  <2>2. event \in Command \cup ReportEvent
    BY <2>1 DEF event
  <2>3. event \in SubmitCommand
    BY <2>2 DEF Command, SubmitCommand, CancelCommand, ReplaceCommand, CancelAllCommand,
                ReportEvent
  <2> QED
    BY <2>3 DEF SubmitCommand
<1>3. PendingRow \in StoredOrder
  BY <1>2, NewRowType DEF PendingRow, OrderStatus
<1>4. WithPendingRow \in Table /\ WithPendingRow[id_generator_] = PendingRow
  BY <1>1, <1>3 DEF WithPendingRow, store_order, Table
<1>5. \A l \in LocalIds \ {id_generator_} : WithPendingRow[l] = order_store_[l]
  BY <1>1 DEF WithPendingRow, store_order, Table
<1>6. Entered(None, PendingRow, event.signal, None)
  BY <1>3, NoneIsNotARow DEF Entered, PendingRow, NewRow
<1> DEFINE submitted == update_order_status(WithPendingRow, id_generator_, s)
<1>7. submitted \in Table
  BY <1>1, <1>4, StoreStatementsType
<1>8. /\ \A l \in LocalIds \ {id_generator_} : submitted[l] = WithPendingRow[l]
      /\ submitted[id_generator_] = [PendingRow EXCEPT !.status = s]
  BY <1>1, <1>3, <1>4, NoneIsNotARow DEF update_order_status, update_order_statuses
<1>9. Restated(PendingRow, submitted[id_generator_]) /\ submitted[id_generator_].status = s
  BY <1>3, <1>8, RestatusedRow, NoneIsNotARow DEF Restated
<1>10. Entered(None, submitted[id_generator_], event.signal, None)
  BY <1>6, <1>9 DEF Entered, Restated
<1> QED
  BY <1>1, <1>2, <1>4, <1>5, <1>6, <1>7, <1>8, <1>9, <1>10

\* Writing the broker id completes the row of the new order.
LEMMA LinkedRow ==
    ASSUME TrackingInv, Dispatch("submit"), id_generator_ < MaxOrders, NEW b \in BrokerIds
    PROVE  LET submitted == update_order_status(WithPendingRow, id_generator_, "SUBMITTED")
               linked == update_broker_id(submitted, id_generator_, b)
           IN  /\ \A l \in LocalIds \ {id_generator_} : linked[l] = order_store_[l]
               /\ Entered(order_store_[id_generator_], linked[id_generator_], event.signal, b)
               /\ linked[id_generator_].status = "SUBMITTED"
<1> DEFINE submitted == update_order_status(WithPendingRow, id_generator_, "SUBMITTED")
           linked == update_broker_id(submitted, id_generator_, b)
           row == submitted[id_generator_]
<1>1. /\ id_generator_ \in LocalIds
      /\ submitted \in Table
      /\ \A l \in LocalIds \ {id_generator_} : submitted[l] = order_store_[l]
      /\ Entered(order_store_[id_generator_], row, event.signal, None)
      /\ row.status = "SUBMITTED"
  BY PendingTables DEF Dispatch, OrderStatus
<1> HIDE DEF submitted
<1>2. row \in StoredOrder
  BY <1>1 DEF Table, Entered
<1>3. /\ \A l \in LocalIds \ {id_generator_} : linked[l] = submitted[l]
      /\ linked[id_generator_] = [row EXCEPT !.broker_id = b]
  BY <1>1, <1>2, NoneIsNotARow DEF update_broker_id
<1> HIDE DEF linked
<1>4. linked[id_generator_] \in StoredOrder
  BY <1>2, <1>3 DEF StoredOrder
<1>5. /\ linked[id_generator_].order = row.order
      /\ linked[id_generator_].broker_id = b
      /\ linked[id_generator_].filled_quantity = row.filled_quantity
      /\ linked[id_generator_].status = row.status
  BY <1>2, <1>3 DEF StoredOrder
<1>6. Entered(order_store_[id_generator_], linked[id_generator_], event.signal, b)
  BY <1>1, <1>4, <1>5, NoneIsNotARow DEF Entered
<1> QED
  BY <1>1, <1>3, <1>5, <1>6 DEF linked, submitted

LEMMA SubmitRowStep ==
    ASSUME TrackingInv, NEW fail, handle_submit_command(fail)
    PROVE  \A l \in LocalIds : RowStep(l, {})
<1> SUFFICES ASSUME NEW l \in LocalIds PROVE RowStep(l, {})
  OBVIOUS
<1> DEFINE submitted == update_order_status(WithPendingRow, id_generator_, "SUBMITTED")
<1>1. CASE SubmitNotStored(fail)
  BY <1>1 DEF SubmitNotStored, RowStep
<1>2. CASE Dispatch("submit") /\ RecordRejection(fail)
  <2>1. id_generator_ < MaxOrders
    BY <1>2 DEF RecordRejection, Submitting
  <2>2. CASE order_store_' = WithPendingRow
    BY <1>2, <2>1, <2>2, PendingTables DEF RowStep, Dispatch, OrderStatus
  <2>3. CASE order_store_' = update_order_status(WithPendingRow, id_generator_, "REJECTED")
    BY <1>2, <2>1, <2>3, PendingTables DEF RowStep, Dispatch, OrderStatus
  <2> QED
    BY <1>2, <2>2, <2>3 DEF RecordRejection
<1>3. ASSUME NEW b \in BrokerIds, SubmitNotRecorded(fail, b)
      PROVE  RowStep(l, {})
  BY <1>3, PendingTables DEF RowStep, Dispatch, OrderStatus, SubmitNotRecorded, Submitting
<1>4. ASSUME NEW b \in BrokerIds, SubmitAccepted(fail, b)
      PROVE  RowStep(l, {})
  <2>1. /\ Dispatch("submit")
        /\ id_generator_ < MaxOrders
        /\ b = broker_count
        /\ broker_count' = broker_count + 1
        /\ \/ order_store_' = submitted
           \/ order_store_' = update_broker_id(submitted, id_generator_, broker_count)
    BY <1>4 DEF SubmitAccepted, Submitting
  <2>2. CASE order_store_' = submitted
    BY <2>1, <2>2, PendingTables DEF RowStep, Dispatch, OrderStatus
  <2>3. CASE order_store_' = update_broker_id(submitted, id_generator_, broker_count)
    <3>1. /\ \A k \in LocalIds \ {id_generator_} : order_store_'[k] = order_store_[k]
          /\ Entered(order_store_[id_generator_], order_store_'[id_generator_],
                     event.signal, broker_count)
          /\ order_store_'[id_generator_].status = "SUBMITTED"
      BY <2>1, <2>3, LinkedRow
    <3> QED
      BY <2>1, <3>1 DEF RowStep
  <2> QED
    BY <2>1, <2>2, <2>3
<1> QED
  BY <1>1, <1>2, <1>3, <1>4 DEF handle_submit_command, SubmitRefusedByRisk,
                                SubmitRejectedByGateway

LEMMA CancelRowStep ==
    ASSUME TrackingInv, NEW fail, handle_cancel_command(fail)
    PROVE  /\ event.order_id \in LocalIds
           /\ \A l \in LocalIds : RowStep(l, {event.order_id})
           /\ UNCHANGED order_store_ \/ CancelDone(fail)
<1>1. event.order_id \in LocalIds
  <2>1. Dispatch("cancel")
    BY DEF handle_cancel_command, CancelUnknown, CancelRefusedByGateway, Refuse,
           CancelNotRecorded, CancelDone
  <2> QED
    BY <2>1, EventType DEF CancelCommand, TrackingInv
<1>2. \/ UNCHANGED order_store_
      \/ CancelDone(fail)
         /\ order_store_' = update_order_statuses(order_store_, {event.order_id}, "CANCELLED")
  BY DEF handle_cancel_command, CancelUnknown, CancelRefusedByGateway, Refuse,
         CancelNotRecorded, CancelDone, update_order_status
<1>3. order_store_ \in Table /\ "CANCELLED" \in OrderStatus
  BY DEF TrackingInv, TypeOK, OrderStatus
<1> QED
  BY <1>1, <1>2, <1>3, UpdatedRows DEF RowStep

\* The orders table with the old order recorded as replaced.
LEMMA ReplacedRows ==
    ASSUME TrackingInv, event.order_id \in LocalIds, NEW l \in LocalIds
    PROVE  \/ ReplacedTable[l] = order_store_[l]
           \/ l = event.order_id /\ Restated(order_store_[l], ReplacedTable[l])
<1>1. order_store_ \in Table /\ "REPLACED" \in OrderStatus
  BY DEF TrackingInv, TypeOK, OrderStatus
<1>2. {event.order_id} \in SUBSET LocalIds
  OBVIOUS
<1> QED
  BY <1>1, <1>2, UpdatedRows DEF ReplacedTable, update_order_status

LEMMA ReplaceRowStep ==
    ASSUME TrackingInv, NEW fail, handle_replace_command(fail)
    PROVE  /\ event.order_id \in LocalIds
           /\ \A l \in LocalIds : RowStep(l, {event.order_id})
<1>1. event.order_id \in LocalIds /\ event.signal \in Signals
  <2>1. Dispatch("replace")
    BY DEF handle_replace_command, ReplaceUnknown, Refuse, ReplaceRejectedByGateway,
           ReplaceNotRecorded, ReplaceDone
  <2> QED
    BY <2>1, EventType DEF ReplaceCommand, TrackingInv
<1>2. ASSUME NEW l \in LocalIds PROVE RowStep(l, {event.order_id})
  <2>1. CASE UNCHANGED order_store_
    BY <2>1 DEF RowStep
  <2>2. CASE order_store_' = ReplacedTable
    BY <1>1, <2>2, ReplacedRows DEF RowStep
  <2>3. ASSUME NEW b \in BrokerIds, ReplaceDone(fail, b)
        PROVE  RowStep(l, {event.order_id})
    <3>1. /\ IsMapped(event.order_id)
          /\ id_generator_ < MaxOrders
          /\ b = broker_count
          /\ broker_count' = broker_count + 1
          /\ order_store_' = store_order(ReplacedTable, id_generator_, ReplacementRow(b))
      BY <2>3 DEF ReplaceDone, Replacing
    <3>2. /\ id_generator_ \in LocalIds
          /\ order_store_[id_generator_] = None
          /\ order_store_[event.order_id] # None
      BY <1>1, <3>1, FreshAndWorking, OrderIdsAssumption DEF TrackingInv, TypeOK, LocalIds
    <3>3. /\ ReplacementRow(b) # None
          /\ Entered(None, ReplacementRow(b), event.signal, broker_count)
          /\ ReplacementRow(b).status = "SUBMITTED"
      <4>1. ReplacementRow(b) \in StoredOrder
        BY <1>1, NewRowType DEF ReplacementRow, OrderStatus
      <4> QED
        BY <3>1, <4>1, NoneIsNotARow DEF ReplacementRow, NewRow, Entered
    <3>4. /\ order_store_'[id_generator_] = ReplacementRow(b)
          /\ l # id_generator_ => order_store_'[l] = ReplacedTable[l]
      BY <3>1, <3>2 DEF store_order, ReplacedTable, update_order_status, update_order_statuses
    <3> QED
      BY <1>1, <3>1, <3>2, <3>3, <3>4, ReplacedRows DEF RowStep
  <2> QED
    BY <2>1, <2>2, <2>3 DEF handle_replace_command, ReplaceUnknown, Refuse,
                            ReplaceRejectedByGateway, ReplaceNotRecorded
<1> QED
  BY <1>1, <1>2

LEMMA CancelAllRowStep ==
    ASSUME TrackingInv, NEW fail, NEW refused, NEW unrecordable,
           handle_cancel_all_command(fail, refused, unrecordable)
    PROVE  \A l \in LocalIds : RowStep(l, Reachable(fail) \ refused)
<1> DEFINE cancelled == Reachable(fail) \ (refused \cup unrecordable)
<1>1. order_store_' = update_order_statuses(order_store_, cancelled, "CANCELLED")
  BY DEF handle_cancel_all_command
<1>2. cancelled \in SUBSET LocalIds /\ cancelled \subseteq Reachable(fail) \ refused
  BY DEF Reachable, get_open_orders, Stored
<1>3. order_store_ \in Table /\ "CANCELLED" \in OrderStatus
  BY DEF TrackingInv, TypeOK, OrderStatus
<1> HIDE DEF cancelled
<1> QED
  BY <1>1, <1>2, <1>3, UpdatedRows DEF RowStep

\* A fill of qty units: the order stays open or is complete.
Credited(old, new, qty) ==
    /\ old # None /\ new # None
    /\ new.order = old.order
    /\ new.broker_id = old.broker_id
    /\ new.filled_quantity = old.filled_quantity + qty
    /\ new.status = IF fully_filled(old, qty) THEN "FILLED" ELSE "PARTIALLY_FILLED"

\* handle_fill credits the order the report is about.
Crediting ==
    /\ filled_local_id \in LocalIds
    /\ get_broker_id(id_mapper_, filled_local_id) = fill.broker_id
    /\ fill.status = "NONE"
    /\ Credited(order_store_[filled_local_id], order_store_'[filled_local_id],
                fill.filled_quantity)
    /\ \A l \in LocalIds \ {filled_local_id} : order_store_'[l] = order_store_[l]

\* handle_fill ends the order the report is about.
Ending ==
    /\ filled_local_id \in LocalIds
    /\ get_broker_id(id_mapper_, filled_local_id) = fill.broker_id
    /\ fill.status # "NONE"
    /\ \A l \in LocalIds : RowStep(l, {filled_local_id})

LEMMA FillRowStep ==
    ASSUME TrackingInv, NEW fail, handle_fill(fail)
    PROVE  Dispatch("report") /\ (UNCHANGED order_store_ \/ Ending \/ Crediting)
<1>1. Dispatch("report")
  BY DEF handle_fill, FillUnknown, FillTerminal, FillNotApplied, FillApplied
<1>2. /\ fill.broker_id \in BrokerIds
      /\ fill.filled_quantity \in Nat
      /\ fill.avg_fill_price \in Nat
      /\ fill.status \in {"NONE", "REJECTED", "CANCELLED"}
      /\ filled_local_id \in LocalIds \cup {None}
  BY <1>1, FillContext DEF TrackingInv
<1>3. /\ order_store_ \in Table
      /\ filled_local_id \in LocalIds =>
             get_broker_id(id_mapper_, filled_local_id) = fill.broker_id
  BY <1>2 DEF TrackingInv, TypeOK, MapperInverse, filled_local_id
<1>4. CASE FillUnknown \/ FillNotApplied(fail)
  BY <1>1, <1>4 DEF FillUnknown, FillNotApplied
<1>5. CASE FillTerminal(fail)
  <2>1. filled_local_id \in LocalIds /\ fill.status # "NONE" /\ fill.status \in OrderStatus
    BY <1>2, <1>5 DEF FillTerminal, OrderStatus
  <2>2. \/ UNCHANGED order_store_
        \/ order_store_' = update_order_statuses(order_store_, {filled_local_id}, fill.status)
    BY <1>5 DEF FillTerminal, Persisted, update_order_status
  <2>3. {filled_local_id} \in SUBSET LocalIds
    BY <2>1
  <2>4. \A l \in LocalIds : RowStep(l, {filled_local_id})
    BY <1>3, <2>1, <2>2, <2>3, UpdatedRows DEF RowStep
  <2> QED
    BY <1>1, <1>3, <2>1, <2>4 DEF Ending
<1>6. CASE FillApplied(fail)
  <2> DEFINE row == order_store_[filled_local_id]
             status == IF fully_filled(row, fill.filled_quantity) THEN "FILLED"
                       ELSE "PARTIALLY_FILLED"
  <2>1. /\ filled_local_id \in LocalIds
        /\ fill.status = "NONE"
        /\ row # None
        /\ \/ UNCHANGED order_store_
           \/ order_store_' = apply_fill(order_store_, filled_local_id, fill.filled_quantity,
                                         fill.avg_fill_price, status)
    BY <1>2, <1>6 DEF FillApplied, GetOrderFails, Persisted
  <2>2. row \in StoredOrder /\ status \in OrderStatus
    BY <1>3, <2>1 DEF Table, OrderStatus
  <2>3. CASE order_store_' = apply_fill(order_store_, filled_local_id, fill.filled_quantity,
                                        fill.avg_fill_price, status)
    <3> DEFINE new == FilledRow(row, fill.filled_quantity, fill.avg_fill_price, status)
    <3>1. /\ order_store_'[filled_local_id] = new
          /\ \A l \in LocalIds \ {filled_local_id} : order_store_'[l] = order_store_[l]
      BY <2>1, <2>3 DEF apply_fill
    <3>2. new \in StoredOrder
      BY <1>2, <2>2, FilledRowType
    <3>3. /\ new.order = row.order
          /\ new.broker_id = row.broker_id
          /\ new.filled_quantity = row.filled_quantity + fill.filled_quantity
          /\ new.status = status
      BY <2>2 DEF FilledRow, StoredOrder
    <3> HIDE DEF new
    <3>4. Credited(row, new, fill.filled_quantity)
      BY <2>1, <3>2, <3>3, NoneIsNotARow DEF Credited
    <3> QED
      BY <1>1, <1>3, <2>1, <3>1, <3>4 DEF Crediting
  <2> QED
    BY <1>1, <2>1, <2>3
<1> QED
  BY <1>4, <1>5, <1>6 DEF handle_fill

\* No handler maps an order other than the one it has generated the id of.
LEMMA MapStep ==
    ASSUME TrackingInv, run_dispatch_loop, NEW l \in LocalIds, l # id_generator_
    PROVE  get_broker_id(id_mapper_', l) \in {None, get_broker_id(id_mapper_, l)}
<1>1. ASSUME NEW m, NEW gone
      PROVE  get_broker_id(remove_mappings(m, gone), l) \in {None, get_broker_id(m, l)}
  BY DEF remove_mappings, get_broker_id
<1>2. ASSUME NEW m, DOMAIN m.local_to_broker_ = LocalIds, NEW b
      PROVE  get_broker_id(add_mapping(m, id_generator_, b), l) = get_broker_id(m, l)
  BY <1>2 DEF add_mapping, get_broker_id
<1>3. ASSUME NEW gone
      PROVE  DOMAIN (remove_mappings(id_mapper_, gone)).local_to_broker_ = LocalIds
  BY DEF remove_mappings
<1>4. DOMAIN id_mapper_.local_to_broker_ = LocalIds
  BY DEF TrackingInv, TypeOK, Mapper
<1>5. ASSUME NEW fail, handle_submit_command(fail)
      PROVE  get_broker_id(id_mapper_', l) \in {None, get_broker_id(id_mapper_, l)}
  <2>1. \/ UNCHANGED id_mapper_
        \/ \E b : id_mapper_' = add_mapping(id_mapper_, id_generator_, b)
    BY <1>5 DEF handle_submit_command, SubmitNotStored, SubmitRefusedByRisk,
                SubmitRejectedByGateway, RecordRejection, SubmitNotRecorded, SubmitAccepted
  <2> QED
    BY <1>2, <1>4, <2>1
<1>6. ASSUME NEW fail, handle_cancel_command(fail)
      PROVE  get_broker_id(id_mapper_', l) \in {None, get_broker_id(id_mapper_, l)}
  BY <1>1, <1>6 DEF handle_cancel_command, CancelUnknown, CancelRefusedByGateway, Refuse,
                    CancelNotRecorded, CancelDone, Cancelling, remove_mapping
<1>7. ASSUME NEW fail, handle_replace_command(fail)
      PROVE  get_broker_id(id_mapper_', l) \in {None, get_broker_id(id_mapper_, l)}
  <2>1. \/ UNCHANGED id_mapper_
        \/ id_mapper_' = remove_mappings(id_mapper_, {event.order_id})
        \/ \E b : id_mapper_' = add_mapping(remove_mappings(id_mapper_, {event.order_id}),
                                            id_generator_, b)
    BY <1>7 DEF handle_replace_command, ReplaceUnknown, Refuse, ReplaceRejectedByGateway,
                ReplaceNotRecorded, ReplaceDone, remove_mapping
  <2> QED
    BY <1>1, <1>2, <1>3, <2>1
<1>8. ASSUME NEW fail, NEW refused, NEW unrecordable,
             handle_cancel_all_command(fail, refused, unrecordable)
      PROVE  get_broker_id(id_mapper_', l) \in {None, get_broker_id(id_mapper_, l)}
  BY <1>1, <1>8 DEF handle_cancel_all_command
<1>9. ASSUME NEW fail, handle_fill(fail)
      PROVE  get_broker_id(id_mapper_', l) \in {None, get_broker_id(id_mapper_, l)}
  BY <1>1, <1>9 DEF handle_fill, FillUnknown, FillTerminal, FillNotApplied, FillApplied,
                    remove_mapping
<1> QED
  BY <1>5, <1>6, <1>7, <1>8, <1>9 DEF run_dispatch_loop

------------------------------------------------------------------------------
(* Broker ids.                                                              *)

LEMMA Numbers ==
    ASSUME VenueInv
    PROVE  /\ IsFiniteSet(Lost) /\ Cardinality(Lost) \in Nat
           /\ broker_count \in Nat /\ id_generator_ \in Nat /\ MaxOrders \in Nat
           /\ id_generator_ <= MaxOrders
           /\ BrokerIds \subseteq Nat /\ LocalIds \subseteq Nat
           /\ None \notin BrokerIds
<1>1. IsFiniteSet(BrokerIds)
  BY OrderIdsAssumption, FS_Interval DEF BrokerIds
<1>2. Lost \in SUBSET BrokerIds
  BY DEF Lost, VenueInv, VenueType
<1>3. IsFiniteSet(Lost) /\ Cardinality(Lost) \in Nat
  BY <1>1, <1>2, FS_Subset, FS_CardinalityType
<1> QED
  BY <1>3, OrderIdsAssumption DEF BrokerIds, LocalIds, VenueInv, TrackingInv, TypeOK

\* As long as there is a local id left there is a broker id for the next order,
\* from either end, and it is not in use.
LEMMA PlaceFacts ==
    ASSUME VenueInv, id_generator_ < MaxOrders, NEW answered \in BOOLEAN
    PROVE  /\ PlacedId(answered) \in BrokerIds
           /\ PlacedId(answered) >= broker_count
           /\ PlacedId(answered) \notin Lost
           /\ answered => PlacedId(answered) = broker_count
           /\ ~answered => PlacedId(answered) = MaxOrders - 1 - Cardinality(Lost)
           /\ broker_count + Cardinality(Lost) < MaxOrders
<1>1. /\ Cardinality(Lost) \in Nat
      /\ broker_count \in Nat /\ id_generator_ \in Nat /\ MaxOrders \in Nat
  BY Numbers
<1>2. /\ answered => PlacedId(answered) = broker_count
      /\ ~answered => PlacedId(answered) = MaxOrders - 1 - Cardinality(Lost)
  BY DEF PlacedId, Lost
<1>3. Lost = (MaxOrders - Cardinality(Lost)) .. (MaxOrders - 1)
  BY DEF VenueInv, FreshInv
<1>4. broker_count + Cardinality(Lost) <= id_generator_
  BY DEF VenueInv, FreshInv
<1>5. broker_count + Cardinality(Lost) < MaxOrders
  BY <1>1, <1>4
<1> QED
  BY <1>1, <1>2, <1>3, <1>5 DEF BrokerIds

\* The dispatch thread runs the handlers of the order manager.
LEMMA HandlersRun ==
    ASSUME VenueInv
    PROVE  /\ \A fail \in SUBSET SubmitFaults :
                  AdapterSubmit(fail) => handle_submit_command(fail)
           /\ \A fail \in SUBSET ReplaceFaults :
                  AdapterReplace(fail) => handle_replace_command(fail)
           /\ \A fail \in SUBSET CancelFaults :
                  AdapterCancel(fail) => handle_cancel_command(fail)
<1>1. InCall /\ call.answered => call.broker_id \in BrokerIds
  <2>1. call.answered \in BOOLEAN
    BY DEF VenueInv, VenueType
  <2> QED
    BY <2>1, PlaceFacts DEF VenueInv, CallInv
<1>2. call.stage = "routed" => InCall
  BY DEF InCall, Idle
<1>3. ASSUME NEW fail \in SUBSET SubmitFaults, AdapterSubmit(fail)
      PROVE  handle_submit_command(fail)
  BY <1>1, <1>2, <1>3 DEF AdapterSubmit, handle_submit_command
<1>4. ASSUME NEW fail \in SUBSET ReplaceFaults, AdapterReplace(fail)
      PROVE  handle_replace_command(fail)
  BY <1>1, <1>2, <1>4 DEF AdapterReplace, handle_replace_command
<1>5. ASSUME NEW fail \in SUBSET CancelFaults, AdapterCancel(fail)
      PROVE  handle_cancel_command(fail)
  BY <1>5 DEF AdapterCancel, handle_cancel_command
<1> QED
  BY <1>3, <1>4, <1>5

LEMMA DispatchRuns ==
    ASSUME VenueInv, DispatchThread
    PROVE  run_dispatch_loop
BY HandlersRun DEF DispatchThread, AdapterCancelAll, run_dispatch_loop

\* Every step but a crash is a step of the order manager, or none: the reports
\* the stream carries are well formed.
LEMMA ManagerSteps ==
    ASSUME VenueInv, [AdapterTradingNext]_vars, ~\E table \in Interrupted : Crash(table)
    PROVE  [Next]_omVars
<1>1. CASE Commands
  BY <1>1 DEF Commands, Next
<1>2. CASE \/ \E answered \in BOOLEAN : Place(answered)
           \/ RouteOrder \/ StreamLoop \/ SkipDuplicate \/ BreakLink \/ HandleStream
           \/ Venue \/ UNCHANGED vars
  <2>1. UNCHANGED omVars
    BY <1>2 DEF Place, RouteOrder, StreamLoop, SkipDuplicate, BreakLink, HandleStream, Venue,
                Execute, EndOrder, Resend, vars
  <2> QED
    BY <2>1
<1>3. CASE DispatchThread
  BY <1>3, DispatchRuns DEF Next
<1>4. CASE DeliverReport
  <2>1. PICK r \in Range(fill_queue) : ReadNew(r) /\ GatewayReport(r.report)
    BY <1>4 DEF DeliverReport
  <2>2. r \in FillReports
    <3>1. fill_queue \in Seq(FillReports) /\ fill_queue # <<>> /\ r = Head(fill_queue)
      BY <2>1 DEF ReadNew, Read, VenueInv, FeedType
    <3> QED
      BY <3>1
  <2>3. r.report \in Reports
    BY <2>2 DEF FillReports
  <2> QED
    BY <2>1, <2>3 DEF AnyGatewayStep, Next
<1> QED
  BY <1>1, <1>2, <1>3, <1>4 DEF AdapterTradingNext

------------------------------------------------------------------------------
(* The venue keeps the orders it has.                                       *)

OrdersKept ==
    \A b \in BrokerIds :
        venue[b] # None => venue'[b] # None /\ venue'[b].order = venue[b].order

NoNewOrders == \A b \in BrokerIds : venue[b] = None => venue'[b] = None

\* Cancelling orders ends them and changes nothing else.
LEMMA KillEffect ==
    ASSUME VenueType, NEW orders
    PROVE  /\ Kill(orders) \in [BrokerIds -> VenueOrders \cup {None}]
           /\ \A b \in BrokerIds :
                  /\ Kill(orders)[b] = None <=> venue[b] = None
                  /\ venue[b] # None => /\ Kill(orders)[b].order = venue[b].order
                                        /\ Kill(orders)[b].executed = venue[b].executed
                                        /\ Kill(orders)[b].live => venue[b].live /\ b \notin orders
<1>1. ASSUME NEW b \in BrokerIds, venue[b] # None
      PROVE  /\ Kill(orders)[b] \in VenueOrders
             /\ Kill(orders)[b].order = venue[b].order
             /\ Kill(orders)[b].executed = venue[b].executed
             /\ Kill(orders)[b].live => venue[b].live /\ b \notin orders
  <2>1. venue[b] \in VenueOrders
    BY <1>1 DEF VenueType
  <2>2. CASE b \in orders
    <3>1. Kill(orders)[b] = [venue[b] EXCEPT !.live = FALSE]
      BY <1>1, <2>2 DEF Kill
    <3> QED
      BY <2>1, <3>1 DEF VenueOrders
  <2>3. CASE b \notin orders
    <3>1. Kill(orders)[b] = venue[b]
      BY <2>3 DEF Kill
    <3> QED
      BY <2>1, <2>3, <3>1
  <2> QED
    BY <2>2, <2>3
<1>2. ASSUME NEW b \in BrokerIds, venue[b] = None
      PROVE  Kill(orders)[b] = None
  BY <1>2 DEF Kill
<1>3. Kill(orders) \in [BrokerIds -> VenueOrders \cup {None}]
  BY <1>1, <1>2 DEF Kill
<1> QED
  BY <1>1, <1>2, <1>3, NoneIsNotAVenueOrder

LEMMA KillKeeps ==
    ASSUME VenueType, NEW orders, venue' = Kill(orders)
    PROVE  /\ venue' \in [BrokerIds -> VenueOrders \cup {None}]
           /\ OrdersKept /\ NoNewOrders
BY KillEffect DEF OrdersKept, NoNewOrders

------------------------------------------------------------------------------
(* What the stream carries stays well formed.                               *)

LEMMA FeedKept ==
    ASSUME FeedType, OrdersKept, UNCHANGED executions,
           fill_queue' = fill_queue \/ fill_queue' = <<>>
               \/ (fill_queue # <<>> /\ fill_queue' = Tail(fill_queue))
    PROVE  FeedType'
<1>1. /\ executions' \in Seq(BrokerIds)
      /\ \A i \in DOMAIN executions : executions[i] \in BrokerIds
  BY DEF FeedType
<1>2. \A i \in DOMAIN executions' : /\ venue'[executions'[i]] # None
                                    /\ venue'[executions'[i]].order.quantity >= 1
  BY <1>1 DEF FeedType, OrdersKept
<1>3. \A r : Carried(r) => Carried(r)'
  BY DEF Carried
<1>4. CASE fill_queue' = fill_queue
  BY <1>1, <1>2, <1>3, <1>4 DEF FeedType
<1>5. CASE fill_queue' = <<>>
  BY <1>1, <1>2, <1>5 DEF FeedType
<1>6. CASE fill_queue # <<>> /\ fill_queue' = Tail(fill_queue)
  <2>1. fill_queue' \in Seq(FillReports)
    BY <1>6 DEF FeedType
  <2>2. \A k \in DOMAIN fill_queue' : k + 1 \in DOMAIN fill_queue
                                      /\ fill_queue'[k] = fill_queue[k + 1]
    BY <1>6 DEF FeedType
  <2>3. (\A k \in DOMAIN fill_queue : Carried(fill_queue[k]))'
    BY <1>3, <2>2 DEF FeedType
  <2> QED
    BY <1>1, <1>2, <2>1, <2>3 DEF FeedType
<1> QED
  BY <1>4, <1>5, <1>6

\* The venue sends a report.
LEMMA FeedSent ==
    ASSUME FeedType, OrdersKept, NEW r \in FillReports, Carried(r)',
           fill_queue' = fill_queue \/ fill_queue' = Append(fill_queue, r),
           \/ UNCHANGED executions
           \/ \E b \in BrokerIds : /\ executions' = Append(executions, b)
                                   /\ venue'[b] # None
                                   /\ venue'[b].order.quantity >= 1
    PROVE  FeedType'
<1>1. /\ executions' \in Seq(BrokerIds)
      /\ \A i \in DOMAIN executions : /\ executions[i] \in BrokerIds
                                      /\ i \in DOMAIN executions'
                                      /\ executions'[i] = executions[i]
  BY DEF FeedType
<1>2. \A i \in DOMAIN executions' : /\ venue'[executions'[i]] # None
                                    /\ venue'[executions'[i]].order.quantity >= 1
  <2>1. CASE UNCHANGED executions
    BY <1>1, <2>1 DEF FeedType, OrdersKept
  <2>2. ASSUME NEW b \in BrokerIds, executions' = Append(executions, b), venue'[b] # None,
               venue'[b].order.quantity >= 1
        PROVE  \A i \in DOMAIN executions' : /\ venue'[executions'[i]] # None
                                             /\ venue'[executions'[i]].order.quantity >= 1
    <3>1. \A i \in DOMAIN executions' : i \in DOMAIN executions \/ executions'[i] = b
      BY <2>2 DEF FeedType
    <3> QED
      BY <1>1, <2>2, <3>1 DEF FeedType, OrdersKept
  <2> QED
    BY <2>1, <2>2
<1>3. \A x : Carried(x) => Carried(x)'
  BY <1>1 DEF Carried
<1>4. fill_queue' \in Seq(FillReports)
  BY SMTT(30) DEF FeedType
<1>5. \A k \in DOMAIN fill_queue' :
          (k \in DOMAIN fill_queue /\ fill_queue'[k] = fill_queue[k]) \/ fill_queue'[k] = r
  BY SMTT(30) DEF FeedType
<1>6. (\A k \in DOMAIN fill_queue : Carried(fill_queue[k]))'
  BY <1>3, <1>5 DEF FeedType
<1> QED
  BY <1>1, <1>2, <1>4, <1>6 DEF FeedType

LEMMA ReportType ==
    ASSUME VenueType, NEW b \in BrokerIds, venue[b] # None, NEW qty \in 0 .. 1,
           qty <= venue[b].order.quantity, NEW status \in {"NONE", "CANCELLED"}
    PROVE  Report(b, qty, status) \in Reports
<1>1. venue[b].order \in Signals
  BY DEF VenueType, VenueOrders
<1>2. venue[b].order.quantity \in Quantities /\ venue[b].order.quantity \in Nat
  BY <1>1, SignalAssumption DEF Signals
<1>3. qty \in FillQuantity
  BY <1>2 DEF FillQuantity
<1>4. (CHOOSE p \in Prices : TRUE) \in Prices
  BY VenueAssumption
<1> QED
  BY <1>1, <1>3, <1>4 DEF Report, Reports, Signals

------------------------------------------------------------------------------
(* The calls and the broker ids.                                            *)

\* Every broker id in the table is below n.
BrokersBelow(table, n) ==
    \A l \in LocalIds : table[l] # None /\ table[l].broker_id # None => table[l].broker_id < n

LEMMA RowBrokers ==
    ASSUME VenueInv, run_dispatch_loop
    PROVE  /\ broker_count' \in {broker_count, broker_count + 1}
           /\ BrokersBelow(order_store_', broker_count')
<1>1. broker_count' \in {broker_count, broker_count + 1}
  <2>1. ASSUME NEW fail, handle_submit_command(fail)
        PROVE  broker_count' \in {broker_count, broker_count + 1}
    BY <2>1 DEF handle_submit_command, SubmitNotStored, SubmitRefusedByRisk,
                SubmitRejectedByGateway, RecordRejection, SubmitNotRecorded, SubmitAccepted
  <2>2. ASSUME NEW fail, handle_replace_command(fail)
        PROVE  broker_count' \in {broker_count, broker_count + 1}
    BY <2>2 DEF handle_replace_command, ReplaceUnknown, Refuse, ReplaceRejectedByGateway,
                ReplaceNotRecorded, ReplaceDone
  <2>3. ASSUME NEW fail, handle_cancel_command(fail)
        PROVE  broker_count' = broker_count
    BY <2>3 DEF handle_cancel_command, CancelUnknown, CancelRefusedByGateway, Refuse,
                CancelNotRecorded, CancelDone, Cancelling
  <2>4. ASSUME NEW fail, handle_fill(fail)
        PROVE  broker_count' = broker_count
    BY <2>4 DEF handle_fill, FillUnknown, FillTerminal, FillNotApplied, FillApplied
  <2> QED
    BY <2>1, <2>2, <2>3, <2>4 DEF run_dispatch_loop, handle_cancel_all_command
<1>2. /\ broker_count \in Nat
      /\ \A l \in LocalIds : order_store_[l] # None /\ order_store_[l].broker_id # None =>
             order_store_[l].broker_id < broker_count /\ order_store_[l].broker_id \in Nat
  <2>1. \A l \in LocalIds : order_store_[l] # None => order_store_[l] \in StoredOrder
    BY DEF VenueInv, TrackingInv, TypeOK, Table
  <2> QED
    BY <2>1, Numbers DEF VenueInv, FreshInv, Stored, StoredOrder
<1>3. \A l \in LocalIds : order_store_[l] # None /\ order_store_[l].broker_id # None =>
          order_store_[l].broker_id < broker_count'
  BY <1>1, <1>2
<1>4. TrackingInv
  BY DEF VenueInv
<1>5. ASSUME NEW closing, \A l \in LocalIds : RowStep(l, closing)
      PROVE  BrokersBelow(order_store_', broker_count')
  <2> SUFFICES ASSUME NEW l \in LocalIds, order_store_'[l] # None,
                      order_store_'[l].broker_id # None
               PROVE  order_store_'[l].broker_id < broker_count'
    BY DEF BrokersBelow
  <2>1. CASE order_store_'[l] = order_store_[l] \/ Restated(order_store_[l], order_store_'[l])
    BY <1>3, <2>1 DEF Restated
  <2>2. CASE order_store_'[l].broker_id = broker_count /\ broker_count' = broker_count + 1
    BY <1>2, <2>2
  <2> QED
    BY <1>5, <2>1, <2>2 DEF RowStep, Entered
<1>6. ASSUME NEW fail, handle_fill(fail)
      PROVE  BrokersBelow(order_store_', broker_count')
  <2>1. UNCHANGED order_store_ \/ Ending \/ Crediting
    BY <1>4, <1>6, FillRowStep
  <2>2. CASE UNCHANGED order_store_
    BY <1>3, <2>2 DEF BrokersBelow
  <2>3. CASE Ending
    BY <1>5, <2>3 DEF Ending
  <2>4. CASE Crediting
    BY <1>3, <2>4 DEF Crediting, Credited, BrokersBelow
  <2> QED
    BY <2>1, <2>2, <2>3, <2>4
<1>7. BrokersBelow(order_store_', broker_count')
  BY <1>4, <1>5, <1>6, SubmitRowStep, CancelRowStep, ReplaceRowStep, CancelAllRowStep
  DEF run_dispatch_loop
<1> QED
  BY <1>1, <1>7

LEMMA RowsBelow ==
    ASSUME VenueInv
    PROVE  BrokersBelow(order_store_, broker_count)
BY DEF VenueInv, FreshInv, BrokersBelow, Stored

\* No call begins or ends.
LEMMA CallGoesOn ==
    ASSUME VenueInv, UNCHANGED <<broker_count, unrecorded>>,
           call'.broker_id = call.broker_id, call'.answered = call.answered,
           call'.stage = "none" <=> call.stage = "none",
           Idle => call' = call,
           InCall => queue_' # <<>> /\ Head(queue_') = Head(queue_) /\ id_generator_' = id_generator_,
           id_generator_' \in Nat, id_generator_' >= id_generator_,
           OrdersKept, NoNewOrders,
           BrokersBelow(order_store_', broker_count)
    PROVE  CallInv' /\ FreshInv'
<1>1. InCall' <=> InCall
  BY DEF InCall, Idle
<1>2. Lost' = Lost
  BY DEF Lost
<1>4. InCall => call.broker_id \in BrokerIds
  <2>1. call.answered \in BOOLEAN
    BY DEF VenueInv, VenueType
  <2> QED
    BY <2>1, PlaceFacts DEF VenueInv, CallInv
<1>5. CallInv'
  <2>1. Idle' => call' = NoCall
    BY <1>1 DEF VenueInv, CallInv, InCall
  <2>2. InCall => event' = event
    BY DEF event
  <2>4. InCall => /\ venue'[call'.broker_id] # None
                  /\ venue'[call'.broker_id].order = event'.signal
    BY <1>4, <2>2 DEF VenueInv, CallInv, OrdersKept
  <2>6. InCall => call'.broker_id = (PlacedId(call.answered))'
    BY DEF VenueInv, CallInv, PlacedId
  <2> QED
    BY <1>1, <2>1, <2>2, <2>4, <2>6 DEF VenueInv, CallInv
<1>6. FreshInv'
  <2>1. Lost' = (MaxOrders - Cardinality(Lost')) .. (MaxOrders - 1)
    BY <1>2 DEF VenueInv, FreshInv
  <2>2. broker_count' + Cardinality(Lost') <= id_generator_'
    <3>1. broker_count + Cardinality(Lost) <= id_generator_
      BY DEF VenueInv, FreshInv
    <3> QED
      BY <1>2, <3>1, Numbers
  <2>3. \A b \in BrokerIds : b < broker_count' => venue'[b] # None
    BY DEF VenueInv, FreshInv, OrdersKept
  <2>4. \A b \in BrokerIds : venue'[b] # None =>
            b < broker_count' \/ b \in Lost' \/ (InCall' /\ b = call'.broker_id)
    BY <1>1, <1>2 DEF VenueInv, FreshInv, NoNewOrders
  <2>5. \A l \in Stored(order_store_') :
            order_store_'[l].broker_id # None => order_store_'[l].broker_id < broker_count'
    BY DEF BrokersBelow, Stored
  <2> QED
    BY <2>1, <2>2, <2>3, <2>4, <2>5 DEF FreshInv
<1> QED
  BY <1>5, <1>6

\* A call ends, with its handler or with the process.
LEMMA CallEnds ==
    ASSUME VenueInv, InCall, call' = NoCall, UNCHANGED venue,
           id_generator_' = id_generator_ + 1,
           broker_count' = IF call.answered THEN broker_count + 1 ELSE broker_count,
           \/ unrecorded' = unrecorded \cup {call.broker_id}
           \/ call.answered /\ unrecorded' = unrecorded,
           BrokersBelow(order_store_', broker_count')
    PROVE  /\ CallInv' /\ FreshInv'
           /\ unrecorded' \subseteq BrokerIds
<1>1. /\ IsFiniteSet(Lost) /\ Cardinality(Lost) \in Nat
      /\ broker_count \in Nat /\ id_generator_ \in Nat /\ MaxOrders \in Nat
      /\ BrokerIds \subseteq Nat
  BY Numbers
<1>2. call.answered \in BOOLEAN /\ unrecorded \subseteq BrokerIds
  BY DEF VenueInv, VenueType
<1>3. /\ id_generator_ < MaxOrders
      /\ call.broker_id = PlacedId(call.answered)
      /\ venue[call.broker_id] # None
  BY DEF VenueInv, CallInv
<1>4. /\ call.broker_id \in BrokerIds
      /\ call.broker_id >= broker_count
      /\ call.broker_id \notin Lost
      /\ call.answered => call.broker_id = broker_count
      /\ ~call.answered => call.broker_id = MaxOrders - 1 - Cardinality(Lost)
      /\ broker_count + Cardinality(Lost) < MaxOrders
  BY <1>2, <1>3, PlaceFacts
<1>5. Lost = (MaxOrders - Cardinality(Lost)) .. (MaxOrders - 1)
  BY DEF VenueInv, FreshInv
<1>6. broker_count + Cardinality(Lost) <= id_generator_
  BY DEF VenueInv, FreshInv
<1>7. unrecorded' \subseteq BrokerIds
  BY <1>2, <1>4
<1>8. ~InCall' /\ CallInv'
  BY DEF CallInv, InCall, Idle, NoCall
<1>9. /\ Lost' = (MaxOrders - Cardinality(Lost')) .. (MaxOrders - 1)
      /\ broker_count' + Cardinality(Lost') <= id_generator_'
      /\ \A b \in BrokerIds : b < broker_count \/ b \in Lost \/ b = call.broker_id =>
                                  b < broker_count' \/ b \in Lost'
      /\ \A b \in BrokerIds : b < broker_count' => b < broker_count \/ b = call.broker_id
  <2>1. CASE call.answered
    <3>1. \A b \in Lost : b >= broker_count + 1
      BY <1>1, <1>4, <1>5
    <3>2. Lost' = Lost
      <4>1. \A b \in unrecorded' : b \in unrecorded \/ b = broker_count
        BY <1>4, <2>1
      <4>2. \A b \in unrecorded : b \in Nat /\ b \in unrecorded'
        BY <1>1, <1>2
      <4>3. \A b : b \in Lost' <=> b \in unrecorded' /\ b >= broker_count + 1
        BY <2>1 DEF Lost
      <4>4. \A b : b \in Lost <=> b \in unrecorded /\ b >= broker_count
        BY DEF Lost
      <4>5. ~(broker_count >= broker_count + 1)
        BY <1>1
      <4>6. \A b \in unrecorded : b >= broker_count + 1 => b >= broker_count
        BY <1>1, <4>2
      <4>7. \A b : b \in Lost' <=> b \in Lost
        BY <3>1, <4>1, <4>2, <4>3, <4>4, <4>5, <4>6
      <4> QED
        BY <4>7
    <3> HIDE DEF Lost
    <3> QED
      BY <1>1, <1>4, <1>5, <1>6, <2>1, <3>2
  <2>2. CASE ~call.answered
    <3>1. Lost' = Lost \cup {call.broker_id}
      BY <1>4, <2>2 DEF Lost
    <3>2. Cardinality(Lost') = Cardinality(Lost) + 1
      BY <1>1, <1>4, <3>1, FS_AddElement
    <3> HIDE DEF Lost
    <3>3. PICK j \in Nat : j = Cardinality(Lost)
      BY <1>1
    <3>4. call.broker_id = MaxOrders - 1 - j /\ Lost = (MaxOrders - j) .. (MaxOrders - 1)
      BY <1>4, <1>5, <2>2, <3>3
    <3>5. Lost' = (MaxOrders - (j + 1)) .. (MaxOrders - 1)
      BY <1>1, <3>1, <3>4
    <3> QED
      BY SMTT(30), <1>1, <1>4, <1>6, <2>2, <3>1, <3>2, <3>3, <3>5
  <2> QED
    BY <1>2, <2>1, <2>2
<1>10. FreshInv'
  <2>1. \A b \in BrokerIds : b < broker_count' => venue'[b] # None
    BY <1>3, <1>9 DEF VenueInv, FreshInv
  <2>2. \A b \in BrokerIds : venue'[b] # None => b < broker_count' \/ b \in Lost'
    BY <1>9 DEF VenueInv, FreshInv
  <2>3. \A l \in Stored(order_store_') :
            order_store_'[l].broker_id # None => order_store_'[l].broker_id < broker_count'
    BY DEF BrokersBelow, Stored
  <2> QED
    BY <1>9, <2>1, <2>2, <2>3 DEF FreshInv
<1> QED
  BY <1>7, <1>8, <1>10

\* A call begins: the venue has not used the broker id before.
LEMMA CallBegins ==
    ASSUME VenueInv, NEW answered \in BOOLEAN, Place(answered)
    PROVE  /\ call.stage = "none"
           /\ PlacedId(answered) \in BrokerIds
           /\ venue[PlacedId(answered)] = None
           /\ event.kind \in {"submit", "replace"}
           /\ event.signal \in Signals
           /\ venue' \in [BrokerIds -> VenueOrders \cup {None}]
           /\ venue'[PlacedId(answered)] = NewOrder(event.signal)
           /\ NewOrder(event.signal) \in VenueOrders
           /\ \A b \in BrokerIds \ {PlacedId(answered)} : venue'[b] = Kill(ReplacedId)[b]
<1>1. /\ call.stage = "none" /\ ~InCall
      /\ id_generator_ < MaxOrders
      /\ queue_ # <<>>
      /\ event.kind \in {"submit", "replace"}
      /\ venue' = [Kill(ReplacedId) EXCEPT ![PlacedId(answered)] = NewOrder(event.signal)]
  BY DEF Place, Idle, InCall
<1>2. /\ PlacedId(answered) \in BrokerIds
      /\ PlacedId(answered) >= broker_count
      /\ PlacedId(answered) \notin Lost
  BY <1>1, PlaceFacts
<1>3. venue[PlacedId(answered)] = None
  BY <1>1, <1>2, Numbers DEF VenueInv, FreshInv
<1>4. event.signal \in Signals
  <2>1. queue_ \in Seq(Command \cup ReportEvent)
    BY DEF VenueInv, TrackingInv, TypeOK
  <2>2. event \in Command \cup ReportEvent
    BY <1>1, <2>1 DEF event
  <2>3. event \in SubmitCommand \cup ReplaceCommand
    BY <1>1, <2>2 DEF Command, SubmitCommand, CancelCommand, ReplaceCommand, CancelAllCommand,
                ReportEvent
  <2> QED
    BY <2>3 DEF SubmitCommand, ReplaceCommand
<1>5. NewOrder(event.signal) \in VenueOrders
  BY <1>4 DEF NewOrder, VenueOrders
<1>6. Kill(ReplacedId) \in [BrokerIds -> VenueOrders \cup {None}]
  BY KillEffect DEF VenueInv
<1> QED
  BY <1>1, <1>2, <1>3, <1>4, <1>5, <1>6

------------------------------------------------------------------------------
(* VenueInv is inductive.                                                   *)

VenueRest == VenueType /\ FeedType /\ CallInv /\ FreshInv

\* A step that touches neither the venue nor the table; it may append to the
\* queue of events and take from the stream.
Quiet ==
    /\ UNCHANGED <<call, venue, executions, unrecorded, broker_count, id_generator_,
                   order_store_, id_mapper_>>
    /\ queue_' = queue_ \/ \E e \in Command \cup ReportEvent : queue_' = Append(queue_, e)
    /\ \/ fill_queue' = fill_queue
       \/ fill_queue' = <<>>
       \/ fill_queue # <<>> /\ fill_queue' = Tail(fill_queue)

LEMMA QuietStep ==
    ASSUME VenueInv, Quiet
    PROVE  VenueRest'
<1> USE DEF Quiet
<1>1. OrdersKept /\ NoNewOrders
  BY DEF OrdersKept, NoNewOrders
<1>2. FeedType'
  BY <1>1, FeedKept DEF VenueInv
<1>3. VenueType'
  BY DEF VenueInv, VenueType
<1>4. queue_ # <<>> => queue_' # <<>> /\ Head(queue_') = Head(queue_)
  <2>1. queue_ \in Seq(Command \cup ReportEvent)
    BY DEF VenueInv, TrackingInv, TypeOK
  <2> QED
    BY <2>1
<1>5. id_generator_' \in Nat /\ id_generator_' >= id_generator_
  BY Numbers
<1>6. InCall => queue_ # <<>>
  BY DEF VenueInv, CallInv
<1>7. BrokersBelow(order_store_', broker_count)
  BY RowsBelow
<1>8. CallInv' /\ FreshInv'
  BY <1>1, <1>4, <1>5, <1>6, <1>7, CallGoesOn
<1> QED
  BY <1>2, <1>3, <1>8 DEF VenueRest

LEMMA PlaceStep ==
    ASSUME VenueInv, NEW answered \in BOOLEAN, Place(answered)
    PROVE  VenueRest'
<1> DEFINE new == PlacedId(answered)
<1>1. /\ new \in BrokerIds
      /\ venue[new] = None
      /\ event.kind \in {"submit", "replace"}
      /\ venue' \in [BrokerIds -> VenueOrders \cup {None}]
      /\ venue'[new] = NewOrder(event.signal)
      /\ NewOrder(event.signal) \in VenueOrders
      /\ \A b \in BrokerIds \ {new} : venue'[b] = Kill(ReplacedId)[b]
  BY CallBegins
<1>2. /\ call' = [stage |-> "placed", broker_id |-> new, answered |-> answered]
      /\ queue_ # <<>> /\ id_generator_ < MaxOrders
      /\ UNCHANGED <<queue_, id_generator_, order_store_, broker_count, executions, unrecorded,
                     fill_queue>>
  BY DEF Place, omVars, adapterVars
<1>3. OrdersKept /\ \A b \in BrokerIds \ {new} : venue[b] = None => venue'[b] = None
  BY <1>1, KillEffect DEF OrdersKept, VenueInv
<1>4. FeedType'
  BY <1>2, <1>3, FeedKept DEF VenueInv
<1>5. VenueType'
  <2>1. new \in Nat
    BY <1>1, Numbers
  <2> HIDE DEF new
  <2> QED
    BY <1>1, <1>2, <2>1 DEF VenueType, VenueInv
<1>6. /\ event' = event
      /\ new = (PlacedId(answered))'
      /\ Lost' = Lost
  BY <1>2 DEF event, PlacedId, Lost
<1>7. CallInv'
  <2>1. PlacedId(call.answered)' = new
    BY <1>2, <1>6 DEF PlacedId
  <2>2. call'.stage = "placed" /\ call'.broker_id = new
    BY <1>2
  <2>3. venue'[new] # None /\ venue'[new].order = event.signal
    <3>1. NewOrder(event.signal).order = event.signal
      BY DEF NewOrder
    <3> HIDE DEF new
    <3> QED
      BY <1>1, <3>1, NoneIsNotAVenueOrder
  <2> HIDE DEF new
  <2> QED
    BY <1>1, <1>2, <1>6, <2>1, <2>2, <2>3 DEF CallInv, Idle, InCall
<1>8. FreshInv'
  <2>1. InCall' /\ call'.broker_id = new
    BY <1>2 DEF InCall, Idle
  <2>2. ~InCall
    BY DEF Place, InCall
  <2>3. \A b \in BrokerIds : b < broker_count => venue'[b] # None
    BY <1>3 DEF VenueInv, FreshInv, OrdersKept
  <2>4. \A b \in BrokerIds : venue'[b] # None => b < broker_count \/ b \in Lost \/ b = new
    BY <1>3, <2>2 DEF VenueInv, FreshInv
  <2> HIDE DEF new
  <2> QED
    BY <1>2, <1>6, <2>1, <2>3, <2>4 DEF VenueInv, FreshInv
<1> QED
  BY <1>4, <1>5, <1>7, <1>8 DEF VenueRest

LEMMA RouteStep ==
    ASSUME VenueInv, RouteOrder
    PROVE  VenueRest'
<1>1. /\ call.stage = "placed"
      /\ call' = [call EXCEPT !.stage = "routed"]
      /\ UNCHANGED <<queue_, id_generator_, order_store_, broker_count, venue, executions,
                     unrecorded, fill_queue>>
  BY DEF RouteOrder, Route, omVars
<1>2. /\ call' \in [stage : {"none", "placed", "routed"}, broker_id : Nat, answered : BOOLEAN]
      /\ call'.stage = "routed"
      /\ call'.broker_id = call.broker_id
      /\ call'.answered = call.answered
  BY <1>1 DEF VenueInv, VenueType
<1>3. OrdersKept /\ NoNewOrders
  BY <1>1 DEF OrdersKept, NoNewOrders
<1>4. FeedType'
  BY <1>1, <1>3, FeedKept DEF VenueInv
<1>5. VenueType'
  BY <1>1, <1>2 DEF VenueInv, VenueType
<1>6. InCall /\ ~Idle /\ queue_ # <<>>
  BY <1>1 DEF VenueInv, CallInv, InCall, Idle
<1>7. id_generator_' \in Nat /\ id_generator_' >= id_generator_
  BY <1>1, Numbers
<1>8. BrokersBelow(order_store_', broker_count)
  BY <1>1, RowsBelow
<1>9. CallInv' /\ FreshInv'
  BY <1>1, <1>2, <1>3, <1>6, <1>7, <1>8, CallGoesOn
<1> QED
  BY <1>4, <1>5, <1>9 DEF VenueRest

LEMMA GeneratorStep ==
    ASSUME run_dispatch_loop
    PROVE  id_generator_' \in {id_generator_, id_generator_ + 1}
<1>1. ASSUME NEW fail, handle_submit_command(fail)
      PROVE  id_generator_' = id_generator_ + 1
  BY <1>1 DEF handle_submit_command, SubmitNotStored, SubmitRefusedByRisk, generate, Submitting,
              SubmitRejectedByGateway, RecordRejection, SubmitNotRecorded, SubmitAccepted
<1>2. ASSUME NEW fail, handle_replace_command(fail)
      PROVE  id_generator_' \in {id_generator_, id_generator_ + 1}
  BY <1>2 DEF handle_replace_command, ReplaceUnknown, Refuse, ReplaceRejectedByGateway,
              ReplaceNotRecorded, ReplaceDone, Replacing, generate
<1>3. ASSUME NEW fail, handle_cancel_command(fail)
      PROVE  id_generator_' = id_generator_
  BY <1>3 DEF handle_cancel_command, CancelUnknown, CancelRefusedByGateway, Refuse,
              CancelNotRecorded, CancelDone, Cancelling
<1>4. ASSUME NEW fail, handle_fill(fail)
      PROVE  id_generator_' = id_generator_
  BY <1>4 DEF handle_fill, FillUnknown, FillTerminal, FillNotApplied, FillApplied
<1> QED
  BY <1>1, <1>2, <1>3, <1>4 DEF run_dispatch_loop, handle_cancel_all_command

\* A handler that makes no call, or a cancellation.
LEMMA IdleHandler ==
    ASSUME VenueInv, Idle, run_dispatch_loop, broker_count' = broker_count,
           UNCHANGED <<call, executions, unrecorded, fill_queue>>,
           UNCHANGED venue \/ \E orders : venue' = Kill(orders)
    PROVE  VenueRest'
<1>1. /\ venue' \in [BrokerIds -> VenueOrders \cup {None}]
      /\ OrdersKept /\ NoNewOrders
  <2>1. CASE UNCHANGED venue
    BY <2>1 DEF OrdersKept, NoNewOrders, VenueInv, VenueType
  <2> QED
    BY <2>1, KillKeeps DEF VenueInv
<1>2. FeedType'
  BY <1>1, FeedKept DEF VenueInv
<1>3. VenueType'
  BY <1>1 DEF VenueInv, VenueType
<1>4. id_generator_' \in Nat /\ id_generator_' >= id_generator_
  BY Numbers, GeneratorStep
<1>5. BrokersBelow(order_store_', broker_count)
  BY RowBrokers
<1>6. ~InCall
  BY DEF InCall
<1>7. CallInv' /\ FreshInv'
  BY <1>1, <1>4, <1>5, <1>6, CallGoesOn
<1> QED
  BY <1>2, <1>3, <1>7 DEF VenueRest

\* A handler that goes on after a call.
LEMMA ReturnStep ==
    ASSUME VenueInv, run_dispatch_loop, NEW lost, Return(lost), call.stage = "routed",
           id_generator_' = id_generator_ + 1,
           broker_count' = IF call.answered THEN broker_count + 1 ELSE broker_count,
           lost = {call.broker_id} \/ (call.answered /\ lost = {})
    PROVE  VenueRest'
<1>1. InCall
  BY DEF InCall, Idle
<1>2. /\ call' = NoCall
      /\ unrecorded' = unrecorded \cup lost
      /\ UNCHANGED <<venue, executions, fill_queue>>
  BY DEF Return, adapterVars
<1>3. \/ unrecorded' = unrecorded \cup {call.broker_id}
      \/ call.answered /\ unrecorded' = unrecorded
  BY <1>2
<1>4. BrokersBelow(order_store_', broker_count')
  BY RowBrokers
<1>5. CallInv' /\ FreshInv' /\ unrecorded' \subseteq BrokerIds
  BY <1>1, <1>2, <1>3, <1>4, CallEnds
<1>6. OrdersKept
  BY <1>2 DEF OrdersKept
<1>7. FeedType'
  BY <1>2, <1>6, FeedKept DEF VenueInv
<1>8. VenueType'
  BY <1>2, <1>5 DEF VenueInv, VenueType, NoCall
<1> QED
  BY <1>5, <1>7, <1>8 DEF VenueRest

LEMMA DispatchStep ==
    ASSUME VenueInv, DispatchThread
    PROVE  VenueRest'
<1>1. run_dispatch_loop
  BY DispatchRuns
<1>2. InCall => event.kind \in {"submit", "replace"}
  BY DEF VenueInv, CallInv
<1>3. NoEffect => UNCHANGED <<call, executions, unrecorded, fill_queue, venue>>
  BY DEF NoEffect, venueVars, adapterVars
<1>4. ASSUME NEW fail \in SUBSET SubmitFaults, AdapterSubmit(fail)
      PROVE  VenueRest'
  <2>1. CASE Idle /\ NoEffect /\ broker_count' = broker_count
    BY <1>1, <1>3, <2>1, IdleHandler
  <2>2. CASE /\ call.stage = "routed" /\ ~call.answered
             /\ SubmitRejectedByGateway(fail) /\ Return({call.broker_id})
    <3>1. id_generator_' = id_generator_ + 1 /\ broker_count' = broker_count
      BY <2>2 DEF SubmitRejectedByGateway, RecordRejection, Submitting, generate
    <3> QED
      BY <1>1, <2>2, <3>1, ReturnStep
  <2>3. CASE /\ call.stage = "routed" /\ call.answered
             /\ SubmitNotRecorded(fail, call.broker_id) /\ Return({call.broker_id})
    <3>1. id_generator_' = id_generator_ + 1 /\ broker_count' = broker_count + 1
      BY <2>3 DEF SubmitNotRecorded, Submitting, generate
    <3> QED
      BY <1>1, <2>3, <3>1, ReturnStep
  <2>4. CASE /\ call.stage = "routed" /\ call.answered
             /\ SubmitAccepted(fail, call.broker_id) /\ Return({})
    <3>1. id_generator_' = id_generator_ + 1 /\ broker_count' = broker_count + 1
      BY <2>4 DEF SubmitAccepted, Submitting, generate
    <3> QED
      BY <1>1, <2>4, <3>1, ReturnStep
  <2> QED
    BY <1>4, <2>1, <2>2, <2>3, <2>4 DEF AdapterSubmit, SubmitNotStored, SubmitRefusedByRisk,
                                        SubmitRejectedByGateway, RecordRejection
<1>5. ASSUME NEW fail \in SUBSET ReplaceFaults, AdapterReplace(fail)
      PROVE  VenueRest'
  <2>1. CASE Idle /\ NoEffect /\ broker_count' = broker_count
    BY <1>1, <1>3, <2>1, IdleHandler
  <2>2. CASE /\ call.stage = "routed" /\ ~call.answered
             /\ ReplaceRejectedByGateway /\ Return({call.broker_id})
    <3>1. id_generator_' = id_generator_ + 1 /\ broker_count' = broker_count
      BY <2>2 DEF ReplaceRejectedByGateway, Replacing, generate
    <3> QED
      BY <1>1, <2>2, <3>1, ReturnStep
  <2>3. CASE /\ call.stage = "routed" /\ call.answered
             /\ ReplaceNotRecorded(fail, call.broker_id) /\ Return({call.broker_id})
    <3>1. id_generator_' = id_generator_ + 1 /\ broker_count' = broker_count + 1
      BY <2>3 DEF ReplaceNotRecorded, Replacing, generate
    <3> QED
      BY <1>1, <2>3, <3>1, ReturnStep
  <2>4. CASE /\ call.stage = "routed" /\ call.answered
             /\ ReplaceDone(fail, call.broker_id) /\ Return({})
    <3>1. id_generator_' = id_generator_ + 1 /\ broker_count' = broker_count + 1
      BY <2>4 DEF ReplaceDone, Replacing, generate
    <3> QED
      BY <1>1, <2>4, <3>1, ReturnStep
  <2> QED
    BY <1>5, <2>1, <2>2, <2>3, <2>4 DEF AdapterReplace, ReplaceUnknown, Refuse,
                                        ReplaceRejectedByGateway
<1>6. ASSUME NEW kind \in {"cancel", "cancel_all", "report"}, Dispatch(kind)
      PROVE  Idle
  BY <1>2, <1>6 DEF Dispatch, InCall
<1>7. ASSUME NEW fail \in SUBSET CancelFaults, AdapterCancel(fail)
      PROVE  VenueRest'
  <2>1. Dispatch("cancel") /\ broker_count' = broker_count
    BY <1>7 DEF AdapterCancel, CancelUnknown, CancelRefusedByGateway, Refuse,
                CancelNotRecorded, CancelDone, Cancelling
  <2>2. /\ UNCHANGED <<call, executions, unrecorded, fill_queue>>
        /\ UNCHANGED venue \/ \E orders : venue' = Kill(orders)
    BY <1>3, <1>7 DEF AdapterCancel, Cancels, adapterVars
  <2> QED
    BY <1>1, <1>6, <2>1, <2>2, IdleHandler
<1>8. ASSUME NEW fail, NEW refused, NEW unanswered, NEW unrecordable,
             AdapterCancelAll(fail, refused, unanswered, unrecordable)
      PROVE  VenueRest'
  <2>1. Dispatch("cancel_all") /\ broker_count' = broker_count
    BY <1>8 DEF AdapterCancelAll, handle_cancel_all_command
  <2>2. /\ UNCHANGED <<call, executions, unrecorded, fill_queue>>
        /\ \E orders : venue' = Kill(orders)
    BY <1>8 DEF AdapterCancelAll, Cancels, adapterVars
  <2> QED
    BY <1>1, <1>6, <2>1, <2>2, IdleHandler
<1>9. ASSUME NEW fail \in SUBSET FillFaults, handle_fill(fail), NoEffect
      PROVE  VenueRest'
  <2>1. Dispatch("report") /\ broker_count' = broker_count
    BY <1>9 DEF handle_fill, FillUnknown, FillTerminal, FillNotApplied, FillApplied
  <2> QED
    BY <1>1, <1>3, <1>6, <1>9, <2>1, IdleHandler
<1> QED
  BY <1>4, <1>5, <1>7, <1>8, <1>9 DEF DispatchThread

\* What an execution does to the orders of the venue.
LEMMA ExecuteEffect ==
    ASSUME VenueType, NEW b \in BrokerIds, Execute(b)
    PROVE  /\ venue' \in [BrokerIds -> VenueOrders \cup {None}]
           /\ venue[b] # None /\ venue[b].live
           /\ venue[b] \in VenueOrders /\ venue'[b] \in VenueOrders
           /\ venue[b].executed \in Nat /\ venue[b].order.quantity \in Nat
           /\ venue[b].executed < venue[b].order.quantity
           /\ venue'[b] # None
           /\ venue'[b].order = venue[b].order
           /\ venue'[b].executed = venue[b].executed + 1
           /\ venue'[b].live = (venue[b].executed + 1 < venue[b].order.quantity)
           /\ \A c \in BrokerIds \ {b} : venue'[c] = venue[c]
<1>1. /\ venue[b] # None /\ venue[b].live
      /\ venue[b].executed < venue[b].order.quantity
      /\ venue' = [venue EXCEPT ![b].executed = @ + 1,
                                ![b].live = venue[b].executed + 1 < venue[b].order.quantity]
  BY DEF Execute, Live
<1>2. venue \in [BrokerIds -> VenueOrders \cup {None}] /\ venue[b] \in VenueOrders
  BY <1>1 DEF VenueType
<1>3. /\ venue[b].order \in Signals /\ venue[b].executed \in Nat
      /\ venue[b].order.quantity \in Nat
  BY <1>2, SignalAssumption DEF VenueOrders, Signals
<1> DEFINE more == [venue[b] EXCEPT !.executed = @ + 1]
           last == venue[b].executed + 1 < venue[b].order.quantity
           new == [more EXCEPT !.live = last]
<1>4. /\ more \in VenueOrders
      /\ more.order = venue[b].order
      /\ more.executed = venue[b].executed + 1
  BY <1>2, <1>3 DEF VenueOrders
<1>5. last \in BOOLEAN
  OBVIOUS
<1>6. venue'[b] = new /\ \A c \in BrokerIds \ {b} : venue'[c] = venue[c]
  BY <1>1, <1>2
<1>7. venue' = [c \in BrokerIds |-> IF c = b THEN new ELSE venue[c]]
  BY <1>1, <1>2
<1> HIDE DEF more, last
<1>8. /\ new \in VenueOrders
      /\ new.order = more.order
      /\ new.executed = more.executed
      /\ new.live = last
  BY <1>4, <1>5 DEF VenueOrders
<1> HIDE DEF new
<1>9. venue' \in [BrokerIds -> VenueOrders \cup {None}]
  BY <1>2, <1>7, <1>8
<1> QED
  BY <1>1, <1>2, <1>3, <1>4, <1>6, <1>8, <1>9, NoneIsNotAVenueOrder DEF last

\* The venue: each of its reports is about an order it has.
LEMMA VenueStep ==
    ASSUME VenueInv, Venue
    PROVE  VenueRest'
<1>1. /\ UNCHANGED <<queue_, id_generator_, order_store_, broker_count, call, unrecorded>>
  BY DEF Venue, Execute, EndOrder, Resend, omVars
<1>2. InCall => queue_ # <<>>
  BY DEF VenueInv, CallInv
<1>3. id_generator_' \in Nat /\ id_generator_' >= id_generator_
  BY <1>1, Numbers
<1>4. BrokersBelow(order_store_', broker_count)
  BY <1>1, RowsBelow
<1>5. ASSUME OrdersKept, NoNewOrders, FeedType', venue' \in [BrokerIds -> VenueOrders \cup {None}]
      PROVE  VenueRest'
  <2>1. CallInv' /\ FreshInv'
    BY <1>1, <1>2, <1>3, <1>4, <1>5, CallGoesOn
  <2>2. VenueType'
    BY <1>1, <1>5 DEF VenueInv, VenueType
  <2> QED
    BY <1>5, <2>1, <2>2 DEF VenueRest
<1>6. ASSUME NEW id, NEW b, NEW qty, NEW status, Send(id, b, qty, status)
      PROVE  \/ fill_queue' = fill_queue
             \/ fill_queue' = Append(fill_queue, [id |-> id, report |-> Report(b, qty, status)])
  BY <1>6 DEF Send, PutReport
<1>7. VenueType /\ FeedType
  BY DEF VenueInv
<1>8. ASSUME NEW b \in BrokerIds, Execute(b)
      PROVE  VenueRest'
  <2>1. /\ venue' \in [BrokerIds -> VenueOrders \cup {None}]
        /\ venue[b] # None /\ venue'[b] # None
        /\ venue[b].executed \in Nat /\ venue[b].order.quantity \in Nat
        /\ venue[b].executed < venue[b].order.quantity
        /\ venue'[b].order = venue[b].order
        /\ \A c \in BrokerIds \ {b} : venue'[c] = venue[c]
    BY <1>7, <1>8, ExecuteEffect
  <2>2. OrdersKept /\ NoNewOrders
    BY <2>1 DEF OrdersKept, NoNewOrders
  <2> DEFINE n == Len(executions) + 1
             r == [id |-> n, report |-> Report(b, 1, "NONE")]
  <2>3. /\ executions' = Append(executions, b)
        /\ executions \in Seq(BrokerIds)
        /\ Len(executions') = n
        /\ n \in Nat /\ n \in DOMAIN executions' /\ executions'[n] = b
    BY <1>7, <1>8 DEF Execute, FeedType
  <2>4. Report(b, 1, "NONE") \in Reports
    BY <1>7, <2>1, ReportType
  <2>5. fill_queue' = fill_queue \/ fill_queue' = Append(fill_queue, r)
    BY <1>6, <1>8, <2>3 DEF Execute
  <2>6. /\ Report(b, 1, "NONE").broker_id = b
        /\ Report(b, 1, "NONE").status = "NONE"
        /\ Report(b, 1, "NONE").filled_quantity = 1
    BY DEF Report
  <2>7. PICK x : x = r
    OBVIOUS
  <2>8. /\ x \in FillReports /\ x.id = n
        /\ x.report.broker_id = b /\ x.report.status = "NONE"
        /\ x.report.filled_quantity = 1
    BY <2>3, <2>4, <2>6, <2>7 DEF FillReports
  <2>9. fill_queue' = fill_queue \/ fill_queue' = Append(fill_queue, x)
    BY <2>5, <2>7
  <2> HIDE DEF n, r
  <2>10. Carried(x)'
    BY <2>3, <2>8 DEF Carried
  <2>11. venue'[b].order.quantity >= 1
    BY <2>1
  <2>12. FeedType'
    BY <1>7, <2>1, <2>2, <2>3, <2>8, <2>9, <2>10, <2>11, FeedSent
  <2> QED
    BY <1>5, <2>1, <2>2, <2>12
<1>9. ASSUME NEW b \in BrokerIds, EndOrder(b, "CANCELLED")
      PROVE  VenueRest'
  <2>1. /\ b \in Live
        /\ venue' = Kill({b})
        /\ UNCHANGED executions
        /\ Send(NoId, b, 0, "CANCELLED")
    BY <1>9 DEF EndOrder
  <2>2. /\ venue' \in [BrokerIds -> VenueOrders \cup {None}]
        /\ OrdersKept /\ NoNewOrders
    BY <1>7, <2>1, KillKeeps
  <2>3. venue[b] # None /\ venue[b].order.quantity \in Nat
    BY <1>7, <2>1, SignalAssumption DEF Live, VenueType, VenueOrders, Signals
  <2>4. Report(b, 0, "CANCELLED") \in Reports
    BY <1>7, <2>3, ReportType
  <2>5. PICK r : r = [id |-> NoId, report |-> Report(b, 0, "CANCELLED")]
    OBVIOUS
  <2>6. r \in FillReports /\ r.id = NoId /\ r.report.status = "CANCELLED"
    BY <2>4, <2>5 DEF FillReports, Report
  <2>7. fill_queue' = fill_queue \/ fill_queue' = Append(fill_queue, r)
    BY <1>6, <2>1, <2>5
  <2>8. Carried(r)'
    BY <2>6 DEF Carried
  <2>9. FeedType'
    BY <1>7, <2>1, <2>2, <2>6, <2>7, <2>8, FeedSent
  <2> QED
    BY <1>5, <2>2, <2>9
<1>10. ASSUME NEW id \in DOMAIN executions, Resend(id)
       PROVE  VenueRest'
  <2> DEFINE b == executions[id]
  <2>1. /\ UNCHANGED <<executions, venue>>
        /\ Send(id, b, 1, "NONE")
    BY <1>10 DEF Resend
  <2>2. /\ venue' \in [BrokerIds -> VenueOrders \cup {None}]
        /\ OrdersKept /\ NoNewOrders
    BY <1>7, <2>1 DEF VenueType, OrdersKept, NoNewOrders
  <2>3. /\ b \in BrokerIds /\ id \in Nat
        /\ venue[b] # None /\ venue[b].order.quantity >= 1
    BY <1>7, <1>10 DEF FeedType
  <2>4. Report(b, 1, "NONE") \in Reports
    BY <1>7, <2>3, ReportType
  <2>5. PICK r : r = [id |-> id, report |-> Report(b, 1, "NONE")]
    OBVIOUS
  <2>6. /\ r \in FillReports /\ r.id = id
        /\ r.report.status = "NONE" /\ r.report.filled_quantity = 1
        /\ r.report.broker_id = b
    BY <2>3, <2>4, <2>5 DEF FillReports, Report
  <2>7. fill_queue' = fill_queue \/ fill_queue' = Append(fill_queue, r)
    BY <1>6, <2>1, <2>5
  <2>8. Carried(r)'
    BY <1>10, <2>1, <2>6 DEF Carried
  <2>9. FeedType'
    BY <1>7, <2>1, <2>2, <2>6, <2>7, <2>8, FeedSent
  <2> QED
    BY <1>5, <2>2, <2>9
<1> QED
  BY <1>8, <1>9, <1>10 DEF Venue

------------------------------------------------------------------------------
(* A crash.                                                                 *)

\* The table a crash leaves holds the rows it held, and possibly the one of the
\* order in the call, without a broker id.
LEMMA CrashRows ==
    ASSUME VenueInv, NEW table \in Interrupted, Crash(table)
    PROVE  /\ order_store_' \in Table
           /\ \A l \in LocalIds :
                  \/ order_store_'[l] = order_store_[l]
                  \/ /\ InCall /\ event.kind = "replace"
                     /\ event.order_id \in LocalIds /\ l = event.order_id
                     /\ Restated(order_store_[l], order_store_'[l])
                  \/ /\ InCall /\ event.kind = "submit" /\ l = id_generator_
                     /\ Entered(order_store_[l], order_store_'[l], event.signal, None)
<1>1. TrackingInv /\ order_store_ \in Table
  BY DEF VenueInv, TrackingInv, TypeOK
<1>2. order_store_' = table /\ table \in Interrupted
  BY DEF Crash
<1>3. CASE Idle
  <2>1. table = order_store_
    BY <1>2, <1>3 DEF Interrupted, InCall
  <2> QED
    BY <1>1, <1>2, <2>1
<1>4. CASE InCall /\ event.kind = "submit"
  <2>1. queue_ # <<>> /\ id_generator_ < MaxOrders
    BY <1>4 DEF VenueInv, CallInv
  <2>2. \/ table = WithPendingRow
        \/ table = update_order_status(WithPendingRow, id_generator_, "SUBMITTED")
    BY <1>2, <1>4 DEF Interrupted, InCall
  <2>3. "SUBMITTED" \in OrderStatus
    BY DEF OrderStatus
  <2> QED
    BY <1>1, <1>2, <1>4, <2>1, <2>2, <2>3, PendingTables
<1>5. CASE InCall /\ event.kind = "replace"
  <2>1. queue_ # <<>>
    BY <1>5 DEF VenueInv, CallInv
  <2>2. event.order_id \in LocalIds
    <3>1. queue_ \in Seq(Command \cup ReportEvent)
      BY DEF VenueInv, TrackingInv, TypeOK
    <3>2. event \in Command \cup ReportEvent
      BY <2>1, <3>1 DEF event
    <3>3. event \in ReplaceCommand
      BY <1>5, <3>2 DEF Command, SubmitCommand, CancelCommand, ReplaceCommand,
                        CancelAllCommand, ReportEvent
    <3> QED
      BY <3>3 DEF ReplaceCommand
  <2>3. table = order_store_ \/ table = ReplacedTable
    BY <1>2, <1>5 DEF Interrupted, InCall
  <2>4. ReplacedTable \in Table
    BY <1>1, <2>2, StoreStatementsType DEF ReplacedTable, OrderStatus
  <2> QED
    BY <1>1, <1>2, <1>5, <2>2, <2>3, <2>4, ReplacedRows
<1> QED
  BY <1>3, <1>4, <1>5 DEF VenueInv, CallInv, InCall

LEMMA CrashStep ==
    ASSUME VenueInv, NEW table \in Interrupted, Crash(table)
    PROVE  VenueInv'
<1>1. /\ id_generator_' = IF InCall THEN id_generator_ + 1 ELSE id_generator_
      /\ broker_count' = IF call.answered THEN broker_count + 1 ELSE broker_count
      /\ unrecorded' = IF InCall THEN unrecorded \cup {call.broker_id} ELSE unrecorded
      /\ call' = NoCall
      /\ queue_' = <<>>
      /\ waiting' = {}
      /\ id_mapper_' = EmptyMapper
      /\ open_order_count_' = 0
      /\ positions_' = [s \in Symbols |-> FlatPosition]
      /\ fill_sink_' = FALSE
      /\ fill_queue' = <<>>
      /\ UNCHANGED <<journal_, streamed, phase, venue, executions>>
  BY DEF Crash
<1>2. /\ order_store_' \in Table
      /\ \A l \in LocalIds :
             \/ order_store_'[l] = order_store_[l]
             \/ Restated(order_store_[l], order_store_'[l])
             \/ /\ InCall /\ l = id_generator_
                /\ Entered(order_store_[l], order_store_'[l], event.signal, None)
  BY CrashRows
<1>3. Idle => call = NoCall /\ ~call.answered
  BY DEF VenueInv, CallInv, NoCall
<1>4. /\ broker_count \in Nat /\ id_generator_ \in Nat /\ MaxOrders \in Nat
      /\ LocalIds \subseteq Nat
  BY Numbers
<1>5. InCall => id_generator_ < MaxOrders /\ broker_count < MaxOrders
  <2>1. call.answered \in BOOLEAN
    BY DEF VenueInv, VenueType
  <2>2. InCall => id_generator_ < MaxOrders
    BY DEF VenueInv, CallInv
  <2>3. InCall => broker_count + Cardinality(Lost) < MaxOrders
    BY <2>1, <2>2, PlaceFacts
  <2> QED
    BY <1>4, <2>2, <2>3, Numbers
<1>6. BrokersBelow(order_store_', broker_count')
  <2>1. broker_count' \in Nat /\ broker_count' >= broker_count
    BY <1>1, <1>4
  <2>2. BrokersBelow(order_store_, broker_count)
    BY RowsBelow
  <2>3. \A l \in LocalIds : order_store_[l] # None /\ order_store_[l].broker_id # None =>
            order_store_[l].broker_id \in Nat
    BY OrderIdsAssumption DEF VenueInv, TrackingInv, TypeOK, Table, StoredOrder, BrokerIds
  <2> QED
    BY <1>2, <1>4, <2>1, <2>2, <2>3 DEF BrokersBelow, Restated, Entered
<1>7. VenueType' /\ CallInv' /\ FreshInv'
  <2>1. CASE InCall
    <3>1. CallInv' /\ FreshInv' /\ unrecorded' \subseteq BrokerIds
      BY <1>1, <1>6, <2>1, CallEnds
    <3> QED
      BY <1>1, <3>1 DEF VenueInv, VenueType, NoCall
  <2>2. CASE Idle
    <3>1. ~InCall /\ UNCHANGED <<call, venue, unrecorded, broker_count, id_generator_>>
      BY <1>1, <1>3, <2>2 DEF InCall
    <3>2. OrdersKept /\ NoNewOrders
      BY <3>1 DEF OrdersKept, NoNewOrders
    <3>3. id_generator_' \in Nat /\ id_generator_' >= id_generator_
      BY <1>4, <3>1
    <3>4. CallInv' /\ FreshInv'
      BY <1>6, <3>1, <3>2, <3>3, CallGoesOn
    <3> QED
      BY <3>1, <3>4 DEF VenueInv, VenueType
  <2> QED
    BY <2>1, <2>2 DEF InCall
<1>8. FeedType'
  <2>1. OrdersKept
    BY <1>1 DEF OrdersKept
  <2> QED
    BY <1>1, <2>1, FeedKept DEF VenueInv
<1>9. \A l \in LocalIds : get_broker_id(id_mapper_', l) = None
  BY <1>1 DEF EmptyMapper, get_broker_id
<1>10. Mapped' = {}
  BY <1>9 DEF Mapped, IsMapped
<1>11. TypeOK'
  <2>1. EmptyMapper \in Mapper
    BY DEF EmptyMapper, Mapper
  <2>2. [s \in Symbols |-> FlatPosition] \in [Symbols -> Position]
    BY RatType DEF FlatPosition, Position
  <2>3. id_generator_' \in 0 .. MaxOrders /\ broker_count' \in 0 .. MaxOrders
    BY <1>1, <1>3, <1>4, <1>5 DEF VenueInv, TrackingInv, TypeOK, InCall
  <2>4. /\ journal_' \subseteq Events \X (LocalIds \cup {None})
        /\ streamed' \in [BrokerIds -> Nat]
        /\ phase' \in {"running", "stopping", "draining", "destroyed"}
    BY <1>1 DEF VenueInv, TrackingInv, TypeOK
  <2>5. queue_' \in Seq(Command \cup ReportEvent) /\ waiting' \subseteq Clients
    BY <1>1
  <2>6. id_mapper_' \in Mapper /\ open_order_count_' \in Int
    BY <1>1, <2>1
  <2>7. positions_' \in [Symbols -> Position]
    BY <1>1, <2>2, Zenon
  <2>8. fill_sink_' \in BOOLEAN
    BY <1>1, Zenon
  <2> QED
    BY <1>2, <2>3, <2>4, <2>5, <2>6, <2>7, <2>8 DEF TypeOK
<1>12. IdsIssued'
  <2>1. ASSUME NEW l \in LocalIds, order_store_'[l] # None
        PROVE  l < id_generator_'
    <3>1. order_store_[l] # None => l < id_generator_
      BY DEF VenueInv, TrackingInv, IdsIssued
    <3> QED
      BY <1>1, <1>2, <1>4, <2>1, <3>1 DEF Restated
  <2> QED
    BY <1>9, <1>10, <2>1 DEF IdsIssued, IsMapped
<1>13. MapperInverse' /\ MappedOrdersAreOpen' /\ CountCoversMapped'
  <2>1. \A b \in BrokerIds : get_local_id(id_mapper_', b) = None
    BY <1>1 DEF EmptyMapper, get_local_id
  <2>2. None \notin LocalIds /\ None \notin BrokerIds
    BY OrderIdsAssumption DEF LocalIds, BrokerIds
  <2> QED
    BY <1>1, <1>9, <1>10, <2>1, <2>2, FS_EmptySet
    DEF MapperInverse, MappedOrdersAreOpen, CountCoversMapped
<1> QED
  BY <1>7, <1>8, <1>11, <1>12, <1>13 DEF VenueInv, TrackingInv

\* The steps of the clients, of the stream thread and of the adapter's handlers.
LEMMA QuietSteps ==
    ASSUME VenueInv,
           \/ Commands \/ StreamLoop \/ SkipDuplicate \/ DeliverReport \/ BreakLink
           \/ HandleStream \/ UNCHANGED vars
    PROVE  Quiet
<1>1. CASE Commands
  <2>1. /\ UNCHANGED <<call, venue, executions, unrecorded, fill_queue>>
        /\ ClientStep
    BY <1>1 DEF Commands, adapterVars
  <2>2. /\ UNCHANGED <<broker_count, id_generator_, order_store_, id_mapper_>>
        /\ queue_' = queue_ \/ \E e \in Command : queue_' = Append(queue_, e)
    BY <2>1 DEF ClientStep, SubmitSignal, CancelSignal, ReplaceSignal, cancel_all,
                process_signal, set_fill_sink, clear_fill_sink, SwitchFillSink, enqueue,
                Command, SubmitCommand, CancelCommand, ReplaceCommand, CancelAllCommand
  <2> QED
    BY <2>1, <2>2 DEF Quiet
<1>2. CASE StreamLoop \/ HandleStream \/ UNCHANGED vars
  BY <1>2 DEF StreamLoop, run_fill_stream, Open, HandleStream, StreamFills, CloseStream, vars,
              omVars, venueVars, adapterVars, Quiet
<1>3. CASE SkipDuplicate
  BY <1>3 DEF SkipDuplicate, ReadDuplicate, Read, omVars, venueVars, Quiet
<1>4. CASE BreakLink
  BY <1>4 DEF BreakLink, Disconnect, omVars, venueVars, Quiet
<1>5. CASE DeliverReport
  <2>1. PICK r \in Range(fill_queue) : ReadNew(r) /\ GatewayReport(r.report)
    BY <1>5 DEF DeliverReport
  <2>2. /\ fill_queue # <<>> /\ fill_queue' = Tail(fill_queue) /\ r = Head(fill_queue)
        /\ UNCHANGED <<call, venue, executions, unrecorded>>
    BY <1>5, <2>1 DEF DeliverReport, ReadNew, Read, venueVars
  <2>3. r.report \in Reports
    <3>1. fill_queue \in Seq(FillReports)
      BY DEF VenueInv, FeedType
    <3>2. r \in FillReports
      BY <2>2, <3>1
    <3> QED
      BY <3>2 DEF FillReports
  <2>4. /\ UNCHANGED <<broker_count, id_generator_, order_store_, id_mapper_>>
        /\ queue_' = Append(queue_, [kind |-> "report", report |-> r.report])
    BY <2>1 DEF GatewayReport, enqueue
  <2>5. [kind |-> "report", report |-> r.report] \in ReportEvent
    BY <2>3 DEF ReportEvent
  <2> QED
    BY <2>2, <2>4, <2>5 DEF Quiet
<1> QED
  BY <1>1, <1>2, <1>3, <1>4, <1>5

LEMMA NextVenue == VenueInv /\ [AdapterTradingNext]_vars => VenueInv'
<1> SUFFICES ASSUME VenueInv, [AdapterTradingNext]_vars PROVE VenueInv'
  OBVIOUS
<1>1. CASE \E table \in Interrupted : Crash(table)
  BY <1>1, CrashStep
<1>2. CASE ~\E table \in Interrupted : Crash(table)
  <2>1. TrackingInv'
    BY <1>2, ManagerSteps, NextTracking DEF VenueInv
  <2>2. VenueRest'
    BY <1>2, QuietSteps, QuietStep, PlaceStep, RouteStep, DispatchStep, VenueStep
    DEF AdapterTradingNext
  <2> QED
    BY <2>1, <2>2 DEF VenueInv, VenueRest
<1> QED
  BY <1>1, <1>2

LEMMA InitVenue == AdapterTradingInit => VenueInv
<1> SUFFICES ASSUME AdapterTradingInit PROVE VenueInv
  OBVIOUS
<1>1. TrackingInv
  BY InitTracking DEF AdapterTradingInit
<1>2. /\ call = NoCall /\ executions = <<>> /\ unrecorded = {} /\ fill_queue = <<>>
      /\ venue = [b \in BrokerIds |-> None]
      /\ broker_count = 0 /\ id_generator_ = 0 /\ order_store_ = EmptyTable
  BY DEF AdapterTradingInit, Init, AdapterInit
<1>3. VenueType /\ FeedType
  BY <1>2 DEF VenueType, FeedType, NoCall
<1>4. CallInv
  BY <1>2 DEF CallInv, InCall, Idle, NoCall
<1>5. Lost = {} /\ Cardinality(Lost) = 0
  BY <1>2, FS_EmptySet DEF Lost
<1>6. FreshInv
  BY <1>2, <1>5, OrderIdsAssumption DEF FreshInv, BrokerIds, Stored, EmptyTable
<1> QED
  BY <1>1, <1>3, <1>4, <1>6 DEF VenueInv

LEMMA VenueInvariant == AdapterTradingSpec => []VenueInv
BY InitVenue, NextVenue, PTL DEF AdapterTradingSpec

------------------------------------------------------------------------------
(* Counting what is queued.                                                 *)

\* The event adds to what is recorded of the order.
Counts(e, b) == e.kind = "report" /\ e.report.broker_id = b /\ e.report.status = "NONE"

QueuedIn(q, b) == {i \in DOMAIN q : Counts(q[i], b)}

LEMMA QueuedIs == \A b : QueuedFor(b) = Cardinality(QueuedIn(queue_, b))
BY DEF QueuedFor, QueuedIn, Counts

LEMMA QueuedFinite ==
    ASSUME NEW E, NEW q \in Seq(E), NEW b
    PROVE  IsFiniteSet(QueuedIn(q, b)) /\ Cardinality(QueuedIn(q, b)) \in Nat
<1>1. IsFiniteSet(1 .. Len(q)) /\ QueuedIn(q, b) \in SUBSET (1 .. Len(q))
  BY FS_Interval DEF QueuedIn
<1> QED
  BY <1>1, FS_Subset, FS_CardinalityType

LEMMA QueuedAppend ==
    ASSUME NEW E, NEW q \in Seq(E), NEW e \in E, NEW b
    PROVE  Cardinality(QueuedIn(Append(q, e), b))
               <= Cardinality(QueuedIn(q, b)) + (IF Counts(e, b) THEN 1 ELSE 0)
<1> DEFINE n == Len(q) + 1
<1>1. /\ Append(q, e) \in Seq(E)
      /\ DOMAIN Append(q, e) = DOMAIN q \cup {n}
      /\ Append(q, e)[n] = e
      /\ \A i \in DOMAIN q : Append(q, e)[i] = q[i]
  OBVIOUS
<1>2. QueuedIn(Append(q, e), b) \subseteq
          QueuedIn(q, b) \cup (IF Counts(e, b) THEN {n} ELSE {})
  BY <1>1 DEF QueuedIn
<1>3. IsFiniteSet(QueuedIn(q, b)) /\ Cardinality(QueuedIn(q, b)) \in Nat
  BY QueuedFinite
<1>4. Cardinality(QueuedIn(Append(q, e), b)) \in Nat
  BY <1>1, QueuedFinite
<1> HIDE DEF n
<1>5. CASE Counts(e, b)
  <2>1. /\ IsFiniteSet(QueuedIn(q, b) \cup {n})
        /\ Cardinality(QueuedIn(q, b) \cup {n}) = IF n \in QueuedIn(q, b)
                                                   THEN Cardinality(QueuedIn(q, b))
                                                   ELSE Cardinality(QueuedIn(q, b)) + 1
    BY <1>3, FS_AddElement
  <2>2. Cardinality(QueuedIn(q, b) \cup {n}) \in Nat
    BY <2>1, FS_CardinalityType
  <2>3. QueuedIn(Append(q, e), b) \in SUBSET (QueuedIn(q, b) \cup {n})
    BY <1>2, <1>5
  <2>4. Cardinality(QueuedIn(Append(q, e), b)) <= Cardinality(QueuedIn(q, b) \cup {n})
    BY <2>1, <2>3, FS_Subset
  <2> QED
    BY <1>3, <1>4, <1>5, <2>1, <2>2, <2>4
<1>6. CASE ~Counts(e, b)
  <2>1. QueuedIn(Append(q, e), b) \in SUBSET QueuedIn(q, b)
    BY <1>2, <1>6
  <2>2. Cardinality(QueuedIn(Append(q, e), b)) <= Cardinality(QueuedIn(q, b))
    BY <1>3, <2>1, FS_Subset
  <2> QED
    BY <1>3, <1>4, <1>6, <2>2
<1> QED
  BY <1>5, <1>6

LEMMA QueuedTail ==
    ASSUME NEW E, NEW q \in Seq(E), q # <<>>, NEW b
    PROVE  Cardinality(QueuedIn(Tail(q), b)) + (IF Counts(Head(q), b) THEN 1 ELSE 0)
               <= Cardinality(QueuedIn(q, b))
<1> DEFINE S == QueuedIn(Tail(q), b)
           T == QueuedIn(q, b) \ {1}
           f == [i \in S |-> i + 1]
<1>1. /\ Tail(q) \in Seq(E)
      /\ \A i \in DOMAIN Tail(q) : /\ i \in Nat /\ i # 0 /\ i + 1 \in DOMAIN q
                                   /\ Tail(q)[i] = q[i + 1]
      /\ 1 \in DOMAIN q /\ q[1] = Head(q)
  OBVIOUS
<1>2. IsFiniteSet(QueuedIn(q, b)) /\ Cardinality(QueuedIn(q, b)) \in Nat
  BY QueuedFinite
<1>3. \A i \in S : i \in Nat /\ i # 0 /\ i + 1 \in T
  BY <1>1 DEF QueuedIn
<1>4. f \in Injection(S, T)
  <2>1. f \in [S -> T]
    BY <1>3
  <2>2. \A i, j \in S : f[i] = f[j] => i = j
    BY <1>3
  <2> QED
    BY <2>1, <2>2 DEF Injection, IsInjective
<1>5. /\ IsFiniteSet(T)
      /\ Cardinality(T) = IF Counts(Head(q), b) THEN Cardinality(QueuedIn(q, b)) - 1
                          ELSE Cardinality(QueuedIn(q, b))
  <2>1. 1 \in QueuedIn(q, b) <=> Counts(Head(q), b)
    BY <1>1 DEF QueuedIn
  <2> QED
    BY <1>2, <2>1, FS_RemoveElement
<1> HIDE DEF T, f
<1>6. Cardinality(S) <= Cardinality(T)
  BY <1>4, <1>5, FS_Injection
<1>7. Cardinality(S) \in Nat
  BY <1>1, QueuedFinite
<1> HIDE DEF S
<1>8. Cardinality(S) + (IF Counts(Head(q), b) THEN 1 ELSE 0) <= Cardinality(QueuedIn(q, b))
  BY <1>2, <1>5, <1>6, <1>7
<1> QED
  BY <1>8 DEF S

------------------------------------------------------------------------------
(* The window of remembered execution ids.                                  *)

\* Distinct numbers less than r away from e are at most 2r - 1.
LEMMA Window ==
    ASSUME NEW r \in Nat, NEW k \in Nat, k >= 2 * r - 1,
           NEW s, NEW x \in Nat, NEW e \in Nat,
           \A i \in 1 .. k : s[i] \in Nat /\ e < s[i] + r /\ s[i] < e + r /\ s[i] # x,
           \A i, j \in 1 .. k : i < j => s[i] # s[j],
           e < x + r, x < e + r
    PROVE  FALSE
<1> DEFINE T == (e - r + 1) .. (e + r - 1)
           f == [i \in 1 .. k + 1 |-> IF i <= k THEN s[i] ELSE x]
<1>1. /\ IsFiniteSet(T)
      /\ Cardinality(T) = IF e - r + 1 > e + r - 1 THEN 0 ELSE (e + r - 1) - (e - r + 1) + 1
  BY FS_Interval
<1>2. f \in [1 .. k + 1 -> T]
  BY DEF T
<1>3. \A i, j \in 1 .. k + 1 : f[i] = f[j] => i = j
  <2> SUFFICES ASSUME NEW i \in 1 .. k + 1, NEW j \in 1 .. k + 1, f[i] = f[j], i # j
               PROVE  FALSE
    OBVIOUS
  <2>1. CASE i <= k /\ j <= k
    <3>1. i \in 1 .. k /\ j \in 1 .. k /\ s[i] = s[j] /\ (i < j \/ j < i)
      BY <2>1
    <3> QED
      BY <3>1
  <2>2. CASE ~(i <= k /\ j <= k)
    BY <2>2
  <2> QED
    BY <2>1, <2>2
<1>4. f \in Injection(1 .. k + 1, T)
  BY <1>2, <1>3 DEF Injection, IsInjective
<1> HIDE DEF f
<1>5. Cardinality(1 .. k + 1) = k + 1
  BY FS_Interval
<1>6. Cardinality(1 .. k + 1) <= Cardinality(T)
  BY <1>1, <1>4, FS_Injection
<1> HIDE DEF T
<1> QED
  BY <1>1, <1>5, <1>6

\* Nothing new is read and nothing is sent.
LEMMA WindowKept ==
    ASSUME VenueInv, WindowInv, UNCHANGED <<executions, seen_id_order_>>,
           \/ fill_queue' = fill_queue
           \/ fill_queue' = <<>>
           \/ fill_queue # <<>> /\ fill_queue' = Tail(fill_queue)
    PROVE  WindowInv' /\ \A b : Countable(b)' \subseteq Countable(b)
<1>1. fill_queue \in Seq(FillReports)
  BY DEF VenueInv, FeedType
<1>2. PICK d \in 0 .. 1 : \A k \in DOMAIN fill_queue' :
          k + d \in DOMAIN fill_queue /\ fill_queue'[k] = fill_queue[k + d]
  <2>1. CASE fill_queue # <<>> /\ fill_queue' = Tail(fill_queue)
    <3>1. \A k \in DOMAIN fill_queue' :
              k + 1 \in DOMAIN fill_queue /\ fill_queue'[k] = fill_queue[k + 1]
      BY <1>1, <2>1
    <3> QED
      BY <3>1
  <2>2. CASE fill_queue' = fill_queue \/ fill_queue' = <<>>
    <3>1. \A k \in DOMAIN fill_queue' :
              k + 0 \in DOMAIN fill_queue /\ fill_queue'[k] = fill_queue[k + 0]
      BY <1>1, <2>2
    <3> QED
      BY <3>1
  <2> QED
    BY <2>1, <2>2
<1>3. \A k \in DOMAIN fill_queue' : k \in Nat
  <2>1. CASE fill_queue # <<>> /\ fill_queue' = Tail(fill_queue)
    BY <1>1, <2>1
  <2>2. CASE fill_queue' = fill_queue \/ fill_queue' = <<>>
    BY <1>1, <2>2
  <2> QED
    BY <2>1, <2>2
<1>4. /\ seen_id_order_' \in Seq(Nat)
      /\ Len(seen_id_order_') <= kMaxSeenIds
      /\ \A i \in DOMAIN seen_id_order_' : seen_id_order_'[i] \in DOMAIN executions'
      /\ \A i, j \in DOMAIN seen_id_order_' :
             i < j => seen_id_order_'[i] # seen_id_order_'[j]
                      /\ NotOld(seen_id_order_'[i], seen_id_order_'[j])
  BY DEF WindowInv
<1>5. \A i \in DOMAIN seen_id_order_', k \in DOMAIN fill_queue' :
          fill_queue'[k].id # NoId => NotOld(seen_id_order_'[i], fill_queue'[k].id)
  BY <1>2 DEF WindowInv
<1>6. \A k, m \in DOMAIN fill_queue' :
          k < m /\ fill_queue'[k].id # NoId /\ fill_queue'[m].id # NoId =>
              NotOld(fill_queue'[k].id, fill_queue'[m].id)
  BY <1>2, <1>3 DEF WindowInv
<1>7. WindowInv'
  BY <1>4, <1>5, <1>6 DEF WindowInv
<1>8. \A i : Coming(i)' => Coming(i)
  BY <1>2 DEF Coming
<1>9. \A i : Seen(i)' <=> Seen(i)
  BY DEF Seen
<1>10. \A b : Countable(b)' \subseteq Countable(b)
  BY <1>8, <1>9 DEF Countable, ExecutionsOf
<1> QED
  BY <1>7, <1>10

LEMMA AppendNumber ==
    ASSUME NEW q \in Seq(Nat), NEW e \in Nat
    PROVE  /\ Append(q, e) \in Seq(Nat)
           /\ Len(Append(q, e)) = Len(q) + 1
           /\ Append(q, e)[Len(q) + 1] = e
           /\ \A i \in 1 .. Len(q) : Append(q, e)[i] = q[i]
OBVIOUS

\* The window loses its oldest id if it is full (d = 1), and gets the new one.
Moved(s, u, x, d) ==
    /\ u \in Seq(Nat)
    /\ Len(u) = Len(s) + 1 - d
    /\ Len(u) <= kMaxSeenIds
    /\ d = 1 => Len(s) = kMaxSeenIds
    /\ u[Len(s) + 1 - d] = x
    /\ \A i \in 1 .. Len(s) - d : u[i] = s[i + d]

LEMMA FullWindow ==
    ASSUME NEW s \in Seq(Nat), NEW x \in Nat, Len(s) = kMaxSeenIds, kMaxSeenIds \in Nat \ {0}
    PROVE  Moved(s, Append(Tail(s), x), x, 1)
<1>1. PICK t \in Seq(Nat) : /\ t = Tail(s)
                            /\ Len(t) = Len(s) - 1
                            /\ \A i \in 1 .. Len(s) - 1 : t[i] = s[i + 1]
  <2>1. /\ Tail(s) \in Seq(Nat) /\ Len(Tail(s)) = Len(s) - 1
        /\ \A i \in 1 .. Len(s) - 1 : Tail(s)[i] = s[i + 1]
    OBVIOUS
  <2> QED
    BY <2>1
<1>2. /\ Append(t, x) \in Seq(Nat)
      /\ Len(Append(t, x)) = Len(t) + 1
      /\ Append(t, x)[Len(t) + 1] = x
      /\ \A i \in 1 .. Len(t) : Append(t, x)[i] = t[i]
  BY AppendNumber
<1>3. PICK u : u = Append(t, x)
  OBVIOUS
<1>4. /\ u \in Seq(Nat)
      /\ Len(u) = Len(t) + 1
      /\ u[Len(t) + 1] = x
      /\ \A i \in 1 .. Len(t) : u[i] = t[i]
  BY <1>2, <1>3
<1>5. Moved(s, u, x, 1)
  BY <1>1, <1>4 DEF Moved
<1> QED
  BY <1>1, <1>3, <1>5

LEMMA RoomInWindow ==
    ASSUME NEW s \in Seq(Nat), NEW x \in Nat, Len(s) < kMaxSeenIds, kMaxSeenIds \in Nat \ {0}
    PROVE  Moved(s, Append(s, x), x, 0)
<1>1. PICK u : u = Append(s, x)
  OBVIOUS
<1>2. /\ u \in Seq(Nat)
      /\ Len(u) = Len(s) + 1
      /\ u[Len(s) + 1] = x
      /\ \A i \in 1 .. Len(s) : u[i] = s[i]
  BY <1>1, AppendNumber
<1>3. Len(s) \in Nat
  OBVIOUS
<1>4. Moved(s, u, x, 0)
  BY <1>2, <1>3 DEF Moved
<1> QED
  BY <1>1, <1>4

\* An execution id is read for the first time.  It was still to be counted; the
\* id it pushes out of a full window can be neither on its way nor sent again.
LEMMA WindowMoves ==
    ASSUME VenueInv, WindowInv, fill_queue # <<>>, Head(fill_queue).id # NoId,
           ~Seen(Head(fill_queue).id),
           fill_queue' = Tail(fill_queue), UNCHANGED executions,
           seen_id_order_' = Remember(Head(fill_queue).id)
    PROVE  /\ WindowInv'
           /\ Head(fill_queue).id \in Countable(executions[Head(fill_queue).id])
           /\ \A b : Countable(b)' \subseteq Countable(b) \ {Head(fill_queue).id}
<1>1. PICK x : x = Head(fill_queue).id
  OBVIOUS
<1>2. PICK s : s = seen_id_order_
  OBVIOUS
<1>3. fill_queue \in Seq(FillReports) /\ executions \in Seq(BrokerIds)
  BY DEF VenueInv, FeedType
<1>4. /\ 1 \in DOMAIN fill_queue /\ fill_queue[1].id = x
      /\ \A k \in DOMAIN fill_queue' : /\ k \in Nat /\ k >= 1 /\ k + 1 \in DOMAIN fill_queue
                                       /\ fill_queue'[k] = fill_queue[k + 1]
  BY <1>1, <1>3
<1>5. x # NoId /\ x \in DOMAIN executions /\ x \in Nat
  <2>1. Carried(fill_queue[1]) /\ x # NoId
    BY <1>1, <1>4 DEF VenueInv, FeedType
  <2> QED
    BY <1>3, <1>4, <2>1 DEF Carried
<1>6. /\ s \in Seq(Nat)
      /\ Len(s) <= kMaxSeenIds
      /\ \A i \in DOMAIN s : s[i] \in DOMAIN executions /\ s[i] # x
      /\ \A i, j \in DOMAIN s : i < j => s[i] # s[j] /\ NotOld(s[i], s[j])
      /\ \A i \in DOMAIN s : NotOld(s[i], x)
  BY <1>1, <1>2, <1>4, <1>5 DEF WindowInv, Seen
<1>7. \A i \in DOMAIN s, k \in DOMAIN fill_queue :
          fill_queue[k].id # NoId => NotOld(s[i], fill_queue[k].id)
  BY <1>2 DEF WindowInv
<1>8. \A k \in DOMAIN fill_queue :
          k > 1 /\ fill_queue[k].id # NoId => NotOld(x, fill_queue[k].id)
  BY <1>4, <1>5 DEF WindowInv
<1>9. kMaxSeenIds \in Nat \ {0} /\ Resent \in Nat
  BY SeenAssumption, VenueAssumption
<1>10. PICK d \in 0 .. 1 : Moved(s, seen_id_order_', x, d)
  <2>1. s \in Seq(Nat) /\ x \in Nat /\ Len(s) \in Nat /\ Len(s) <= kMaxSeenIds
    BY <1>5, <1>6
  <2>2. CASE Len(s) >= kMaxSeenIds
    <3>1. seen_id_order_' = Append(Tail(s), x)
      BY <1>1, <1>2, <2>2 DEF Remember
    <3>2. Len(s) = kMaxSeenIds
      BY <1>9, <2>1, <2>2
    <3>3. Moved(s, seen_id_order_', x, 1)
      BY <1>9, <2>1, <3>1, <3>2, FullWindow, Zenon
    <3> QED
      BY <3>3
  <2>3. CASE ~(Len(s) >= kMaxSeenIds)
    <3>1. seen_id_order_' = Append(s, x)
      BY <1>1, <1>2, <2>3 DEF Remember
    <3>2. Len(s) < kMaxSeenIds
      BY <1>9, <2>1, <2>3
    <3>3. Moved(s, seen_id_order_', x, 0)
      BY <1>9, <2>1, <3>1, <3>2, RoomInWindow, Zenon
    <3> QED
      BY <3>3
  <2> QED
    BY <2>2, <2>3
<1>11. PICK n \in Nat : n = Len(s) - d
  <2>1. Len(s) \in Nat /\ d \in {0, 1} /\ (d = 1 => Len(s) = kMaxSeenIds)
    BY <1>6, <1>10 DEF Moved
  <2>2. Len(s) - d \in Nat
    BY <1>9, <2>1
  <2> QED
    BY <2>2
<1>12. /\ DOMAIN s = 1 .. n + d
       /\ DOMAIN seen_id_order_' = 1 .. n + 1
       /\ seen_id_order_'[n + 1] = x
       /\ \A i \in 1 .. n : i + d \in DOMAIN s /\ seen_id_order_'[i] = s[i + d]
  BY <1>6, <1>10, <1>11 DEF Moved
<1>13. WindowInv'
  <2>1. \A i \in DOMAIN seen_id_order_' : seen_id_order_'[i] \in DOMAIN executions'
    <3> SUFFICES ASSUME NEW i \in 1 .. n + 1
                 PROVE  seen_id_order_'[i] \in DOMAIN executions
      BY <1>12
    <3>1. CASE i = n + 1
      BY <1>5, <1>12, <3>1
    <3>2. CASE i # n + 1
      <4>1. i \in 1 .. n
        BY <3>2
      <4> QED
        BY <1>6, <1>12, <4>1
    <3> QED
      BY <3>1, <3>2
  <2>2. \A i, j \in DOMAIN seen_id_order_' :
            i < j => seen_id_order_'[i] # seen_id_order_'[j]
                     /\ NotOld(seen_id_order_'[i], seen_id_order_'[j])
    <3> SUFFICES ASSUME NEW i \in 1 .. n + 1, NEW j \in 1 .. n + 1, i < j
                 PROVE  seen_id_order_'[i] # seen_id_order_'[j]
                        /\ NotOld(seen_id_order_'[i], seen_id_order_'[j])
      BY <1>12
    <3>1. i \in 1 .. n /\ seen_id_order_'[i] = s[i + d] /\ i + d \in DOMAIN s
      BY <1>12
    <3>2. CASE j = n + 1
      BY <1>6, <1>12, <3>1, <3>2
    <3>3. CASE j # n + 1
      <4>1. j \in 1 .. n /\ i + d < j + d
        BY <3>3
      <4>2. seen_id_order_'[j] = s[j + d] /\ j + d \in DOMAIN s
        BY <1>12, <4>1
      <4> QED
        BY <1>6, <3>1, <4>1, <4>2
    <3> QED
      BY <3>2, <3>3
  <2>3. \A i \in DOMAIN seen_id_order_', k \in DOMAIN fill_queue' :
            fill_queue'[k].id # NoId => NotOld(seen_id_order_'[i], fill_queue'[k].id)
    <3> SUFFICES ASSUME NEW i \in 1 .. n + 1, NEW k \in DOMAIN fill_queue',
                        fill_queue'[k].id # NoId
                 PROVE  NotOld(seen_id_order_'[i], fill_queue'[k].id)
      BY <1>12
    <3>1. /\ k + 1 \in DOMAIN fill_queue /\ k + 1 > 1
          /\ fill_queue'[k] = fill_queue[k + 1]
      BY <1>4
    <3>2. CASE i = n + 1
      BY <1>8, <1>12, <3>1, <3>2
    <3>3. CASE i # n + 1
      <4>1. seen_id_order_'[i] = s[i + d] /\ i + d \in DOMAIN s
        BY <1>12, <3>3
      <4> QED
        BY <1>7, <3>1, <4>1
    <3> QED
      BY <3>2, <3>3
  <2>4. \A k, m \in DOMAIN fill_queue' :
            k < m /\ fill_queue'[k].id # NoId /\ fill_queue'[m].id # NoId =>
                NotOld(fill_queue'[k].id, fill_queue'[m].id)
    <3> SUFFICES ASSUME NEW k \in DOMAIN fill_queue', NEW m \in DOMAIN fill_queue', k < m,
                        fill_queue'[k].id # NoId, fill_queue'[m].id # NoId
                 PROVE  NotOld(fill_queue'[k].id, fill_queue'[m].id)
      OBVIOUS
    <3>1. k + 1 < m + 1
      BY <1>4
    <3> QED
      BY <1>4, <3>1 DEF WindowInv
  <2> QED
    BY <1>10, <2>1, <2>2, <2>3, <2>4 DEF WindowInv, Moved
<1>14. x \in Countable(executions[x])
  BY <1>1, <1>4, <1>5 DEF Countable, ExecutionsOf, Coming
<1>15. \A i : Coming(i)' => \E k \in DOMAIN fill_queue : k > 1 /\ fill_queue[k].id = i
  <2> SUFFICES ASSUME NEW i, NEW k \in DOMAIN fill_queue', fill_queue'[k].id = i
               PROVE  \E m \in DOMAIN fill_queue : m > 1 /\ fill_queue[m].id = i
    BY DEF Coming
  <2>1. k + 1 \in DOMAIN fill_queue /\ k + 1 > 1 /\ fill_queue[k + 1].id = i
    BY <1>4
  <2> QED
    BY <2>1
<1>16. \A i : Seen(i) /\ ~Seen(i)' => d = 1 /\ i = s[1]
  <2> SUFFICES ASSUME NEW j \in DOMAIN s, ~Seen(s[j])'
               PROVE  d = 1 /\ j = 1
    BY <1>2 DEF Seen
  <2>1. \A i \in DOMAIN seen_id_order_' : seen_id_order_'[i] # s[j]
    BY DEF Seen
  <2>2. CASE j - d \in 1 .. n
    <3>1. seen_id_order_'[j - d] = s[j] /\ j - d \in DOMAIN seen_id_order_'
      BY SMTT(30), <1>12, <2>2
    <3> QED
      BY <2>1, <3>1
  <2>3. CASE j - d \notin 1 .. n
    BY <1>12, <2>3
  <2> QED
    BY <2>2, <2>3
<1>17. ASSUME d = 1,
              \/ s[1] > Len(executions) - Resent
              \/ \E k \in DOMAIN fill_queue : k > 1 /\ fill_queue[k].id = s[1]
       PROVE  FALSE
  <2>1. Len(s) = kMaxSeenIds /\ DOMAIN s = 1 .. kMaxSeenIds /\ 1 \in DOMAIN s
    BY <1>6, <1>9, <1>10, <1>17 DEF Moved
  <2>2. PICK e : e = s[1]
    OBVIOUS
  <2>3. e \in Nat /\ e \in DOMAIN executions /\ DOMAIN executions = 1 .. Len(executions)
    BY <1>3, <1>6, <2>1, <2>2
  <2>4. Len(executions) \in Nat
    BY <1>3
  <2>5. \A i \in DOMAIN s : s[i] \in Nat /\ s[i] <= Len(executions)
    BY <1>3, <1>6
  <2>6. x <= Len(executions)
    BY <1>3, <1>5
  <2>7. (\A i \in DOMAIN s : s[i] < e + Resent) /\ x < e + Resent
    <3>1. CASE s[1] > Len(executions) - Resent
      BY <1>5, <1>9, <2>2, <2>3, <2>4, <2>5, <2>6, <3>1
    <3>2. ASSUME NEW k \in DOMAIN fill_queue, k > 1, fill_queue[k].id = s[1]
          PROVE  (\A i \in DOMAIN s : s[i] < e + Resent) /\ x < e + Resent
      <4>1. fill_queue[k].id # NoId
        BY <2>2, <2>3, <3>2, SeenAssumption
      <4> QED
        BY <1>7, <1>8, <2>2, <3>2, <4>1 DEF NotOld
    <3> QED
      BY <1>17, <3>1, <3>2
  <2>8. e < e + Resent
    BY <2>1, <2>2, <2>7
  <2>9. \A i \in DOMAIN s : e < s[i] + Resent
    <3> SUFFICES ASSUME NEW i \in DOMAIN s PROVE e < s[i] + Resent
      OBVIOUS
    <3>1. CASE i = 1
      BY <2>2, <2>8, <3>1
    <3>2. CASE i # 1
      <4>1. 1 < i
        BY <2>1, <3>2
      <4> QED
        BY <1>6, <2>1, <2>2, <4>1 DEF NotOld
    <3> QED
      BY <3>1, <3>2
  <2>10. e < x + Resent
    BY <1>6, <2>1, <2>2 DEF NotOld
  <2>11. kMaxSeenIds >= 2 * Resent - 1
    BY VenueAssumption
  <2>12. \A i \in 1 .. kMaxSeenIds :
             s[i] \in Nat /\ e < s[i] + Resent /\ s[i] < e + Resent /\ s[i] # x
    BY <1>6, <2>1, <2>5, <2>7, <2>9
  <2>13. \A i, j \in 1 .. kMaxSeenIds : i < j => s[i] # s[j]
    BY <1>6, <2>1
  <2> QED
    BY <1>5, <1>9, <2>3, <2>7, <2>10, <2>11, <2>12, <2>13, Window
<1>18. \A b : Countable(b)' \subseteq Countable(b) \ {x}
  <2> SUFFICES ASSUME NEW b, NEW i \in Countable(b)'
               PROVE  i \in Countable(b) /\ i # x
    OBVIOUS
  <2>1. /\ i \in DOMAIN executions /\ executions[i] = b
        /\ ~Seen(i)'
        /\ i > Len(executions) - Resent \/ Coming(i)'
    BY DEF Countable, ExecutionsOf
  <2>2. i # x
    <3>1. n + 1 \in DOMAIN seen_id_order_'
      BY <1>12
    <3> QED
      BY <1>12, <2>1, <3>1 DEF Seen
  <2>3. i > Len(executions) - Resent \/ \E k \in DOMAIN fill_queue : k > 1 /\ fill_queue[k].id = i
    BY <1>15, <2>1
  <2>4. ~Seen(i)
    BY <1>16, <1>17, <2>1, <2>3
  <2>5. i > Len(executions) - Resent \/ Coming(i)
    BY <2>3 DEF Coming
  <2> QED
    BY <2>1, <2>2, <2>4, <2>5 DEF Countable, ExecutionsOf
<1> QED
  BY <1>1, <1>13, <1>14, <1>18

\* The venue sends a report of an execution, new or recent, or of an end.
LEMMA WindowSent ==
    ASSUME VenueInv, WindowInv, UNCHANGED seen_id_order_, NEW r \in FillReports,
           NEW b \in BrokerIds,
           fill_queue' = fill_queue \/ fill_queue' = Append(fill_queue, r),
           executions' = executions \/ executions' = Append(executions, b),
           \/ r.id = NoId
           \/ r.id \in DOMAIN executions' /\ r.id > Len(executions') - Resent
           \/ r.id = Len(executions') /\ executions' = Append(executions, b)
    PROVE  /\ WindowInv'
           /\ \A c : Countable(c)' \subseteq
                  Countable(c) \cup (IF executions' # executions /\ c = b
                                     THEN {Len(executions) + 1} ELSE {})
<1>1. fill_queue \in Seq(FillReports) /\ executions \in Seq(BrokerIds)
  BY DEF VenueInv, FeedType
<1>2. PICK n \in Nat : n = Len(executions)
  BY <1>1
<1>3. PICK m \in Nat : m = Len(executions')
  BY <1>1
<1>4. /\ DOMAIN executions = 1 .. n /\ DOMAIN executions' = 1 .. m
      /\ \/ m = n /\ executions' = executions
         \/ m = n + 1 /\ executions'[n + 1] = b
      /\ \A i \in 1 .. n : i \in 1 .. m /\ executions'[i] = executions[i]
  BY <1>1, <1>2, <1>3
<1>5. PICK k : k = Len(fill_queue) + 1
  OBVIOUS
<1>6. /\ \A j \in DOMAIN fill_queue' : j \in Nat
      /\ \A j \in DOMAIN fill_queue' :
             \/ j \in DOMAIN fill_queue /\ j < k /\ fill_queue'[j] = fill_queue[j]
             \/ j = k /\ fill_queue'[j] = r
  <2>1. CASE fill_queue' = fill_queue
    BY <1>1, <1>5, <2>1
  <2>2. CASE fill_queue' = Append(fill_queue, r)
    BY <1>1, <1>5, <2>2
  <2> QED
    BY <2>1, <2>2
<1>7. Resent \in Nat /\ NoId \notin Nat
  BY VenueAssumption, SeenAssumption
<1>8. \A j \in DOMAIN fill_queue : fill_queue[j].id # NoId => fill_queue[j].id \in 1 .. n
  BY <1>4 DEF VenueInv, FeedType, Carried
<1>9. \A i \in 1 .. n : r.id # NoId => NotOld(i, r.id) /\ (r.id \in 1 .. n => r.id > m - Resent)
  <2>1. CASE r.id \in DOMAIN executions' /\ r.id > Len(executions') - Resent
    BY <1>3, <1>4, <1>7, <2>1 DEF NotOld
  <2>2. CASE r.id = Len(executions') /\ executions' = Append(executions, b)
    <3>1. Len(executions') = Len(executions) + 1
      BY <1>1, <2>2
    <3>2. r.id = n + 1
      BY <1>2, <2>2, <3>1
    <3> QED
      BY <1>7, <3>2 DEF NotOld
  <2> QED
    BY <2>1, <2>2
<1>10. \A i \in DOMAIN seen_id_order_ : seen_id_order_[i] \in 1 .. n
  BY <1>4 DEF WindowInv
<1>11. WindowInv'
  <2>1. \A i \in DOMAIN seen_id_order_' : seen_id_order_'[i] \in DOMAIN executions'
    BY <1>4, <1>10
  <2>2. \A i \in DOMAIN seen_id_order_', j \in DOMAIN fill_queue' :
            fill_queue'[j].id # NoId => NotOld(seen_id_order_'[i], fill_queue'[j].id)
    BY <1>6, <1>9, <1>10 DEF WindowInv
  <2>3. \A i, j \in DOMAIN fill_queue' :
            i < j /\ fill_queue'[i].id # NoId /\ fill_queue'[j].id # NoId =>
                NotOld(fill_queue'[i].id, fill_queue'[j].id)
    <3> SUFFICES ASSUME NEW i \in DOMAIN fill_queue', NEW j \in DOMAIN fill_queue', i < j,
                        fill_queue'[i].id # NoId, fill_queue'[j].id # NoId
                 PROVE  NotOld(fill_queue'[i].id, fill_queue'[j].id)
      OBVIOUS
    <3>1. i \in DOMAIN fill_queue /\ fill_queue'[i] = fill_queue[i]
      <4>1. i \in Nat /\ j \in Nat /\ k \in Nat /\ j <= k
        BY <1>1, <1>5, <1>6
      <4>2. i # k
        BY <4>1
      <4> QED
        BY <1>6, <4>2
    <3>2. CASE j \in DOMAIN fill_queue /\ fill_queue'[j] = fill_queue[j]
      BY <3>1, <3>2 DEF WindowInv
    <3>3. CASE fill_queue'[j] = r
      BY <1>8, <1>9, <3>1, <3>3
    <3> QED
      BY <1>6, <3>2, <3>3
  <2>4. /\ seen_id_order_' \in Seq(Nat)
        /\ Len(seen_id_order_') <= kMaxSeenIds
        /\ \A i, j \in DOMAIN seen_id_order_' :
               i < j => seen_id_order_'[i] # seen_id_order_'[j]
                        /\ NotOld(seen_id_order_'[i], seen_id_order_'[j])
    BY DEF WindowInv
  <2> QED
    BY <2>1, <2>2, <2>3, <2>4 DEF WindowInv
<1>12. \A c : Countable(c)' \subseteq
           Countable(c) \cup (IF executions' # executions /\ c = b THEN {n + 1} ELSE {})
  <2> SUFFICES ASSUME NEW c, NEW i \in Countable(c)',
                      ~(executions' # executions /\ c = b /\ i = n + 1)
               PROVE  i \in Countable(c)
    OBVIOUS
  <2>1. /\ i \in 1 .. m /\ executions'[i] = c
        /\ ~Seen(i)'
        /\ i > m - Resent \/ Coming(i)'
    BY <1>3, <1>4 DEF Countable, ExecutionsOf
  <2>2. i \in 1 .. n /\ executions[i] = c
    BY <1>1, <1>2, <1>3, <1>4, <2>1
  <2>3. ~Seen(i)
    BY <2>1 DEF Seen
  <2>4. Coming(i)' => Coming(i) \/ i = r.id
    BY <1>6 DEF Coming
  <2>5. i > n - Resent \/ Coming(i)
    <3>1. CASE i > m - Resent
      BY <1>4, <1>7, <2>2, <3>1
    <3>2. CASE i = r.id
      <4>1. i > m - Resent
        BY SMTT(30), <1>7, <1>9, <2>2, <3>2
      <4> QED
        BY <1>4, <1>7, <2>2, <4>1
    <3> QED
      BY <2>1, <2>4, <3>1, <3>2
  <2> QED
    BY <1>2, <1>4, <2>2, <2>3, <2>5 DEF Countable, ExecutionsOf
<1> QED
  BY <1>2, <1>11, <1>12

------------------------------------------------------------------------------
(* Counting.                                                                *)

AmountTypes ==
    /\ \A b \in BrokerIds :
           /\ Executed(b) \in Nat
           /\ QueuedFor(b) \in Nat
           /\ IsFiniteSet(ExecutionsOf(b)) /\ Cardinality(ExecutionsOf(b)) \in Nat
           /\ IsFiniteSet(Countable(b)) /\ Cardinality(Countable(b)) \in Nat
           /\ Cardinality(Countable(b)) <= Cardinality(ExecutionsOf(b))
           /\ ToCount(b) \in Nat
    /\ \A l \in LocalIds : order_store_[l] # None => order_store_[l].filled_quantity \in Nat

LEMMA Amounts == VenueInv => AmountTypes
<1> SUFFICES ASSUME VenueInv PROVE AmountTypes
  OBVIOUS
<1>1. ASSUME NEW b \in BrokerIds
      PROVE  /\ Executed(b) \in Nat
             /\ QueuedFor(b) \in Nat
             /\ IsFiniteSet(ExecutionsOf(b)) /\ Cardinality(ExecutionsOf(b)) \in Nat
             /\ IsFiniteSet(Countable(b)) /\ Cardinality(Countable(b)) \in Nat
             /\ Cardinality(Countable(b)) <= Cardinality(ExecutionsOf(b))
             /\ ToCount(b) \in Nat
  <2>1. Executed(b) \in Nat
    BY DEF VenueInv, VenueType, VenueOrders, Executed
  <2>2. QueuedFor(b) \in Nat
    <3>1. queue_ \in Seq(Command \cup ReportEvent)
      BY DEF VenueInv, TrackingInv, TypeOK
    <3> QED
      BY <3>1, QueuedFinite, QueuedIs
  <2>3. IsFiniteSet(1 .. Len(executions)) /\ DOMAIN executions = 1 .. Len(executions)
    BY FS_Interval DEF VenueInv, FeedType
  <2>4. ExecutionsOf(b) \in SUBSET (1 .. Len(executions))
    BY <2>3 DEF ExecutionsOf
  <2>5. IsFiniteSet(ExecutionsOf(b)) /\ Cardinality(ExecutionsOf(b)) \in Nat
    BY <2>3, <2>4, FS_Subset, FS_CardinalityType
  <2>6. Countable(b) \in SUBSET ExecutionsOf(b)
    BY DEF Countable
  <2>7. /\ IsFiniteSet(Countable(b)) /\ Cardinality(Countable(b)) \in Nat
        /\ Cardinality(Countable(b)) <= Cardinality(ExecutionsOf(b))
    BY <2>5, <2>6, FS_Subset, FS_CardinalityType
  <2>8. ToCount(b) \in Nat
    BY <2>2, <2>7 DEF ToCount
  <2> QED
    BY <2>1, <2>2, <2>5, <2>7, <2>8
<1>2. \A l \in LocalIds : order_store_[l] # None => order_store_[l].filled_quantity \in Nat
  BY DEF VenueInv, TrackingInv, TypeOK, Table, StoredOrder
<1> QED
  BY <1>1, <1>2 DEF AmountTypes

LEMMA AmountsNext == VenueInv' => AmountTypes'
BY Amounts, PTL

\* What a step adds to what may be counted, the venue has executed.
MoreCounted ==
    \A b \in BrokerIds : /\ Executed(b) <= Executed(b)'
                         /\ Cardinality(ExecutionsOf(b))' <= Executed(b)'
                         /\ ToCount(b)' + Executed(b) <= ToCount(b) + Executed(b)'

TableKept == UNCHANGED <<order_store_, id_mapper_>>

\* A step of something other than the dispatch thread.
LEMMA CountStep ==
    ASSUME VenueInv, VenueInv', CountInv, TableKept, UnitReports', MoreCounted
    PROVE  CountInv'
<1> USE DEF MoreCounted, TableKept
<1>1. AmountTypes /\ AmountTypes'
  BY Amounts, AmountsNext
<1>2. ASSUME NEW b \in BrokerIds
      PROVE  ToCount(b)' <= Executed(b)'
  <2>1. /\ Executed(b) \in Nat /\ Executed(b)' \in Nat /\ ToCount(b) \in Nat
        /\ ToCount(b)' \in Nat
    BY <1>1 DEF AmountTypes
  <2>2. ToCount(b) <= Executed(b)
    BY DEF CountInv
  <2> QED
    BY <2>1, <2>2
<1>3. ASSUME NEW l \in LocalIds, NEW b \in BrokerIds
      PROVE  RowCounted(l, b)'
  <2> SUFFICES ASSUME order_store_[l] # None, order_store_[l].broker_id = b
               PROVE  /\ order_store_[l].filled_quantity <= Executed(b)'
                      /\ IsMapped(l) => order_store_[l].filled_quantity + ToCount(b)'
                                            <= Executed(b)'
    BY DEF RowCounted, IsMapped
  <2>1. /\ Executed(b) \in Nat /\ Executed(b)' \in Nat /\ ToCount(b) \in Nat
        /\ ToCount(b)' \in Nat /\ order_store_[l].filled_quantity \in Nat
    BY <1>1 DEF AmountTypes
  <2>2. /\ order_store_[l].filled_quantity <= Executed(b)
        /\ IsMapped(l) => order_store_[l].filled_quantity + ToCount(b) <= Executed(b)
    BY DEF CountInv, RowCounted
  <2> QED
    BY <2>1, <2>2
<1> QED
  BY <1>2, <1>3 DEF CountInv

\* An event is appended to the queue.
LEMMA QueueGrows ==
    ASSUME VenueInv, UnitReports, NEW e \in Command \cup ReportEvent,
           queue_' = Append(queue_, e),
           e.kind = "report" /\ e.report.status = "NONE" => e.report.filled_quantity = 1
    PROVE  /\ UnitReports'
           /\ \A b \in BrokerIds :
                  QueuedFor(b)' <= QueuedFor(b) + (IF Counts(e, b) THEN 1 ELSE 0)
<1>1. queue_ \in Seq(Command \cup ReportEvent)
  BY DEF VenueInv, TrackingInv, TypeOK
<1>2. \A b : Cardinality(QueuedIn(Append(queue_, e), b))
                 <= Cardinality(QueuedIn(queue_, b)) + (IF Counts(e, b) THEN 1 ELSE 0)
  BY <1>1, QueuedAppend
<1>3. \A b : QueuedFor(b)' = Cardinality(QueuedIn(queue_', b))
  BY DEF QueuedFor, QueuedIn, Counts
<1>4. \A b \in BrokerIds :
          QueuedFor(b)' <= QueuedFor(b) + (IF Counts(e, b) THEN 1 ELSE 0)
  BY <1>2, <1>3, QueuedIs
<1>5. \A i \in DOMAIN queue_' : queue_'[i] = e \/ (i \in DOMAIN queue_ /\ queue_'[i] = queue_[i])
  BY <1>1
<1>6. UnitReports'
  BY <1>5 DEF UnitReports
<1> QED
  BY <1>4, <1>6

\* The venue's counts stay, and no more can be counted than before.
CountsSame ==
    \A b \in BrokerIds : Executed(b)' = Executed(b) /\ ToCount(b)' <= ToCount(b)

LEMMA NothingCounted ==
    ASSUME VenueInv, VenueInv', CountInv, TableKept, UNCHANGED executions, UnitReports',
           CountsSame
    PROVE  CountInv'
<1>1. AmountTypes /\ AmountTypes'
  BY Amounts, AmountsNext
<1>2. ASSUME NEW b \in BrokerIds
      PROVE  /\ Executed(b) <= Executed(b)'
             /\ Cardinality(ExecutionsOf(b))' <= Executed(b)'
             /\ ToCount(b)' + Executed(b) <= ToCount(b) + Executed(b)'
  <2>1. /\ Executed(b) \in Nat /\ ToCount(b) \in Nat /\ ToCount(b)' \in Nat
    BY <1>1 DEF AmountTypes
  <2>2. Cardinality(ExecutionsOf(b))' <= Executed(b)'
    BY DEF CountInv, ExecutionsOf, CountsSame
  <2> QED
    BY <2>1, <2>2 DEF CountsSame
<1>3. MoreCounted
  BY <1>2 DEF MoreCounted
<1> QED
  BY <1>3, CountStep

\* What may be counted grows with neither the queue nor the window.
LEMMA ToCountShrinks ==
    ASSUME VenueInv, VenueInv', NEW b \in BrokerIds,
           QueuedFor(b)' <= QueuedFor(b),
           Countable(b)' \subseteq Countable(b)
    PROVE  ToCount(b)' <= ToCount(b)
<1>1. AmountTypes /\ AmountTypes'
  BY Amounts, AmountsNext
<1>2. /\ IsFiniteSet(Countable(b))
      /\ Cardinality(Countable(b)) \in Nat /\ Cardinality(Countable(b))' \in Nat
      /\ QueuedFor(b) \in Nat /\ QueuedFor(b)' \in Nat
  BY <1>1 DEF AmountTypes
<1>3. Countable(b)' \in SUBSET Countable(b)
  OBVIOUS
<1>4. Cardinality(Countable(b)') <= Cardinality(Countable(b))
  BY <1>2, <1>3, FS_Subset
<1>5. Cardinality(Countable(b))' = Cardinality(Countable(b)')
  OBVIOUS
<1> QED
  BY <1>2, <1>4, <1>5 DEF ToCount

\* A quiet step that reads no new execution.
LEMMA QuietCount ==
    ASSUME VenueInv, VenueInv', WindowInv, CountInv, Quiet, UNCHANGED seen_id_order_,
           \/ queue_' = queue_
           \/ \E e \in Command \cup ReportEvent :
                  /\ queue_' = Append(queue_, e)
                  /\ ~(e.kind = "report" /\ e.report.status = "NONE")
    PROVE  WindowInv' /\ CountInv'
<1>1. /\ UNCHANGED <<venue, executions, order_store_, id_mapper_>>
      /\ \/ fill_queue' = fill_queue
         \/ fill_queue' = <<>>
         \/ fill_queue # <<>> /\ fill_queue' = Tail(fill_queue)
  BY DEF Quiet
<1>2. WindowInv' /\ \A b : Countable(b)' \subseteq Countable(b)
  BY <1>1, WindowKept
<1>3. AmountTypes /\ AmountTypes'
  BY Amounts, AmountsNext
<1>4. UnitReports' /\ \A b \in BrokerIds : QueuedFor(b)' <= QueuedFor(b)
  <2>1. CASE queue_' = queue_
    <3>1. UnitReports'
      BY <2>1 DEF CountInv, UnitReports
    <3>2. \A b \in BrokerIds : QueuedFor(b)' = QueuedFor(b) /\ QueuedFor(b) \in Nat
      BY <1>3, <2>1 DEF QueuedFor, AmountTypes
    <3> QED
      BY <3>1, <3>2
  <2>2. ASSUME NEW e \in Command \cup ReportEvent, queue_' = Append(queue_, e),
               ~(e.kind = "report" /\ e.report.status = "NONE")
        PROVE  UnitReports' /\ \A b \in BrokerIds : QueuedFor(b)' <= QueuedFor(b)
    <3>1. UnitReports
      BY DEF CountInv
    <3>2. \A b \in BrokerIds : ~Counts(e, b)
      BY <2>2 DEF Counts
    <3>3. /\ UnitReports'
          /\ \A b \in BrokerIds :
                 QueuedFor(b)' <= QueuedFor(b) + (IF Counts(e, b) THEN 1 ELSE 0)
      BY <2>2, <3>1, QueueGrows
    <3>4. \A b \in BrokerIds : QueuedFor(b) \in Nat
      BY <1>3 DEF AmountTypes
    <3> QED
      BY <3>2, <3>3, <3>4
  <2> QED
    BY <2>1, <2>2
<1>5. \A b \in BrokerIds : ToCount(b)' <= ToCount(b)
  BY <1>2, <1>4, ToCountShrinks
<1>6. \A b \in BrokerIds : Executed(b)' = Executed(b)
  BY <1>1 DEF Executed
<1>7. CountsSame /\ TableKept
  BY <1>1, <1>5, <1>6 DEF CountsSame, TableKept
<1> QED
  BY <1>1, <1>2, <1>4, <1>7, NothingCounted

\* The fill handler is given an execution the gateway has not seen.
LEMMA NewExecutionCount ==
    ASSUME VenueInv, VenueInv', WindowInv, CountInv, Quiet, NEW r, r = Head(fill_queue),
           fill_queue # <<>>, fill_queue' = Tail(fill_queue),
           r.id # NoId, ~Seen(r.id), seen_id_order_' = Remember(r.id),
           queue_' = Append(queue_, [kind |-> "report", report |-> r.report])
    PROVE  WindowInv' /\ CountInv'
<1>1. UNCHANGED <<venue, executions, order_store_, id_mapper_>>
  BY DEF Quiet
<1>2. /\ WindowInv'
      /\ r.id \in Countable(executions[r.id])
      /\ \A b : Countable(b)' \subseteq Countable(b) \ {r.id}
  BY <1>1, WindowMoves
<1>3. /\ r \in FillReports
      /\ r.report.broker_id = executions[r.id] /\ r.report.status = "NONE"
      /\ r.report.filled_quantity = 1
  <2>1. /\ fill_queue \in Seq(FillReports)
        /\ \A k \in DOMAIN fill_queue : Carried(fill_queue[k])
    BY DEF VenueInv, FeedType
  <2>2. r \in FillReports /\ Carried(r)
    BY <2>1
  <2> QED
    BY <2>2 DEF Carried
<1>4. PICK e \in ReportEvent : e = [kind |-> "report", report |-> r.report]
  BY <1>3 DEF FillReports, ReportEvent
<1>5. \A b \in BrokerIds : Counts(e, b) <=> b = executions[r.id]
  BY <1>3, <1>4 DEF Counts
<1>6. e.report = r.report
  BY <1>4
<1>7. /\ UnitReports'
      /\ \A b \in BrokerIds :
             QueuedFor(b)' <= QueuedFor(b) + (IF Counts(e, b) THEN 1 ELSE 0)
  <2>1. queue_' = Append(queue_, e) /\ e \in Command \cup ReportEvent /\ UnitReports
    BY <1>4 DEF CountInv
  <2>2. e.kind = "report" /\ e.report.status = "NONE" => e.report.filled_quantity = 1
    BY <1>3, <1>6
  <2> QED
    BY <2>1, <2>2, QueueGrows, Zenon
<1>8. AmountTypes /\ AmountTypes'
  BY Amounts, AmountsNext
<1>9. ASSUME NEW b \in BrokerIds
      PROVE  ToCount(b)' <= ToCount(b)
  <2>1. /\ IsFiniteSet(Countable(b))
        /\ Cardinality(Countable(b)) \in Nat /\ Cardinality(Countable(b))' \in Nat
        /\ QueuedFor(b) \in Nat /\ QueuedFor(b)' \in Nat
    BY <1>8 DEF AmountTypes
  <2>2. CASE b # executions[r.id]
    <3>1. QueuedFor(b)' <= QueuedFor(b)
      BY <1>5, <1>7, <2>1, <2>2
    <3>2. Countable(b)' \subseteq Countable(b)
      BY <1>2
    <3> QED
      BY <3>1, <3>2, ToCountShrinks
  <2>3. CASE b = executions[r.id]
    <3>1. QueuedFor(b)' <= QueuedFor(b) + 1
      BY <1>5, <1>7, <2>1, <2>3
    <3>2. /\ IsFiniteSet(Countable(b) \ {r.id})
          /\ Cardinality(Countable(b) \ {r.id}) = Cardinality(Countable(b)) - 1
      BY <1>2, <2>1, <2>3, FS_RemoveElement
    <3>3. Countable(b)' \in SUBSET (Countable(b) \ {r.id})
      BY <1>2
    <3>4. Cardinality(Countable(b)') <= Cardinality(Countable(b) \ {r.id})
      BY <3>2, <3>3, FS_Subset
    <3>5. Cardinality(Countable(b))' = Cardinality(Countable(b)')
      OBVIOUS
    <3> QED
      BY <2>1, <3>1, <3>2, <3>4, <3>5 DEF ToCount
  <2> QED
    BY <2>2, <2>3
<1>10. \A b \in BrokerIds : Executed(b)' = Executed(b)
  BY <1>1 DEF Executed
<1>11. CountsSame /\ TableKept
  BY <1>1, <1>9, <1>10 DEF CountsSame, TableKept
<1> QED
  BY <1>1, <1>2, <1>7, <1>11, NothingCounted

LEMMA OneMore ==
    ASSUME NEW S, IsFiniteSet(S), NEW x, NEW T \in SUBSET (S \cup {x})
    PROVE  Cardinality(T) <= Cardinality(S) + 1
<1>1. Cardinality(S) \in Nat
  BY FS_CardinalityType
<1>2. /\ IsFiniteSet(S \cup {x})
      /\ Cardinality(S \cup {x}) = IF x \in S THEN Cardinality(S) ELSE Cardinality(S) + 1
  BY FS_AddElement
<1>3. IsFiniteSet(T) /\ Cardinality(T) <= Cardinality(S \cup {x})
  BY <1>2, FS_Subset
<1>4. Cardinality(T) \in Nat
  BY <1>3, FS_CardinalityType
<1> QED
  BY <1>1, <1>2, <1>3, <1>4

\* The venue has the order, or the adapter can route it: nothing is executed.
LEMMA PlaceCount ==
    ASSUME VenueInv, VenueInv', WindowInv, CountInv,
           (\E answered \in BOOLEAN : Place(answered)) \/ RouteOrder
    PROVE  WindowInv' /\ CountInv'
<1>1. UNCHANGED <<queue_, order_store_, id_mapper_, executions, seen_id_order_, fill_queue>>
  BY DEF Place, RouteOrder, Route, omVars, gatewayVars, adapterVars
<1>2. WindowInv' /\ \A b : Countable(b)' \subseteq Countable(b)
  BY <1>1, WindowKept
<1>3. \A b \in BrokerIds : Executed(b)' = Executed(b)
  <2>1. ASSUME NEW answered \in BOOLEAN, Place(answered), NEW b \in BrokerIds
        PROVE  Executed(b)' = Executed(b)
    <3>1. /\ venue[PlacedId(answered)] = None
          /\ venue'[PlacedId(answered)] = NewOrder(event.signal)
          /\ NewOrder(event.signal) \in VenueOrders
          /\ \A c \in BrokerIds \ {PlacedId(answered)} : venue'[c] = Kill(ReplacedId)[c]
      BY <2>1, CallBegins
    <3>2. CASE b = PlacedId(answered)
      BY <3>1, <3>2 DEF Executed, NewOrder
    <3>3. CASE b # PlacedId(answered)
      <4>1. /\ Kill(ReplacedId)[b] = None <=> venue[b] = None
            /\ venue[b] # None => Kill(ReplacedId)[b].executed = venue[b].executed
        BY KillEffect DEF VenueInv
      <4>2. venue'[b] = Kill(ReplacedId)[b]
        BY <3>1, <3>3
      <4> QED
        BY <4>1, <4>2 DEF Executed
    <3> QED
      BY <3>2, <3>3
  <2>2. CASE RouteOrder
    BY <2>2 DEF RouteOrder, Executed
  <2> QED
    BY <2>1, <2>2
<1>4. AmountTypes
  BY Amounts
<1>5. \A b \in BrokerIds : QueuedFor(b)' = QueuedFor(b) /\ QueuedFor(b) \in Nat
  BY <1>1, <1>4 DEF QueuedFor, AmountTypes
<1>6. \A b \in BrokerIds : ToCount(b)' <= ToCount(b)
  BY <1>2, <1>5, ToCountShrinks
<1>7. CountsSame /\ TableKept
  BY <1>1, <1>3, <1>6 DEF CountsSame, TableKept
<1>8. UnitReports'
  BY <1>1 DEF CountInv, UnitReports
<1> QED
  BY <1>1, <1>2, <1>7, <1>8, NothingCounted

\* The venue executes an order, or sends a report again, or ends an order.
LEMMA SentCount ==
    ASSUME VenueInv, VenueInv', WindowInv, CountInv,
           UNCHANGED <<queue_, order_store_, id_mapper_, seen_id_order_>>,
           NEW r \in FillReports, NEW b \in BrokerIds,
           fill_queue' = fill_queue \/ fill_queue' = Append(fill_queue, r),
           \/ /\ executions' = executions
              /\ \A c \in BrokerIds : Executed(c)' = Executed(c)
              /\ r.id = NoId \/ (r.id \in DOMAIN executions' /\ r.id > Len(executions') - Resent)
           \/ /\ executions' = Append(executions, b) /\ r.id = Len(executions')
              /\ Executed(b)' = Executed(b) + 1
              /\ \A c \in BrokerIds \ {b} : Executed(c)' = Executed(c)
    PROVE  WindowInv' /\ CountInv'
<1>1. /\ WindowInv'
      /\ \A c : Countable(c)' \subseteq
             Countable(c) \cup (IF executions' # executions /\ c = b
                                THEN {Len(executions) + 1} ELSE {})
  BY WindowSent
<1>2. AmountTypes /\ AmountTypes'
  BY Amounts, AmountsNext
<1>3. TableKept /\ UnitReports'
  BY DEF TableKept, CountInv, UnitReports
<1>4. \A c \in BrokerIds : QueuedFor(c)' = QueuedFor(c) /\ QueuedFor(c) \in Nat
  BY <1>2 DEF QueuedFor, AmountTypes
<1>5. CASE executions' = executions /\ \A c \in BrokerIds : Executed(c)' = Executed(c)
  <2>1. \A c \in BrokerIds : Countable(c)' \subseteq Countable(c)
    BY <1>1, <1>5
  <2>2. CountsSame
    BY <1>4, <1>5, <2>1, ToCountShrinks DEF CountsSame
  <2> QED
    BY <1>1, <1>3, <1>5, <2>2, NothingCounted
<1>6. CASE /\ executions' = Append(executions, b)
           /\ Executed(b)' = Executed(b) + 1
           /\ \A c \in BrokerIds \ {b} : Executed(c)' = Executed(c)
  <2>1. PICK n : n = Len(executions) + 1
    OBVIOUS
  <2>2. \A c \in BrokerIds : ExecutionsOf(c)' \subseteq
            ExecutionsOf(c) \cup (IF c = b THEN {n} ELSE {})
    <3>1. executions \in Seq(BrokerIds)
      BY DEF VenueInv, FeedType
    <3>2. \A i \in DOMAIN executions' :
              \/ i \in DOMAIN executions /\ executions'[i] = executions[i]
              \/ i = n /\ executions'[i] = b
      BY <1>6, <2>1, <3>1
    <3> QED
      BY <3>2 DEF ExecutionsOf
  <2>3. ASSUME NEW c \in BrokerIds
        PROVE  /\ Executed(c) <= Executed(c)'
               /\ Cardinality(ExecutionsOf(c))' <= Executed(c)'
               /\ ToCount(c)' + Executed(c) <= ToCount(c) + Executed(c)'
    <3>1. /\ Executed(c) \in Nat /\ Executed(c)' \in Nat
          /\ IsFiniteSet(ExecutionsOf(c)) /\ Cardinality(ExecutionsOf(c)) \in Nat
          /\ Cardinality(ExecutionsOf(c))' \in Nat
          /\ IsFiniteSet(Countable(c)) /\ Cardinality(Countable(c)) \in Nat
          /\ Cardinality(Countable(c))' \in Nat
          /\ ToCount(c) \in Nat /\ ToCount(c)' \in Nat
      BY <1>2 DEF AmountTypes
    <3>2. Cardinality(ExecutionsOf(c)) <= Executed(c)
      BY DEF CountInv
    <3>3. /\ Cardinality(ExecutionsOf(c))' = Cardinality(ExecutionsOf(c)')
          /\ Cardinality(Countable(c))' = Cardinality(Countable(c)')
      OBVIOUS
    <3>4. CASE c = b
      <4>1. ExecutionsOf(c)' \in SUBSET (ExecutionsOf(c) \cup {n})
        BY <2>2, <3>4
      <4>2. Cardinality(ExecutionsOf(c)') <= Cardinality(ExecutionsOf(c)) + 1
        BY <3>1, <4>1, OneMore
      <4>3. Countable(c)' \in SUBSET (Countable(c) \cup {n})
        BY <1>1, <2>1
      <4>4. Cardinality(Countable(c)') <= Cardinality(Countable(c)) + 1
        BY <3>1, <4>3, OneMore
      <4>5. ToCount(c)' <= ToCount(c) + 1
        BY <1>4, <3>1, <3>3, <4>4 DEF ToCount
      <4>6. Executed(c)' = Executed(c) + 1
        BY <1>6, <3>4
      <4> QED
        BY <3>1, <3>2, <3>3, <4>2, <4>5, <4>6
    <3>5. CASE c # b
      <4>1. ExecutionsOf(c)' \in SUBSET ExecutionsOf(c)
        BY <2>2, <3>5
      <4>2. Cardinality(ExecutionsOf(c)') <= Cardinality(ExecutionsOf(c))
        BY <3>1, <4>1, FS_Subset
      <4>3. Countable(c)' \subseteq Countable(c)
        BY <1>1, <3>5
      <4>4. ToCount(c)' <= ToCount(c)
        BY <1>4, <4>3, ToCountShrinks
      <4>5. Executed(c)' = Executed(c)
        BY <1>6, <3>5
      <4> QED
        BY <3>1, <3>2, <3>3, <4>2, <4>4, <4>5
    <3> QED
      BY <3>4, <3>5
  <2>4. MoreCounted
    BY <2>3 DEF MoreCounted
  <2> QED
    BY <1>1, <1>3, <2>4, CountStep
<1> QED
  BY <1>5, <1>6

\* The venue.
LEMMA VenueCount ==
    ASSUME VenueInv, VenueInv', WindowInv, CountInv, Venue
    PROVE  WindowInv' /\ CountInv'
<1>1. UNCHANGED <<queue_, order_store_, id_mapper_, seen_id_order_>>
  BY DEF Venue, Execute, EndOrder, Resend, omVars, gatewayVars
<1>2. VenueType /\ FeedType
  BY DEF VenueInv
<1>3. ASSUME NEW id, NEW b, NEW qty, NEW status, Send(id, b, qty, status)
      PROVE  \/ fill_queue' = fill_queue
             \/ fill_queue' = Append(fill_queue, [id |-> id, report |-> Report(b, qty, status)])
  BY <1>3 DEF Send, PutReport
<1>4. ASSUME NEW b \in BrokerIds, Execute(b)
      PROVE  WindowInv' /\ CountInv'
  <2>1. /\ venue[b] # None /\ venue'[b] # None
        /\ venue[b].executed \in Nat /\ venue[b].order.quantity \in Nat
        /\ venue[b].executed < venue[b].order.quantity
        /\ venue'[b].executed = venue[b].executed + 1
        /\ \A c \in BrokerIds \ {b} : venue'[c] = venue[c]
    BY <1>2, <1>4, ExecuteEffect
  <2>2. /\ Executed(b)' = Executed(b) + 1
        /\ \A c \in BrokerIds \ {b} : Executed(c)' = Executed(c)
    BY <2>1 DEF Executed
  <2>3. Len(executions') \in Nat /\ executions' = Append(executions, b)
    BY <1>2, <1>4 DEF Execute, FeedType
  <2>4. Report(b, 1, "NONE") \in Reports
    BY <1>2, <2>1, ReportType
  <2>5. PICK r \in FillReports : r = [id |-> Len(executions'), report |-> Report(b, 1, "NONE")]
    BY <2>3, <2>4 DEF FillReports
  <2>6. fill_queue' = fill_queue \/ fill_queue' = Append(fill_queue, r)
    BY <1>3, <1>4, <2>5 DEF Execute
  <2>7. r.id = Len(executions')
    BY <2>5
  <2> QED
    BY <1>1, <2>2, <2>3, <2>6, <2>7, SentCount
<1>5. ASSUME NEW b \in BrokerIds, EndOrder(b, "CANCELLED")
      PROVE  WindowInv' /\ CountInv'
  <2>1. /\ b \in Live
        /\ venue' = Kill({b})
        /\ executions' = executions
        /\ Send(NoId, b, 0, "CANCELLED")
    BY <1>5 DEF EndOrder
  <2>2. \A c \in BrokerIds : Executed(c)' = Executed(c)
    BY <1>2, <2>1, KillEffect DEF Executed
  <2>3. venue[b] # None /\ venue[b].order.quantity \in Nat
    BY <1>2, <2>1, SignalAssumption DEF Live, VenueType, VenueOrders, Signals
  <2>4. Report(b, 0, "CANCELLED") \in Reports
    BY <1>2, <2>3, ReportType
  <2>5. PICK r \in FillReports : r = [id |-> NoId, report |-> Report(b, 0, "CANCELLED")]
    BY <2>4 DEF FillReports
  <2>6. fill_queue' = fill_queue \/ fill_queue' = Append(fill_queue, r)
    BY <1>3, <2>1, <2>5
  <2>7. r.id = NoId
    BY <2>5
  <2> QED
    BY <1>1, <2>1, <2>2, <2>6, <2>7, SentCount
<1>6. ASSUME NEW id \in DOMAIN executions, Resend(id)
      PROVE  WindowInv' /\ CountInv'
  <2>1. PICK b : b = executions[id]
    OBVIOUS
  <2>2. /\ executions' = executions /\ UNCHANGED venue
        /\ Send(id, b, 1, "NONE")
        /\ id > Len(executions') - Resent
    BY <1>6, <2>1 DEF Resend
  <2>3. \A c \in BrokerIds : Executed(c)' = Executed(c)
    BY <2>2 DEF Executed
  <2>4. /\ b \in BrokerIds /\ id \in Nat
        /\ venue[b] # None /\ venue[b].order.quantity >= 1
    BY <1>2, <1>6, <2>1 DEF FeedType
  <2>5. Report(b, 1, "NONE") \in Reports
    BY <1>2, <2>4, ReportType
  <2>6. PICK r \in FillReports : r = [id |-> id, report |-> Report(b, 1, "NONE")]
    BY <2>4, <2>5 DEF FillReports
  <2>7. fill_queue' = fill_queue \/ fill_queue' = Append(fill_queue, r)
    BY <1>3, <2>2, <2>6
  <2>8. r.id = id /\ id \in DOMAIN executions'
    BY <2>2, <2>6
  <2> QED
    BY <1>1, <2>2, <2>3, <2>4, <2>7, <2>8, SentCount
<1> QED
  BY <1>4, <1>5, <1>6 DEF Venue

\* A handler keeps, restates or enters rows, or credits one.
LEMMA HandlerRows ==
    ASSUME TrackingInv, run_dispatch_loop
    PROVE  \/ \A l \in LocalIds : RowStep(l, LocalIds)
           \/ Dispatch("report") /\ Crediting
<1>1. ASSUME NEW closing, NEW l \in LocalIds, RowStep(l, closing)
      PROVE  RowStep(l, LocalIds)
  BY <1>1 DEF RowStep
<1>2. ASSUME NEW fail, handle_fill(fail)
      PROVE  \/ \A l \in LocalIds : RowStep(l, LocalIds)
             \/ Dispatch("report") /\ Crediting
  <2>1. Dispatch("report") /\ (UNCHANGED order_store_ \/ Ending \/ Crediting)
    BY <1>2, FillRowStep
  <2>2. CASE UNCHANGED order_store_
    BY <2>2 DEF RowStep
  <2>3. CASE Ending
    BY <1>1, <2>3 DEF Ending
  <2> QED
    BY <2>1, <2>2, <2>3
<1> QED
  BY <1>1, <1>2, SubmitRowStep, CancelRowStep, ReplaceRowStep, CancelAllRowStep
  DEF run_dispatch_loop

\* The event a handler takes is no longer to be counted.
LEMMA QueueShrinks ==
    ASSUME VenueInv, UnitReports, queue_ # <<>>, queue_' = Tail(queue_)
    PROVE  /\ UnitReports'
           /\ \A b \in BrokerIds :
                  QueuedFor(b)' + (IF Counts(event, b) THEN 1 ELSE 0) <= QueuedFor(b)
           /\ event.kind = "report" /\ event.report.status = "NONE" =>
                  event.report.filled_quantity = 1
<1>1. queue_ \in Seq(Command \cup ReportEvent)
  BY DEF VenueInv, TrackingInv, TypeOK
<1>2. \A b : Cardinality(QueuedIn(Tail(queue_), b)) + (IF Counts(Head(queue_), b) THEN 1 ELSE 0)
                 <= Cardinality(QueuedIn(queue_, b))
  BY <1>1, QueuedTail
<1>3. \A b : QueuedFor(b)' = Cardinality(QueuedIn(queue_', b))
  BY DEF QueuedFor, QueuedIn, Counts
<1>4. \A b \in BrokerIds :
          QueuedFor(b)' + (IF Counts(event, b) THEN 1 ELSE 0) <= QueuedFor(b)
  BY <1>2, <1>3, QueuedIs DEF event
<1>5. /\ \A i \in DOMAIN queue_' : i + 1 \in DOMAIN queue_ /\ queue_'[i] = queue_[i + 1]
      /\ 1 \in DOMAIN queue_ /\ event = queue_[1]
  BY <1>1 DEF event
<1>6. UnitReports'
  BY <1>5 DEF UnitReports
<1>7. event.kind = "report" /\ event.report.status = "NONE" => event.report.filled_quantity = 1
  BY <1>5 DEF UnitReports
<1> QED
  BY <1>4, <1>6, <1>7

\* The dispatch thread.  What a handler adds to a row was in the queue.
LEMMA HandlerCount ==
    ASSUME VenueInv, VenueInv', WindowInv, CountInv, DispatchThread
    PROVE  WindowInv' /\ CountInv'
<1>1. run_dispatch_loop /\ TrackingInv
  BY DispatchRuns DEF VenueInv
<1>2. UNCHANGED <<executions, fill_queue, seen_id_order_>>
  BY DEF DispatchThread, AdapterSubmit, AdapterReplace, AdapterCancel, AdapterCancelAll,
         NoEffect, Return, Cancels, gatewayVars, adapterVars, venueVars
<1>3. \A b \in BrokerIds : Executed(b)' = Executed(b)
  <2>1. venue' = venue \/ \E orders : venue' = Kill(orders)
    BY DEF DispatchThread, AdapterSubmit, AdapterReplace, AdapterCancel, AdapterCancelAll,
           NoEffect, Return, Cancels, venueVars
  <2>2. CASE venue' = venue
    BY <2>2 DEF Executed
  <2>3. ASSUME NEW orders, venue' = Kill(orders)
        PROVE  \A b \in BrokerIds : Executed(b)' = Executed(b)
    BY <2>3, KillEffect DEF VenueInv, Executed
  <2> QED
    BY <2>1, <2>2, <2>3
<1>4. queue_ # <<>> /\ queue_' = Tail(queue_)
  <2>1. \E kind : Dispatch(kind)
    BY <1>1 DEF run_dispatch_loop, handle_submit_command, SubmitNotStored, SubmitRefusedByRisk,
                SubmitRejectedByGateway, SubmitNotRecorded, SubmitAccepted,
                handle_cancel_command, CancelUnknown, CancelRefusedByGateway, Refuse,
                CancelNotRecorded, CancelDone, handle_replace_command, ReplaceUnknown,
                ReplaceRejectedByGateway, ReplaceNotRecorded, ReplaceDone,
                handle_cancel_all_command, handle_fill, FillUnknown, FillTerminal,
                FillNotApplied, FillApplied
  <2> QED
    BY <2>1 DEF Dispatch
<1>5. WindowInv' /\ \A b : Countable(b)' \subseteq Countable(b)
  BY <1>2, WindowKept
<1>6. UnitReports
  BY DEF CountInv
<1>7. /\ UnitReports'
      /\ \A b \in BrokerIds :
             QueuedFor(b)' + (IF Counts(event, b) THEN 1 ELSE 0) <= QueuedFor(b)
      /\ event.kind = "report" /\ event.report.status = "NONE" =>
             event.report.filled_quantity = 1
  BY <1>4, <1>6, QueueShrinks
<1>8. AmountTypes /\ AmountTypes'
  BY Amounts, AmountsNext
<1>9. ASSUME NEW b \in BrokerIds
      PROVE  ToCount(b)' + (IF Counts(event, b) THEN 1 ELSE 0) <= ToCount(b)
  <2>1. /\ IsFiniteSet(Countable(b))
        /\ Cardinality(Countable(b)) \in Nat /\ Cardinality(Countable(b))' \in Nat
        /\ QueuedFor(b) \in Nat /\ QueuedFor(b)' \in Nat
    BY <1>8 DEF AmountTypes
  <2>2. Countable(b)' \in SUBSET Countable(b)
    BY <1>5
  <2>3. Cardinality(Countable(b)') <= Cardinality(Countable(b))
    BY <2>1, <2>2, FS_Subset
  <2>4. Cardinality(Countable(b))' = Cardinality(Countable(b)')
    OBVIOUS
  <2>5. QueuedFor(b)' + (IF Counts(event, b) THEN 1 ELSE 0) <= QueuedFor(b)
    BY <1>7
  <2> QED
    BY <2>1, <2>3, <2>4, <2>5 DEF ToCount
<1>10. ASSUME NEW b \in BrokerIds
       PROVE  /\ ToCount(b) \in Nat /\ ToCount(b)' \in Nat /\ Executed(b) \in Nat
              /\ ToCount(b)' <= ToCount(b) /\ ToCount(b) <= Executed(b)
              /\ Counts(event, b) => ToCount(b)' + 1 <= ToCount(b)
  <2>1. ToCount(b) \in Nat /\ ToCount(b)' \in Nat /\ Executed(b) \in Nat
    BY <1>8 DEF AmountTypes
  <2>2. ToCount(b)' + (IF Counts(event, b) THEN 1 ELSE 0) <= ToCount(b)
    BY <1>9
  <2>3. ToCount(b) <= Executed(b)
    BY DEF CountInv
  <2> QED
    BY <2>1, <2>2, <2>3
<1>11. ASSUME NEW b \in BrokerIds
       PROVE  /\ Cardinality(ExecutionsOf(b))' <= Executed(b)'
              /\ ToCount(b)' <= Executed(b)'
  <2>1. Cardinality(ExecutionsOf(b))' <= Executed(b)'
    BY <1>2, <1>3 DEF CountInv, ExecutionsOf
  <2> QED
    BY <1>3, <1>10, <2>1
<1>12. \A l \in LocalIds : order_store_[l] # None => l # id_generator_
  BY <1>1, FreshAndWorking
<1>13. ASSUME NEW l \in LocalIds, l # id_generator_
       PROVE  IsMapped(l)' => IsMapped(l)
  BY <1>1, <1>13, MapStep DEF IsMapped
<1>14. ASSUME NEW l \in LocalIds, NEW b \in BrokerIds,
              RowStep(l, LocalIds) \/ order_store_'[l] = order_store_[l]
       PROVE  RowCounted(l, b)'
  <2> SUFFICES ASSUME order_store_'[l] # None, order_store_'[l].broker_id = b
               PROVE  /\ order_store_'[l].filled_quantity <= Executed(b)'
                      /\ IsMapped(l)' => order_store_'[l].filled_quantity + ToCount(b)'
                                            <= Executed(b)'
    BY DEF RowCounted
  <2>1. order_store_'[l].filled_quantity \in Nat
    BY <1>8 DEF AmountTypes
  <2>2. CASE /\ order_store_[l] # None
             /\ order_store_[l].broker_id = b
             /\ order_store_[l].filled_quantity = order_store_'[l].filled_quantity
    <3>1. /\ order_store_[l].filled_quantity <= Executed(b)
          /\ IsMapped(l) => order_store_[l].filled_quantity + ToCount(b) <= Executed(b)
      BY <2>2 DEF CountInv, RowCounted
    <3>2. IsMapped(l)' => IsMapped(l)
      BY <1>12, <1>13, <2>2
    <3> QED
      BY <1>3, <1>10, <2>1, <2>2, <3>1, <3>2
  <2>3. CASE order_store_'[l].filled_quantity = 0
    BY <1>3, <1>10, <2>3
  <2> QED
    BY <1>14, <2>2, <2>3 DEF RowStep, Restated, Entered
<1>15. CASE \A l \in LocalIds : RowStep(l, LocalIds)
  BY <1>5, <1>7, <1>11, <1>14, <1>15 DEF CountInv
<1>16. CASE Dispatch("report") /\ Crediting
  <2>1. event.kind = "report" /\ fill.status = "NONE" /\ fill.filled_quantity = 1
    BY <1>7, <1>16 DEF Dispatch, Crediting, fill
  <2>2. PICK k \in LocalIds : k = filled_local_id
    BY <1>16 DEF Crediting
  <2>3. /\ get_broker_id(id_mapper_, k) = fill.broker_id
        /\ Credited(order_store_[k], order_store_'[k], fill.filled_quantity)
        /\ \A l \in LocalIds \ {k} : order_store_'[l] = order_store_[l]
    BY <1>16, <2>2 DEF Crediting
  <2>4. ASSUME NEW b \in BrokerIds
        PROVE  RowCounted(k, b)'
    <3> SUFFICES ASSUME order_store_'[k].broker_id = b
                 PROVE  /\ order_store_'[k].filled_quantity <= Executed(b)'
                        /\ order_store_'[k].filled_quantity + ToCount(b)' <= Executed(b)'
      BY DEF RowCounted
    <3>1. /\ order_store_[k] # None
          /\ order_store_[k].broker_id = b
          /\ order_store_'[k].filled_quantity = order_store_[k].filled_quantity + 1
      BY <2>1, <2>3 DEF Credited
    <3>2. b # None
      BY OrderIdsAssumption DEF BrokerIds
    <3>3. IsMapped(k)
      <4>1. fill.broker_id \in BrokerIds
        <5>1. event \in Command \cup ReportEvent
          BY <1>1, <1>4 DEF TrackingInv, TypeOK, event
        <5>2. event \in ReportEvent
          BY <2>1, <5>1 DEF Command, SubmitCommand, CancelCommand, ReplaceCommand,
                            CancelAllCommand
        <5> QED
          BY <5>2 DEF ReportEvent, Reports, fill
      <4> QED
        BY <2>3, <4>1, OrderIdsAssumption DEF IsMapped, BrokerIds
    <3>4. fill.broker_id = b
      BY <1>1, <2>3, <3>1, <3>2, <3>3 DEF TrackingInv, MappedOrdersAreOpen, Mapped
    <3>5. Counts(event, b)
      BY <2>1, <3>4 DEF Counts, fill
    <3>6. order_store_[k].filled_quantity + ToCount(b) <= Executed(b)
      BY <3>1, <3>3 DEF CountInv, RowCounted
    <3>7. order_store_[k].filled_quantity \in Nat
      BY <1>8, <3>1 DEF AmountTypes
    <3>8. ToCount(b)' + 1 <= ToCount(b) /\ ToCount(b) \in Nat /\ ToCount(b)' \in Nat
      BY <1>10, <3>5
    <3>9. Executed(b)' = Executed(b) /\ Executed(b) \in Nat
      BY <1>3, <1>10
    <3> QED
      BY <3>1, <3>6, <3>7, <3>8, <3>9
  <2>5. \A l \in LocalIds, b \in BrokerIds : RowCounted(l, b)'
    BY <1>14, <2>3, <2>4
  <2> QED
    BY <1>5, <1>7, <1>11, <2>5 DEF CountInv
<1> QED
  BY <1>1, <1>15, <1>16, HandlerRows

\* A crash: the queue and the window are lost, and nothing stays mapped.
LEMMA CrashCount ==
    ASSUME VenueInv, VenueInv', WindowInv, CountInv,
           NEW table \in Interrupted, Crash(table)
    PROVE  WindowInv' /\ CountInv'
<1>1. /\ queue_' = <<>> /\ seen_id_order_' = <<>> /\ fill_queue' = <<>>
      /\ id_mapper_' = EmptyMapper
      /\ UNCHANGED <<venue, executions>>
  BY DEF Crash
<1>2. WindowInv'
  BY <1>1, SeenAssumption DEF WindowInv
<1>3. UnitReports'
  BY <1>1 DEF UnitReports
<1>4. \A l \in LocalIds : ~IsMapped(l)'
  BY <1>1 DEF IsMapped, EmptyMapper, get_broker_id
<1>5. AmountTypes /\ AmountTypes'
  BY Amounts, AmountsNext
<1>6. \A b \in BrokerIds : Executed(b)' = Executed(b)
  BY <1>1 DEF Executed
<1>7. ASSUME NEW b \in BrokerIds
      PROVE  /\ Cardinality(ExecutionsOf(b))' <= Executed(b)'
             /\ ToCount(b)' <= Executed(b)'
  <2>1. Cardinality(ExecutionsOf(b))' <= Executed(b)'
    BY <1>1, <1>6 DEF CountInv, ExecutionsOf
  <2>2. QueuedFor(b)' = 0
    <3>1. QueuedFor(b)' = Cardinality({})
      <4>1. {i \in DOMAIN queue_' : /\ queue_'[i].kind = "report"
                                    /\ queue_'[i].report.broker_id = b
                                    /\ queue_'[i].report.status = "NONE"} = {}
        BY <1>1
      <4> QED
        BY <4>1 DEF QueuedFor
    <3> QED
      BY <3>1, FS_EmptySet
  <2>3. /\ Cardinality(Countable(b))' <= Cardinality(ExecutionsOf(b))'
        /\ Cardinality(Countable(b))' \in Nat
        /\ Cardinality(ExecutionsOf(b))' \in Nat
        /\ Executed(b)' \in Nat
    BY <1>5 DEF AmountTypes
  <2> QED
    BY <2>1, <2>2, <2>3 DEF ToCount
<1>8. ASSUME NEW l \in LocalIds, NEW b \in BrokerIds
      PROVE  RowCounted(l, b)'
  <2> SUFFICES ASSUME order_store_'[l] # None, order_store_'[l].broker_id = b
               PROVE  order_store_'[l].filled_quantity <= Executed(b)'
    BY <1>4 DEF RowCounted
  <2>1. \/ order_store_'[l] = order_store_[l]
        \/ Restated(order_store_[l], order_store_'[l])
        \/ Entered(order_store_[l], order_store_'[l], event.signal, None)
    BY CrashRows
  <2>2. Executed(b)' = Executed(b) /\ Executed(b) \in Nat
    BY <1>5, <1>6 DEF AmountTypes
  <2>3. CASE order_store_'[l].filled_quantity = 0
    BY <2>2, <2>3
  <2>4. CASE /\ order_store_[l] # None
             /\ order_store_[l].broker_id = b
             /\ order_store_[l].filled_quantity = order_store_'[l].filled_quantity
    BY <2>2, <2>4 DEF CountInv, RowCounted
  <2> QED
    BY <2>1, <2>3, <2>4 DEF Restated, Entered
<1> QED
  BY <1>2, <1>3, <1>7, <1>8 DEF CountInv

\* The steps of the clients, of the stream thread and of the adapter's handlers.
LEMMA QuietStepsCount ==
    ASSUME VenueInv, VenueInv', WindowInv, CountInv,
           \/ Commands \/ StreamLoop \/ SkipDuplicate \/ DeliverReport \/ BreakLink
           \/ HandleStream \/ UNCHANGED vars
    PROVE  WindowInv' /\ CountInv'
<1>1. Quiet
  BY QuietSteps
<1>2. CASE Commands
  <2>1. UNCHANGED seen_id_order_ /\ ClientStep
    BY <1>2 DEF Commands, gatewayVars
  <2>2. queue_' = queue_ \/ \E e \in Command : queue_' = Append(queue_, e)
    BY <2>1 DEF ClientStep, SubmitSignal, CancelSignal, ReplaceSignal, cancel_all,
                process_signal, set_fill_sink, clear_fill_sink, SwitchFillSink, enqueue,
                Command, SubmitCommand, CancelCommand, ReplaceCommand, CancelAllCommand
  <2>3. \A e \in Command : e.kind # "report"
    BY DEF Command, SubmitCommand, CancelCommand, ReplaceCommand, CancelAllCommand
  <2> QED
    BY <1>1, <2>1, <2>2, <2>3, QuietCount
<1>3. CASE StreamLoop \/ HandleStream \/ SkipDuplicate \/ BreakLink \/ UNCHANGED vars
  <2>1. UNCHANGED seen_id_order_ /\ queue_' = queue_
    BY <1>3 DEF StreamLoop, run_fill_stream, Open, HandleStream, SkipDuplicate, ReadDuplicate,
                BreakLink, Disconnect, vars, omVars, gatewayVars
  <2> QED
    BY <1>1, <2>1, QuietCount
<1>4. CASE DeliverReport
  <2>1. PICK r \in Range(fill_queue) : ReadNew(r) /\ GatewayReport(r.report)
    BY <1>4 DEF DeliverReport
  <2>2. /\ fill_queue # <<>> /\ fill_queue' = Tail(fill_queue) /\ r = Head(fill_queue)
        /\ queue_' = Append(queue_, [kind |-> "report", report |-> r.report])
        /\ \/ r.id = NoId /\ UNCHANGED seen_id_order_
           \/ r.id # NoId /\ ~Seen(r.id) /\ seen_id_order_' = Remember(r.id)
    BY <2>1 DEF ReadNew, Read, GatewayReport, enqueue
  <2>3. CASE r.id # NoId /\ ~Seen(r.id) /\ seen_id_order_' = Remember(r.id)
    BY <1>1, <2>2, <2>3, NewExecutionCount
  <2>4. CASE r.id = NoId /\ UNCHANGED seen_id_order_
    <3>1. /\ fill_queue \in Seq(FillReports)
          /\ \A k \in DOMAIN fill_queue : Carried(fill_queue[k])
      BY DEF VenueInv, FeedType
    <3>2. r \in FillReports /\ Carried(r)
      BY <2>2, <3>1
    <3>3. NoId \notin DOMAIN executions
      BY SeenAssumption DEF VenueInv, FeedType
    <3>4. r.report.status = "CANCELLED"
      BY <2>4, <3>2, <3>3 DEF Carried
    <3>5. PICK e \in ReportEvent : e = [kind |-> "report", report |-> r.report]
      BY <3>2 DEF FillReports, ReportEvent
    <3>6. queue_' = Append(queue_, e) /\ e.report.status # "NONE"
      BY <2>2, <3>4, <3>5
    <3> QED
      BY <1>1, <2>4, <3>6, QuietCount
  <2> QED
    BY <2>2, <2>3, <2>4
<1> QED
  BY <1>2, <1>3, <1>4

CountedInv == VenueInv /\ WindowInv /\ CountInv

LEMMA NextCounted == CountedInv /\ [AdapterTradingNext]_vars => CountedInv'
<1> SUFFICES ASSUME CountedInv, [AdapterTradingNext]_vars PROVE CountedInv'
  OBVIOUS
<1>1. VenueInv /\ WindowInv /\ CountInv
  BY DEF CountedInv
<1>2. VenueInv'
  BY <1>1, NextVenue
<1>3. WindowInv' /\ CountInv'
  BY <1>1, <1>2, QuietStepsCount, PlaceCount, HandlerCount, VenueCount, CrashCount
  DEF AdapterTradingNext
<1> QED
  BY <1>2, <1>3 DEF CountedInv

LEMMA InitCounted == AdapterTradingInit => CountedInv
<1> SUFFICES ASSUME AdapterTradingInit PROVE CountedInv
  OBVIOUS
<1>1. VenueInv
  BY InitVenue
<1>2. /\ queue_ = <<>> /\ seen_id_order_ = <<>> /\ fill_queue = <<>> /\ executions = <<>>
      /\ order_store_ = EmptyTable
  BY DEF AdapterTradingInit, Init, AdapterInit, GatewayInit
<1>3. WindowInv
  BY <1>2, SeenAssumption DEF WindowInv
<1>4. AmountTypes
  BY <1>1, Amounts
<1>5. ASSUME NEW b \in BrokerIds
      PROVE  Cardinality(ExecutionsOf(b)) <= Executed(b) /\ ToCount(b) <= Executed(b)
  <2>1. ExecutionsOf(b) = {} /\ Countable(b) = {}
    BY <1>2 DEF ExecutionsOf, Countable
  <2>2. QueuedIn(queue_, b) = {}
    BY <1>2 DEF QueuedIn
  <2>3. Executed(b) \in Nat
    BY <1>4 DEF AmountTypes
  <2> QED
    BY <2>1, <2>2, <2>3, QueuedIs, FS_EmptySet DEF ToCount
<1>6. UnitReports /\ \A l \in LocalIds, b \in BrokerIds : RowCounted(l, b)
  BY <1>2 DEF UnitReports, RowCounted, EmptyTable
<1> QED
  BY <1>1, <1>3, <1>5, <1>6 DEF CountedInv, CountInv

LEMMA CountedInvariant == AdapterTradingSpec => []CountedInv
BY InitCounted, NextCounted, PTL DEF AdapterTradingSpec

\* No execution of the venue is counted twice: not through a reconnection
\* (run_fill_stream), not when the venue sends it again within the window of
\* seen_execution_ids_, not through a crash, which forgets the window and the
\* mapping together.  For every window that covers what the venue sends again.
THEOREM ExecutionsCountedOnce == AdapterTradingSpec => []EachExecutionCountsOnce
<1>1. CountedInv => EachExecutionCountsOnce
  <2> SUFFICES ASSUME CountedInv, NEW l \in Stored(order_store_),
                      order_store_[l].broker_id # None
               PROVE  order_store_[l].filled_quantity
                          + (IF IsMapped(l) THEN QueuedFor(order_store_[l].broker_id) ELSE 0)
                          <= venue[order_store_[l].broker_id].executed
    BY DEF EachExecutionCountsOnce
  <2>1. VenueInv /\ CountInv /\ l \in LocalIds /\ order_store_[l] # None
    BY DEF CountedInv, Stored
  <2>2. PICK b \in BrokerIds : b = order_store_[l].broker_id
    BY <2>1 DEF VenueInv, TrackingInv, TypeOK, Table, StoredOrder
  <2>3. b < broker_count
    BY <2>1, <2>2 DEF VenueInv, FreshInv
  <2>4. Executed(b) = venue[b].executed
    BY <2>1, <2>3 DEF VenueInv, FreshInv, Executed
  <2>5. /\ Executed(b) \in Nat /\ QueuedFor(b) \in Nat /\ Cardinality(Countable(b)) \in Nat
        /\ order_store_[l].filled_quantity \in Nat
    BY <2>1, Amounts DEF AmountTypes
  <2>6. /\ order_store_[l].filled_quantity <= Executed(b)
        /\ IsMapped(l) => order_store_[l].filled_quantity + ToCount(b) <= Executed(b)
    BY <2>1, <2>2 DEF CountInv, RowCounted
  <2>7. order_store_[l].filled_quantity + (IF IsMapped(l) THEN QueuedFor(b) ELSE 0) <= Executed(b)
    BY <2>5, <2>6 DEF ToCount
  <2> QED
    BY <2>2, <2>4, <2>7
<1> QED
  BY <1>1, CountedInvariant, PTL

------------------------------------------------------------------------------
(* Live orders.                                                             *)

\* No order comes to life, and none leaves the venue.
LiveFalls ==
    \A b \in BrokerIds : (IsLive(b)' => IsLive(b)) /\ (Dead(b) => Dead(b)')

LEMMA LiveOrDead ==
    ASSUME VenueType, NEW b \in BrokerIds
    PROVE  IsLive(b) <=> venue[b] # None /\ ~Dead(b)
BY DEF VenueType, VenueOrders, IsLive, Dead

LEMMA VenueSame ==
    ASSUME UNCHANGED venue, Unfinished
    PROVE  LiveFalls /\ Unfinished'
BY DEF LiveFalls, IsLive, Dead, Unfinished

LEMMA KillFalls ==
    ASSUME VenueType, NEW orders, venue' = Kill(orders), Unfinished
    PROVE  /\ LiveFalls /\ Unfinished'
           /\ \A b \in BrokerIds : b \in orders => ~IsLive(b)'
           /\ \A b \in BrokerIds : b \in orders /\ venue[b] # None => Dead(b)'
<1>1. \A b \in BrokerIds :
          /\ venue'[b] = None <=> venue[b] = None
          /\ venue[b] # None => /\ venue'[b].order = venue[b].order
                                /\ venue'[b].executed = venue[b].executed
                                /\ venue'[b].live => venue[b].live /\ b \notin orders
  BY KillEffect
<1>2. LiveFalls /\ \A b \in BrokerIds : b \in orders => ~IsLive(b)'
  BY <1>1 DEF LiveFalls, IsLive, Dead
<1>3. \A b \in BrokerIds : b \in orders /\ venue[b] # None => Dead(b)'
  BY <1>1 DEF Dead
<1>4. Unfinished'
  BY <1>1 DEF Unfinished, IsLive
<1> QED
  BY <1>2, <1>3, <1>4

\* What follows for the parts of ReachInv from the order of an old row staying.
LEMMA RowOrdersKept ==
    ASSUME VenueInv, RowOrders, OrdersKept,
           \A l \in LocalIds : \/ order_store_'[l] = order_store_[l]
                               \/ Restated(order_store_[l], order_store_'[l])
                               \/ \E qty : Credited(order_store_[l], order_store_'[l], qty)
                               \/ Entered(order_store_[l], order_store_'[l], event.signal, None)
    PROVE  RowOrders'
<1> SUFFICES ASSUME NEW l \in LocalIds, NEW b \in BrokerIds,
                    order_store_'[l] # None, order_store_'[l].broker_id = b
             PROVE  order_store_'[l].order = venue'[b].order
  BY DEF RowOrders
<1>1. b # None
  BY OrderIdsAssumption DEF BrokerIds
<1>2. /\ order_store_[l] # None /\ order_store_[l].broker_id = b
      /\ order_store_'[l].order = order_store_[l].order
  BY <1>1 DEF Restated, Credited, Entered
<1>3. venue[b] # None
  BY <1>1, <1>2 DEF VenueInv, FreshInv, Stored
<1> QED
  BY <1>2, <1>3 DEF RowOrders, OrdersKept

\* The reports on the stream, when it carries no more ends of orders.
LEMMA EndsSentKept ==
    ASSUME VenueInv, EndsSent, LiveFalls,
           \/ fill_queue' = fill_queue
           \/ fill_queue' = <<>>
           \/ fill_queue # <<>> /\ fill_queue' = Tail(fill_queue)
           \/ \E r : fill_queue' = Append(fill_queue, r)
                     /\ (r.id = NoId => \A b \in BrokerIds : r.report.broker_id = b => Dead(b)')
    PROVE  EndsSent'
<1>1. fill_queue \in Seq(FillReports)
  BY DEF VenueInv, FeedType
<1>2. ASSUME NEW k \in DOMAIN fill_queue', NEW b \in BrokerIds,
             fill_queue'[k].id = NoId, fill_queue'[k].report.broker_id = b
      PROVE  Dead(b) \/ Dead(b)'
  <2>1. CASE fill_queue' = fill_queue \/ fill_queue' = <<>>
    BY <1>2, <2>1 DEF EndsSent
  <2>2. CASE fill_queue # <<>> /\ fill_queue' = Tail(fill_queue)
    <3>1. k + 1 \in DOMAIN fill_queue /\ fill_queue'[k] = fill_queue[k + 1]
      BY <1>1, <2>2
    <3> QED
      BY <1>2, <3>1 DEF EndsSent
  <2>3. ASSUME NEW r, fill_queue' = Append(fill_queue, r),
               r.id = NoId => \A c \in BrokerIds : r.report.broker_id = c => Dead(c)'
        PROVE  Dead(b) \/ Dead(b)'
    <3>1. (k \in DOMAIN fill_queue /\ fill_queue'[k] = fill_queue[k]) \/ fill_queue'[k] = r
      BY <1>1, <2>3
    <3> QED
      BY <1>2, <2>3, <3>1 DEF EndsSent
  <2> QED
    BY <2>1, <2>2, <2>3
<1> QED
  BY <1>2 DEF EndsSent, LiveFalls

LEMMA EndsQueuedKept ==
    ASSUME VenueInv, EndsQueued, LiveFalls,
           \/ queue_' = queue_
           \/ queue_' = <<>>
           \/ queue_ # <<>> /\ queue_' = Tail(queue_)
           \/ \E e : /\ queue_' = Append(queue_, e)
                     /\ e.kind = "report" /\ e.report.status # "NONE" =>
                            \A b \in BrokerIds : e.report.broker_id = b => Dead(b)
    PROVE  EndsQueued'
<1>1. queue_ \in Seq(Command \cup ReportEvent)
  BY DEF VenueInv, TrackingInv, TypeOK
<1>2. ASSUME NEW i \in DOMAIN queue_', NEW b \in BrokerIds,
             queue_'[i].kind = "report", queue_'[i].report.status # "NONE",
             queue_'[i].report.broker_id = b
      PROVE  Dead(b)
  <2>1. CASE queue_' = queue_ \/ queue_' = <<>>
    BY <1>2, <2>1 DEF EndsQueued
  <2>2. CASE queue_ # <<>> /\ queue_' = Tail(queue_)
    <3>1. i + 1 \in DOMAIN queue_ /\ queue_'[i] = queue_[i + 1]
      BY <1>1, <2>2
    <3> QED
      BY <1>2, <3>1 DEF EndsQueued
  <2>3. ASSUME NEW e, queue_' = Append(queue_, e),
               e.kind = "report" /\ e.report.status # "NONE" =>
                   \A c \in BrokerIds : e.report.broker_id = c => Dead(c)
        PROVE  Dead(b)
    <3>1. (i \in DOMAIN queue_ /\ queue_'[i] = queue_[i]) \/ queue_'[i] = e
      BY <1>1, <2>3
    <3> QED
      BY <1>2, <2>3, <3>1 DEF EndsQueued
  <2> QED
    BY <2>1, <2>2, <2>3
<1> QED
  BY <1>2 DEF EndsQueued, LiveFalls

\* The call and its command stay.
LEMMA ReplacedStays ==
    ASSUME ReplacedIsDead, LiveFalls, InCall' <=> InCall, UNCHANGED id_mapper_,
           InCall => Head(queue_') = Head(queue_)
    PROVE  ReplacedIsDead'
BY DEF ReplacedIsDead, LiveFalls, event, IsMapped

LEMMA ReachedKept ==
    ASSUME Reached, LiveFalls, UNCHANGED <<unrecorded, order_store_>>,
           InCall' <=> InCall, call'.broker_id = call.broker_id
    PROVE  Reached'
BY DEF Reached, LiveFalls, OpenRow

\* The clients, the stream thread and the adapter: nothing changes at the venue.
LEMMA QuietReach ==
    ASSUME VenueInv, ReachInv,
           \/ Commands \/ StreamLoop \/ SkipDuplicate \/ DeliverReport \/ BreakLink
           \/ HandleStream \/ RouteOrder \/ UNCHANGED vars
    PROVE  ReachInv'
<1>1. /\ UNCHANGED <<venue, unrecorded, order_store_, id_mapper_>>
      /\ InCall' <=> InCall
      /\ call'.broker_id = call.broker_id
      /\ \/ fill_queue' = fill_queue
         \/ fill_queue' = <<>>
         \/ fill_queue # <<>> /\ fill_queue' = Tail(fill_queue)
  <2>1. CASE RouteOrder
    <3>1. /\ UNCHANGED <<venue, unrecorded, order_store_, id_mapper_, fill_queue>>
          /\ call.stage = "placed" /\ call' = [call EXCEPT !.stage = "routed"]
      BY <2>1 DEF RouteOrder, Route, omVars
    <3>2. call'.broker_id = call.broker_id /\ call'.stage = "routed"
      BY <3>1 DEF VenueInv, VenueType
    <3> QED
      BY <3>1, <3>2 DEF InCall, Idle
  <2>2. CASE ~RouteOrder
    <3>1. Quiet
      BY <2>2, QuietSteps
    <3> QED
      BY <3>1 DEF Quiet, InCall, Idle
  <2> QED
    BY <2>1, <2>2
<1>2. \/ queue_' = queue_
      \/ \E e \in Command \cup ReportEvent :
             /\ queue_' = Append(queue_, e)
             /\ e.kind = "report" /\ e.report.status # "NONE" =>
                    \A b \in BrokerIds : e.report.broker_id = b => Dead(b)
  <2>1. CASE Commands
    <3>1. ClientStep
      BY <2>1 DEF Commands
    <3>2. queue_' = queue_ \/ \E e \in Command : queue_' = Append(queue_, e)
      BY <3>1 DEF ClientStep, SubmitSignal, CancelSignal, ReplaceSignal, cancel_all,
                  process_signal, set_fill_sink, clear_fill_sink, SwitchFillSink, enqueue,
                  Command, SubmitCommand, CancelCommand, ReplaceCommand, CancelAllCommand
    <3>3. \A e \in Command : e.kind # "report"
      BY DEF Command, SubmitCommand, CancelCommand, ReplaceCommand, CancelAllCommand
    <3> QED
      BY <3>2, <3>3
  <2>2. CASE \/ StreamLoop \/ HandleStream \/ SkipDuplicate \/ BreakLink \/ RouteOrder
             \/ UNCHANGED vars
    BY <2>2 DEF StreamLoop, HandleStream, SkipDuplicate, BreakLink, RouteOrder, vars, omVars
  <2>3. CASE DeliverReport
    <3>1. PICK r \in Range(fill_queue) : ReadNew(r) /\ GatewayReport(r.report)
      BY <2>3 DEF DeliverReport
    <3>2. /\ fill_queue # <<>> /\ r = Head(fill_queue)
          /\ queue_' = Append(queue_, [kind |-> "report", report |-> r.report])
      BY <3>1 DEF ReadNew, Read, GatewayReport, enqueue
    <3>3. /\ fill_queue \in Seq(FillReports)
          /\ \A k \in DOMAIN fill_queue : Carried(fill_queue[k])
      BY DEF VenueInv, FeedType
    <3>4. 1 \in DOMAIN fill_queue /\ r = fill_queue[1] /\ r \in FillReports /\ Carried(r)
      BY <3>2, <3>3
    <3>5. PICK e \in ReportEvent : e = [kind |-> "report", report |-> r.report]
      BY <3>4 DEF FillReports, ReportEvent
    <3>6. queue_' = Append(queue_, e) /\ e.report = r.report
      BY <3>2, <3>5
    <3>7. r.report.status # "NONE" => r.id = NoId
      BY <3>4 DEF Carried
    <3>8. r.id = NoId => \A b \in BrokerIds : r.report.broker_id = b => Dead(b)
      BY <3>4 DEF ReachInv, EndsSent
    <3> QED
      BY <3>6, <3>7, <3>8
  <2> QED
    BY <2>1, <2>2, <2>3
<1>3. InCall => Head(queue_') = Head(queue_)
  <2>1. InCall => queue_ # <<>>
    BY DEF VenueInv, CallInv
  <2>2. queue_ \in Seq(Command \cup ReportEvent)
    BY DEF VenueInv, TrackingInv, TypeOK
  <2> QED
    BY <1>2, <2>1, <2>2
<1>4. LiveFalls /\ Unfinished'
  BY <1>1, VenueSame DEF ReachInv
<1>5. RowOrders'
  BY <1>1 DEF ReachInv, RowOrders
<1>6. EndsSent'
  BY <1>1, <1>4, EndsSentKept DEF ReachInv
<1>7. EndsQueued'
  BY <1>2, <1>4, EndsQueuedKept DEF ReachInv
<1>8. ReplacedIsDead'
  BY <1>1, <1>3, <1>4, ReplacedStays DEF ReachInv
<1>9. BrokerIdsWritten => Reached'
  BY <1>1, <1>4, ReachedKept DEF ReachInv
<1>10. BrokerIdsWritten' <=> BrokerIdsWritten
  BY DEF BrokerIdsWritten
<1> QED
  BY <1>4, <1>5, <1>6, <1>7, <1>8, <1>9, <1>10 DEF ReachInv

\* What the venue sends: the end of an order comes after it.
LEMMA SentReach ==
    ASSUME VenueInv, ReachInv, LiveFalls, Unfinished', OrdersKept,
           UNCHANGED <<queue_, order_store_, id_mapper_, unrecorded, call>>,
           NEW r,
           fill_queue' = fill_queue \/ fill_queue' = Append(fill_queue, r),
           r.id = NoId => \A b \in BrokerIds : r.report.broker_id = b => Dead(b)'
    PROVE  ReachInv'
<1>1. InCall' <=> InCall
  BY DEF InCall, Idle
<1>2. RowOrders'
  BY RowOrdersKept DEF ReachInv
<1>3. EndsSent'
  BY EndsSentKept DEF ReachInv
<1>4. EndsQueued'
  BY EndsQueuedKept DEF ReachInv
<1>5. ReplacedIsDead'
  BY <1>1, ReplacedStays DEF ReachInv
<1>6. BrokerIdsWritten => Reached'
  BY <1>1, ReachedKept DEF ReachInv
<1>7. BrokerIdsWritten' <=> BrokerIdsWritten
  BY DEF BrokerIdsWritten
<1> QED
  BY <1>2, <1>3, <1>4, <1>5, <1>6, <1>7 DEF ReachInv

LEMMA VenueReach ==
    ASSUME VenueInv, ReachInv, Venue
    PROVE  ReachInv'
<1>1. UNCHANGED <<queue_, order_store_, id_mapper_, unrecorded, call>>
  BY DEF Venue, Execute, EndOrder, Resend, omVars
<1>2. VenueType /\ FeedType /\ Unfinished
  BY DEF VenueInv, ReachInv
<1>3. ASSUME NEW id, NEW b, NEW qty, NEW status, Send(id, b, qty, status)
      PROVE  \/ fill_queue' = fill_queue
             \/ fill_queue' = Append(fill_queue, [id |-> id, report |-> Report(b, qty, status)])
  BY <1>3 DEF Send, PutReport
<1>4. ASSUME NEW b \in BrokerIds, Execute(b)
      PROVE  ReachInv'
  <2>1. /\ venue[b] # None /\ venue[b].live
        /\ venue'[b] # None
        /\ venue[b].executed \in Nat /\ venue[b].order.quantity \in Nat
        /\ venue'[b].order = venue[b].order
        /\ venue'[b].executed = venue[b].executed + 1
        /\ venue'[b].live = (venue[b].executed + 1 < venue[b].order.quantity)
        /\ \A c \in BrokerIds \ {b} : venue'[c] = venue[c]
    BY <1>2, <1>4, ExecuteEffect
  <2>2. LiveFalls
    BY <2>1 DEF LiveFalls, IsLive, Dead
  <2>3. Unfinished'
    <3> SUFFICES ASSUME NEW c \in BrokerIds, venue'[c] # None, venue'[c].live,
                        venue'[c].executed > 0
                 PROVE  venue'[c].executed < venue'[c].order.quantity
      BY DEF Unfinished, IsLive
    <3>1. CASE c = b
      BY <2>1, <3>1
    <3>2. CASE c # b
      <4>1. venue'[c] = venue[c]
        BY <2>1, <3>2
      <4> QED
        BY <1>2, <4>1 DEF Unfinished, IsLive
    <3> QED
      BY <3>1, <3>2
  <2>4. OrdersKept
    BY <2>1 DEF OrdersKept
  <2>5. Len(executions') \in Nat
    BY <1>2, <1>4 DEF Execute, FeedType
  <2>6. PICK r : r = [id |-> Len(executions'), report |-> Report(b, 1, "NONE")]
    OBVIOUS
  <2>7. r.id # NoId
    BY <2>5, <2>6, SeenAssumption
  <2>8. fill_queue' = fill_queue \/ fill_queue' = Append(fill_queue, r)
    BY <1>3, <1>4, <2>6 DEF Execute
  <2> QED
    BY <1>1, <2>2, <2>3, <2>4, <2>7, <2>8, SentReach
<1>5. ASSUME NEW b \in BrokerIds, EndOrder(b, "CANCELLED")
      PROVE  ReachInv'
  <2>1. /\ b \in Live
        /\ venue' = Kill({b})
        /\ Send(NoId, b, 0, "CANCELLED")
    BY <1>5 DEF EndOrder
  <2>2. /\ LiveFalls /\ Unfinished'
        /\ \A c \in BrokerIds : c \in {b} /\ venue[c] # None => Dead(c)'
    BY <1>2, <2>1, KillFalls
  <2>3. OrdersKept
    BY <1>2, <2>1, KillKeeps
  <2>4. Dead(b)'
    BY <2>1, <2>2 DEF Live
  <2>5. PICK r : r = [id |-> NoId, report |-> Report(b, 0, "CANCELLED")]
    OBVIOUS
  <2>6. r.report.broker_id = b
    BY <2>5 DEF Report
  <2>7. fill_queue' = fill_queue \/ fill_queue' = Append(fill_queue, r)
    BY <1>3, <2>1, <2>5
  <2>8. r.id = NoId => \A c \in BrokerIds : r.report.broker_id = c => Dead(c)'
    BY <2>4, <2>6
  <2> QED
    BY <1>1, <2>2, <2>3, <2>7, <2>8, SentReach
<1>6. ASSUME NEW id \in DOMAIN executions, Resend(id)
      PROVE  ReachInv'
  <2>1. UNCHANGED venue /\ Send(id, executions[id], 1, "NONE")
    BY <1>6 DEF Resend
  <2>2. LiveFalls /\ Unfinished'
    BY <1>2, <2>1, VenueSame
  <2>3. OrdersKept
    BY <2>1 DEF OrdersKept
  <2>4. PICK r : r = [id |-> id, report |-> Report(executions[id], 1, "NONE")]
    OBVIOUS
  <2>5. r.id # NoId
    BY <1>2, <1>6, <2>4, SeenAssumption DEF FeedType
  <2>6. fill_queue' = fill_queue \/ fill_queue' = Append(fill_queue, r)
    BY <1>3, <2>1, <2>4
  <2> QED
    BY <1>1, <2>2, <2>3, <2>5, <2>6, SentReach
<1> QED
  BY <1>4, <1>5, <1>6 DEF Venue

\* A call begins: its order is the only one that comes to life.
LEMMA PlaceReach ==
    ASSUME VenueInv, ReachInv, NEW answered \in BOOLEAN, Place(answered)
    PROVE  ReachInv'
<1>1. PICK p \in BrokerIds :
          /\ p = PlacedId(answered)
          /\ venue[p] = None
          /\ venue'[p] = NewOrder(event.signal)
          /\ \A b \in BrokerIds \ {p} : venue'[b] = Kill(ReplacedId)[b]
          /\ NewOrder(event.signal) \in VenueOrders
  BY CallBegins
<1>2. /\ UNCHANGED <<queue_, order_store_, id_mapper_, unrecorded, fill_queue>>
      /\ call' = [stage |-> "placed", broker_id |-> p, answered |-> answered]
      /\ Idle
      /\ event.kind = "replace" => IsMapped(event.order_id)
  BY <1>1 DEF Place, omVars, adapterVars
<1>3. InCall' /\ call'.broker_id = p
  BY <1>2 DEF InCall, Idle
<1>4. venue'[p] # None /\ venue'[p].executed = 0
  <2>1. venue'[p] # None
    BY <1>1, NoneIsNotAVenueOrder
  <2>2. venue'[p].executed = 0
    BY <1>1 DEF NewOrder
  <2> QED
    BY <2>1, <2>2
<1>5. \A b \in BrokerIds :
          /\ Kill(ReplacedId)[b] = None <=> venue[b] = None
          /\ venue[b] # None => /\ Kill(ReplacedId)[b].order = venue[b].order
                                /\ Kill(ReplacedId)[b].executed = venue[b].executed
                                /\ Kill(ReplacedId)[b].live =>
                                       venue[b].live /\ b \notin ReplacedId
  BY KillEffect DEF VenueInv
<1>6. ASSUME NEW b \in BrokerIds, venue[b] # None
      PROVE  /\ venue'[b] # None
             /\ venue'[b].order = venue[b].order
             /\ venue'[b].executed = venue[b].executed
             /\ venue'[b].live => venue[b].live /\ b \notin ReplacedId
  <2>1. venue'[b] = Kill(ReplacedId)[b]
    BY <1>1, <1>6
  <2> QED
    BY <1>5, <1>6, <2>1
<1>7. \A b \in BrokerIds : venue'[b] # None => b = p \/ venue[b] # None
  BY <1>1, <1>5
<1>8. \A b \in BrokerIds : Dead(b) => Dead(b)'
  BY <1>6 DEF Dead
<1>9. \A b \in BrokerIds : IsLive(b)' => b = p \/ IsLive(b)
  BY <1>6, <1>7 DEF IsLive
<1>10. Unfinished'
  <2> SUFFICES ASSUME NEW b \in BrokerIds, venue'[b] # None, venue'[b].live,
                      venue'[b].executed > 0
               PROVE  venue'[b].executed < venue'[b].order.quantity
    BY DEF Unfinished, IsLive
  <2>1. b # p
    BY <1>4
  <2>2. venue[b] # None
    BY <1>7, <2>1
  <2> QED
    BY <1>6, <2>2 DEF ReachInv, Unfinished, IsLive
<1>11. RowOrders'
  <2>1. OrdersKept
    BY <1>6 DEF OrdersKept
  <2> QED
    BY <1>2, <2>1, RowOrdersKept DEF ReachInv
<1>12. EndsSent' /\ EndsQueued'
  BY <1>2, <1>8 DEF ReachInv, EndsSent, EndsQueued
<1>13. ReplacedIsDead'
  <2> SUFFICES ASSUME event.kind = "replace", NEW b \in BrokerIds,
                      get_broker_id(id_mapper_, event.order_id) = b
               PROVE  Dead(b)'
    BY <1>2 DEF ReplacedIsDead, event, IsMapped
  <2>1. b \in ReplacedId
    BY DEF ReplacedId
  <2>2. venue[b] # None
    <3>1. event.order_id \in LocalIds
      <4>1. event \in Command \cup ReportEvent
        BY <1>1 DEF VenueInv, TrackingInv, TypeOK, event, Place
      <4> QED
        BY <4>1 DEF Command, SubmitCommand, CancelCommand, ReplaceCommand, CancelAllCommand,
                    ReportEvent
    <3>2. event.order_id \in Mapped
      BY <1>2, <3>1 DEF Mapped
    <3>3. b < broker_count
      BY <3>2 DEF VenueInv, TrackingInv, IdsIssued
    <3> QED
      BY <3>3 DEF VenueInv, FreshInv
  <2> QED
    BY <1>6, <2>1, <2>2 DEF Dead
<1>14. BrokerIdsWritten => Reached'
  <2> SUFFICES ASSUME Reached, NEW b \in BrokerIds, IsLive(b)', b \notin unrecorded, b # p
               PROVE  \E l \in LocalIds : OpenRow(l, b)'
    BY <1>2, <1>3 DEF ReachInv, Reached
  <2>1. IsLive(b) /\ ~InCall
    BY <1>2, <1>9 DEF InCall
  <2>2. \E l \in LocalIds : OpenRow(l, b)
    BY <2>1 DEF Reached
  <2> QED
    BY <1>2, <2>2 DEF OpenRow
<1>15. BrokerIdsWritten' <=> BrokerIdsWritten
  BY DEF BrokerIdsWritten
<1> QED
  BY <1>10, <1>11, <1>12, <1>13, <1>14, <1>15 DEF ReachInv

\* A crash in the middle of a replacement may leave the old order recorded as
\* replaced, which it is.
LEMMA CrashReach ==
    ASSUME VenueInv, ReachInv, NEW table \in Interrupted, Crash(table)
    PROVE  ReachInv'
<1>1. /\ call' = NoCall
      /\ queue_' = <<>> /\ fill_queue' = <<>>
      /\ unrecorded' = IF InCall THEN unrecorded \cup {call.broker_id} ELSE unrecorded
      /\ UNCHANGED venue
  BY DEF Crash
<1>2. ~InCall'
  BY <1>1 DEF InCall, Idle, NoCall
<1>3. LiveFalls /\ Unfinished'
  BY <1>1, VenueSame DEF ReachInv
<1>4. \A l \in LocalIds :
          \/ order_store_'[l] = order_store_[l]
          \/ /\ InCall /\ event.kind = "replace" /\ l = event.order_id
             /\ Restated(order_store_[l], order_store_'[l])
          \/ Entered(order_store_[l], order_store_'[l], event.signal, None)
  BY CrashRows
<1>5. RowOrders'
  <2>1. OrdersKept
    BY <1>1 DEF OrdersKept
  <2> QED
    BY <1>4, <2>1, RowOrdersKept DEF ReachInv
<1>6. EndsSent' /\ EndsQueued'
  BY <1>1 DEF EndsSent, EndsQueued
<1>7. ReplacedIsDead'
  BY <1>2 DEF ReplacedIsDead
<1>8. BrokerIdsWritten => Reached'
  <2> SUFFICES ASSUME Reached, NEW b \in BrokerIds, IsLive(b)', b \notin unrecorded'
               PROVE  \E l \in LocalIds : OpenRow(l, b)'
    BY DEF ReachInv, Reached
  <2>1. /\ IsLive(b) /\ b \notin unrecorded /\ ~(InCall /\ call.broker_id = b)
        /\ b # None
    BY <1>1, <1>3, OrderIdsAssumption DEF LiveFalls, BrokerIds
  <2>2. PICK l \in LocalIds : OpenRow(l, b)
    BY <2>1 DEF Reached
  <2>3. CASE order_store_'[l] = order_store_[l]
    BY <2>2, <2>3 DEF OpenRow
  <2>4. CASE Entered(order_store_[l], order_store_'[l], event.signal, None)
    BY <2>2, <2>4 DEF Entered, OpenRow
  <2>5. CASE InCall /\ event.kind = "replace" /\ l = event.order_id
    <3>1. IsMapped(l) /\ (get_broker_id(id_mapper_, l) = b => Dead(b))
      BY <2>5 DEF ReachInv, ReplacedIsDead
    <3>2. get_broker_id(id_mapper_, l) = b
      BY <2>1, <2>2, <3>1 DEF VenueInv, TrackingInv, MappedOrdersAreOpen, Mapped, OpenRow
    <3> QED
      BY <2>1, <3>1, <3>2 DEF IsLive, Dead
  <2> QED
    BY <1>4, <2>3, <2>4, <2>5
<1>9. BrokerIdsWritten' <=> BrokerIdsWritten
  BY DEF BrokerIdsWritten
<1> QED
  BY <1>3, <1>5, <1>6, <1>7, <1>8, <1>9 DEF ReachInv

\* What every handler leaves behind: no call, and no order that has come to life.
HandlerEnds ==
    /\ LiveFalls /\ Unfinished' /\ OrdersKept
    /\ ~InCall'
    /\ UNCHANGED fill_queue
    /\ queue_ # <<>> /\ queue_' = Tail(queue_)
    /\ unrecorded \subseteq unrecorded'

LEMMA HandlersEnd ==
    ASSUME VenueInv, ReachInv, DispatchThread
    PROVE  HandlerEnds
<1>1. run_dispatch_loop
  BY DispatchRuns
<1>2. VenueType /\ Unfinished
  BY DEF VenueInv, ReachInv
<1>3. /\ UNCHANGED fill_queue
      /\ venue' = venue \/ \E orders : venue' = Kill(orders)
      /\ unrecorded \subseteq unrecorded'
      /\ call' = call \/ call' = NoCall
  BY DEF DispatchThread, AdapterSubmit, AdapterReplace, AdapterCancel, AdapterCancelAll,
         NoEffect, Return, Cancels, adapterVars, venueVars
<1>4. LiveFalls /\ Unfinished' /\ OrdersKept
  <2>1. CASE venue' = venue
    BY <1>2, <2>1, VenueSame DEF OrdersKept
  <2>2. ASSUME NEW orders, venue' = Kill(orders)
        PROVE  LiveFalls /\ Unfinished' /\ OrdersKept
    BY <1>2, <2>2, KillFalls, KillKeeps
  <2> QED
    BY <1>3, <2>1, <2>2
<1>5. queue_ # <<>> /\ queue_' = Tail(queue_)
  <2>1. \E kind : Dispatch(kind)
    BY <1>1 DEF run_dispatch_loop, handle_submit_command, SubmitNotStored, SubmitRefusedByRisk,
                SubmitRejectedByGateway, SubmitNotRecorded, SubmitAccepted,
                handle_cancel_command, CancelUnknown, CancelRefusedByGateway, Refuse,
                CancelNotRecorded, CancelDone, handle_replace_command, ReplaceUnknown,
                ReplaceRejectedByGateway, ReplaceNotRecorded, ReplaceDone,
                handle_cancel_all_command, handle_fill, FillUnknown, FillTerminal,
                FillNotApplied, FillApplied
  <2> QED
    BY <2>1 DEF Dispatch
<1>6. ~InCall'
  <2>1. ASSUME call' = call
        PROVE  Idle
    <3>1. ASSUME NEW kind \in {"cancel", "cancel_all", "report"}, Dispatch(kind)
          PROVE  Idle
      BY <3>1 DEF Dispatch, InCall, VenueInv, CallInv
    <3>2. ASSUME NEW fail, AdapterSubmit(fail) \/ AdapterReplace(fail)
          PROVE  Idle
      BY <2>1, <3>2 DEF AdapterSubmit, AdapterReplace, Return, NoCall, Idle
    <3>3. ASSUME NEW fail, AdapterCancel(fail)
          PROVE  Dispatch("cancel")
      BY <3>3 DEF AdapterCancel, CancelUnknown, CancelRefusedByGateway, Refuse,
                  CancelNotRecorded, CancelDone
    <3>4. ASSUME NEW fail, NEW refused, NEW unanswered, NEW unrecordable,
                 AdapterCancelAll(fail, refused, unanswered, unrecordable)
          PROVE  Dispatch("cancel_all")
      BY <3>4 DEF AdapterCancelAll, handle_cancel_all_command
    <3>5. ASSUME NEW fail, handle_fill(fail)
          PROVE  Dispatch("report")
      BY <3>5 DEF handle_fill, FillUnknown, FillTerminal, FillNotApplied, FillApplied
    <3> QED
      BY <3>1, <3>2, <3>3, <3>4, <3>5 DEF DispatchThread
  <2> QED
    BY <1>3, <2>1 DEF InCall, Idle, NoCall
<1> QED
  BY <1>3, <1>4, <1>5, <1>6 DEF HandlerEnds

\* The rows a handler closes are those of dead orders.
ClosesDead(closing) ==
    \A l \in LocalIds, b \in BrokerIds :
        l \in closing /\ OpenRow(l, b) => order_store_'[l] = order_store_[l] \/ ~IsLive(b)'

\* The order of the call is recorded, or known not to be.
CallRecorded ==
    /\ broker_count' = broker_count + 1 => InCall /\ call.broker_id = broker_count
    /\ BrokerIdsWritten =>
           \A b \in BrokerIds :
               InCall /\ call.broker_id = b =>
                   b \in unrecorded' \/ \E l \in LocalIds : OpenRow(l, b)'

LEMMA ClosingReach ==
    ASSUME VenueInv, ReachInv, HandlerEnds,
           NEW closing, \A l \in LocalIds : RowStep(l, closing), ClosesDead(closing),
           CallRecorded
    PROVE  ReachInv'
<1>1. EndsSent' /\ EndsQueued'
  BY EndsSentKept, EndsQueuedKept DEF HandlerEnds, ReachInv
<1>2. ReplacedIsDead'
  BY DEF HandlerEnds, ReplacedIsDead
<1>3. RowOrders'
  <2> SUFFICES ASSUME NEW l \in LocalIds, NEW b \in BrokerIds,
                      order_store_'[l] # None, order_store_'[l].broker_id = b
               PROVE  order_store_'[l].order = venue'[b].order
    BY DEF RowOrders
  <2>1. b # None
    BY OrderIdsAssumption DEF BrokerIds
  <2>2. CASE /\ order_store_[l] # None
             /\ order_store_[l].broker_id = b
             /\ order_store_'[l].order = order_store_[l].order
    <3>1. venue[b] # None
      BY <2>1, <2>2 DEF VenueInv, FreshInv, Stored
    <3> QED
      BY <2>2, <3>1 DEF ReachInv, RowOrders, HandlerEnds, OrdersKept
  <2>3. CASE /\ order_store_'[l].order = event.signal
             /\ order_store_'[l].broker_id = broker_count
             /\ broker_count' = broker_count + 1
    <3>1. InCall /\ call.broker_id = b
      BY <2>3 DEF CallRecorded
    <3>2. venue[b] # None /\ venue[b].order = event.signal
      BY <3>1 DEF VenueInv, CallInv
    <3> QED
      BY <2>3, <3>2 DEF HandlerEnds, OrdersKept
  <2> QED
    BY <2>1, <2>2, <2>3 DEF RowStep, Restated, Entered
<1>4. BrokerIdsWritten => Reached'
  <2> SUFFICES ASSUME BrokerIdsWritten, Reached, NEW b \in BrokerIds, IsLive(b)',
                      b \notin unrecorded'
               PROVE  \E l \in LocalIds : OpenRow(l, b)'
    BY DEF ReachInv, Reached
  <2>1. IsLive(b) /\ b \notin unrecorded
    BY DEF HandlerEnds, LiveFalls
  <2>2. CASE InCall /\ call.broker_id = b
    BY <2>2 DEF CallRecorded
  <2>3. ASSUME NEW l \in LocalIds, OpenRow(l, b)
        PROVE  \E k \in LocalIds : OpenRow(k, b)'
    <3>1. order_store_'[l] = order_store_[l] \/ l \in closing
      BY <2>3 DEF RowStep, Entered, OpenRow
    <3>2. order_store_'[l] = order_store_[l]
      BY <2>3, <3>1 DEF ClosesDead
    <3> QED
      BY <2>3, <3>2 DEF OpenRow
  <2> QED
    BY <2>1, <2>2, <2>3 DEF Reached
<1>5. BrokerIdsWritten' <=> BrokerIdsWritten
  BY DEF BrokerIdsWritten
<1>6. Unfinished'
  BY DEF HandlerEnds
<1> QED
  BY <1>1, <1>2, <1>3, <1>4, <1>5, <1>6 DEF ReachInv

\* No call is being made.
LEMMA IdleRecords ==
    ASSUME VenueInv, Idle, broker_count' = broker_count
    PROVE  CallRecorded
<1>1. broker_count' # broker_count + 1
  BY Numbers
<1> QED
  BY <1>1 DEF CallRecorded, InCall

LEMMA SubmitReach ==
    ASSUME VenueInv, ReachInv, HandlerEnds,
           NEW fail \in SUBSET SubmitFaults, AdapterSubmit(fail)
    PROVE  ReachInv'
<1>1. TrackingInv
  BY DEF VenueInv
<1>2. broker_count \in Nat /\ id_generator_ \in Nat
  BY Numbers
<1>3. \/ Idle /\ broker_count' = broker_count
      \/ /\ InCall /\ broker_count' = broker_count
         /\ unrecorded' = unrecorded \cup {call.broker_id}
      \/ /\ InCall /\ call.broker_id = broker_count /\ broker_count' = broker_count + 1
         /\ unrecorded' = unrecorded \cup {call.broker_id}
      \/ InCall /\ SubmitAccepted(fail, call.broker_id)
  BY DEF AdapterSubmit, SubmitNotStored, SubmitRefusedByRisk, SubmitRejectedByGateway,
         RecordRejection, SubmitNotRecorded, SubmitAccepted, Return, InCall, Idle
<1>4. CallRecorded
  <2>1. CASE Idle /\ broker_count' = broker_count
    BY <2>1, IdleRecords
  <2>2. CASE /\ InCall /\ broker_count' = broker_count
             /\ unrecorded' = unrecorded \cup {call.broker_id}
    BY <1>2, <2>2 DEF CallRecorded
  <2>3. CASE /\ InCall /\ call.broker_id = broker_count /\ broker_count' = broker_count + 1
             /\ unrecorded' = unrecorded \cup {call.broker_id}
    BY <2>3 DEF CallRecorded
  <2>4. CASE InCall /\ SubmitAccepted(fail, call.broker_id)
    <3>1. PICK k : k = id_generator_
      OBVIOUS
    <3>2. PICK submitted : submitted = update_order_status(WithPendingRow, k, "SUBMITTED")
      OBVIOUS
    <3>3. /\ Dispatch("submit") /\ call.broker_id = broker_count
          /\ broker_count' = broker_count + 1
          /\ id_generator_ < MaxOrders
          /\ \/ "update_broker_id" \in fail
             \/ ~BrokerIdFree(submitted, k, broker_count)
             \/ order_store_' = update_broker_id(submitted, k, broker_count)
      BY <2>4, <3>1, <3>2 DEF SubmitAccepted, Submitting
    <3>4. queue_ # <<>> /\ event.kind = "submit"
      BY <3>3 DEF Dispatch
    <3>5. /\ k \in LocalIds
          /\ \A l \in LocalIds \ {k} : submitted[l] = order_store_[l]
      BY <1>1, <3>1, <3>2, <3>3, <3>4, PendingTables DEF OrderStatus
    <3>6. BrokerIdFree(submitted, k, broker_count)
      <4>1. BrokersBelow(order_store_, broker_count)
        BY RowsBelow
      <4>2. broker_count # None
        BY <1>2, OrderIdsAssumption
      <4>3. \A l \in LocalIds \ {k} : submitted[l] # None => submitted[l].broker_id # broker_count
        BY <1>2, <3>5, <4>1, <4>2 DEF BrokersBelow
      <4> QED
        BY <4>3 DEF BrokerIdFree, Stored
    <3>7. ASSUME BrokerIdsWritten, NEW b \in BrokerIds, call.broker_id = b
          PROVE  \E l \in LocalIds : OpenRow(l, b)'
      <4>1. "update_broker_id" \notin fail
        BY <3>7 DEF BrokerIdsWritten, SubmitFaults
      <4>2. order_store_' = update_broker_id(submitted, k, b)
        BY <3>3, <3>6, <3>7, <4>1
      <4>3. /\ Entered(order_store_[k], order_store_'[k], event.signal, b)
            /\ order_store_'[k].status = "SUBMITTED"
        BY <1>1, <3>1, <3>2, <3>3, <4>2, LinkedRow
      <4>4. OpenRow(k, b)'
        BY <4>3 DEF Entered, OpenRow, OpenStatus
      <4> QED
        BY <3>5, <4>4
    <3> QED
      BY <2>4, <3>3, <3>7 DEF CallRecorded
  <2> QED
    BY <1>3, <2>1, <2>2, <2>3, <2>4
<1>5. \A l \in LocalIds : RowStep(l, {})
  <2>1. handle_submit_command(fail)
    BY HandlersRun
  <2> QED
    BY <1>1, <2>1, SubmitRowStep
<1> QED
  BY <1>4, <1>5, ClosingReach DEF ClosesDead

LEMMA ReplaceReach ==
    ASSUME VenueInv, ReachInv, HandlerEnds,
           NEW fail \in SUBSET ReplaceFaults, AdapterReplace(fail)
    PROVE  ReachInv'
<1>1. TrackingInv
  BY DEF VenueInv
<1>2. broker_count \in Nat /\ id_generator_ \in Nat
  BY Numbers
<1>3. /\ handle_replace_command(fail)
      /\ event.order_id \in LocalIds
      /\ \A l \in LocalIds : RowStep(l, {event.order_id})
  BY <1>1, HandlersRun, ReplaceRowStep
<1>4. \/ Idle /\ broker_count' = broker_count /\ order_store_' = order_store_
      \/ /\ InCall /\ broker_count' = broker_count
         /\ unrecorded' = unrecorded \cup {call.broker_id}
      \/ /\ InCall /\ call.broker_id = broker_count /\ broker_count' = broker_count + 1
         /\ unrecorded' = unrecorded \cup {call.broker_id}
      \/ InCall /\ ReplaceDone(fail, call.broker_id)
  BY DEF AdapterReplace, ReplaceUnknown, Refuse, ReplaceRejectedByGateway,
         ReplaceNotRecorded, ReplaceDone, Return, InCall, Idle
<1>5. event.kind = "replace"
  BY <1>3 DEF handle_replace_command, ReplaceUnknown, Refuse, ReplaceRejectedByGateway,
              ReplaceNotRecorded, ReplaceDone, Dispatch
<1>6. CallRecorded
  <2>1. CASE Idle /\ broker_count' = broker_count
    BY <2>1, IdleRecords
  <2>2. CASE /\ InCall /\ broker_count' = broker_count
             /\ unrecorded' = unrecorded \cup {call.broker_id}
    BY <1>2, <2>2 DEF CallRecorded
  <2>3. CASE /\ InCall /\ call.broker_id = broker_count /\ broker_count' = broker_count + 1
             /\ unrecorded' = unrecorded \cup {call.broker_id}
    BY <2>3 DEF CallRecorded
  <2>4. CASE InCall /\ ReplaceDone(fail, call.broker_id)
    <3>1. PICK k : k = id_generator_
      OBVIOUS
    <3>2. /\ call.broker_id = broker_count
          /\ broker_count' = broker_count + 1
          /\ k < MaxOrders
          /\ order_store_' = store_order(ReplacedTable, k, ReplacementRow(broker_count))
      BY <2>4, <3>1 DEF ReplaceDone, Replacing
    <3>3. k \in LocalIds
      BY <1>2, <3>1, <3>2, OrderIdsAssumption DEF LocalIds
    <3>4. ReplacedTable \in [LocalIds -> StoredOrder \cup {None}]
      <4>1. order_store_ \in Table
        BY <1>1 DEF TrackingInv, TypeOK
      <4> QED
        BY <1>3, <4>1, StoreStatementsType DEF ReplacedTable, OrderStatus, Table
    <3>5. order_store_'[k] = ReplacementRow(broker_count)
      BY <3>2, <3>3, <3>4 DEF store_order
    <3>6. ReplacementRow(broker_count) # None
      <4>1. event.signal \in Signals
        <5>1. Dispatch("replace")
          BY <2>4 DEF ReplaceDone
        <5> QED
          BY <1>1, <5>1, EventType DEF ReplaceCommand, TrackingInv
      <4>2. broker_count \in BrokerIds
        BY <1>2, <3>1, <3>2, PlaceFacts DEF VenueInv, FreshInv, CallInv
      <4>3. ReplacementRow(broker_count) \in StoredOrder
        BY <4>1, <4>2, NewRowType DEF ReplacementRow, OrderStatus
      <4> QED
        BY <4>3, NoneIsNotARow
    <3>7. ASSUME NEW b \in BrokerIds, call.broker_id = b
          PROVE  OpenRow(k, b)'
      BY <3>2, <3>5, <3>6, <3>7 DEF OpenRow, OpenStatus, ReplacementRow, NewRow
    <3> QED
      BY <2>4, <3>2, <3>3, <3>7 DEF CallRecorded
  <2> QED
    BY <1>4, <2>1, <2>2, <2>3, <2>4
<1>7. ClosesDead({event.order_id})
  <2> SUFFICES ASSUME NEW l \in LocalIds, NEW b \in BrokerIds, l = event.order_id,
                      OpenRow(l, b), order_store_'[l] # order_store_[l]
               PROVE  ~IsLive(b)'
    BY DEF ClosesDead
  <2>1. InCall
    BY <1>4
  <2>2. IsMapped(l) /\ (get_broker_id(id_mapper_, l) = b => Dead(b))
    BY <1>5, <2>1 DEF ReachInv, ReplacedIsDead
  <2>3. b # None
    BY OrderIdsAssumption DEF BrokerIds
  <2>4. get_broker_id(id_mapper_, l) = b
    BY <1>1, <2>2, <2>3 DEF TrackingInv, MappedOrdersAreOpen, Mapped, OpenRow
  <2>5. Dead(b)'
    BY <2>2, <2>4 DEF HandlerEnds, LiveFalls
  <2> QED
    BY <2>5 DEF Dead, IsLive
<1> QED
  BY <1>3, <1>6, <1>7, ClosingReach

LEMMA CancelReach ==
    ASSUME VenueInv, ReachInv, HandlerEnds,
           NEW fail \in SUBSET CancelFaults, AdapterCancel(fail)
    PROVE  ReachInv'
<1>1. TrackingInv
  BY DEF VenueInv
<1>2. handle_cancel_command(fail)
  BY HandlersRun
<1>3. event.order_id \in LocalIds /\ \A l \in LocalIds : RowStep(l, {event.order_id})
  BY <1>1, <1>2, CancelRowStep
<1>4. Dispatch("cancel") /\ broker_count' = broker_count
  BY <1>2 DEF handle_cancel_command, CancelUnknown, CancelRefusedByGateway, Refuse,
              CancelNotRecorded, CancelDone, Cancelling
<1>5. Idle
  BY <1>4 DEF Dispatch, InCall, VenueInv, CallInv
<1>6. CallRecorded
  BY <1>4, <1>5, IdleRecords
<1>7. ClosesDead({event.order_id})
  <2> SUFFICES ASSUME NEW l \in LocalIds, NEW b \in BrokerIds, l = event.order_id,
                      OpenRow(l, b), order_store_'[l] # order_store_[l]
               PROVE  ~IsLive(b)'
    BY DEF ClosesDead
  <2>1. IsMapped(l) /\ venue' = Kill({get_broker_id(id_mapper_, l)})
    BY DEF AdapterCancel, CancelUnknown, CancelRefusedByGateway, Refuse, CancelNotRecorded,
           CancelDone, Cancelling, Cancels
  <2>2. b # None
    BY OrderIdsAssumption DEF BrokerIds
  <2>3. get_broker_id(id_mapper_, l) = b
    BY <1>1, <2>1, <2>2 DEF TrackingInv, MappedOrdersAreOpen, Mapped, OpenRow
  <2>4. venue' = Kill({b})
    BY <2>1, <2>3
  <2> QED
    BY <2>4, KillFalls DEF VenueInv, ReachInv
<1> QED
  BY <1>3, <1>6, <1>7, ClosingReach

\* The kill switch closes rows whose orders it has had cancelled.
LEMMA SweepReach ==
    ASSUME VenueInv, ReachInv, HandlerEnds,
           NEW fail, NEW refused, NEW unanswered, NEW unrecordable,
           AdapterCancelAll(fail, refused, unanswered, unrecordable)
    PROVE  ReachInv'
<1>1. PICK closing : closing = Reachable(fail) \ refused
  OBVIOUS
<1>2. PICK orders : orders = {order_store_[l].broker_id : l \in closing \cup unanswered}
  OBVIOUS
<1>3. /\ handle_cancel_all_command(fail, refused, unrecordable)
      /\ venue' = Kill(orders)
  BY <1>1, <1>2 DEF AdapterCancelAll, Cancels
<1>4. \A l \in LocalIds : RowStep(l, closing)
  BY <1>1, <1>3, CancelAllRowStep DEF VenueInv
<1>5. Dispatch("cancel_all") /\ broker_count' = broker_count
  BY <1>3 DEF handle_cancel_all_command
<1>6. Idle
  BY <1>5 DEF Dispatch, InCall, VenueInv, CallInv
<1>7. CallRecorded
  BY <1>5, <1>6, IdleRecords
<1>8. ClosesDead(closing)
  <2> SUFFICES ASSUME NEW l \in LocalIds, NEW b \in BrokerIds, l \in closing, OpenRow(l, b)
               PROVE  ~IsLive(b)'
    BY DEF ClosesDead
  <2>1. b \in orders
    BY <1>2 DEF OpenRow
  <2> QED
    BY <1>3, <2>1, KillFalls DEF VenueInv, ReachInv
<1> QED
  BY <1>4, <1>7, <1>8, ClosingReach

\* handle_fill completes the row of an order only when the venue has.
LEMMA CompletedIsDead ==
    ASSUME VenueInv, CountInv, ReachInv, queue_ # <<>>, queue_' = Tail(queue_),
           NEW k \in LocalIds, NEW b \in BrokerIds,
           IsMapped(k), OpenRow(k, b), Counts(event, b),
           fully_filled(order_store_[k], 1)
    PROVE  ~IsLive(b)
<1>1. AmountTypes /\ UnitReports
  BY Amounts DEF CountInv
<1>2. /\ order_store_[k].filled_quantity \in Nat
      /\ QueuedFor(b) \in Nat /\ Cardinality(Countable(b)) \in Nat /\ Executed(b) \in Nat
  BY <1>1 DEF AmountTypes, OpenRow
<1>3. QueuedFor(b) >= 1
  <2>1. 1 \in DOMAIN queue_ /\ queue_[1] = event
    BY DEF VenueInv, TrackingInv, TypeOK, event
  <2>2. QueuedIn(queue_, b) # {}
    BY <2>1 DEF QueuedIn
  <2>3. IsFiniteSet(QueuedIn(queue_, b))
    BY QueuedFinite DEF VenueInv, TrackingInv, TypeOK
  <2>4. Cardinality(QueuedIn(queue_, b)) # 0
    BY <2>2, <2>3, FS_EmptySet
  <2> QED
    BY <1>2, <2>4, QueuedIs
<1>4. order_store_[k].filled_quantity + ToCount(b) <= Executed(b)
  BY DEF CountInv, RowCounted, OpenRow
<1>5. order_store_[k].order = venue[b].order
  BY DEF ReachInv, RowOrders, OpenRow
<1>6. order_store_[k].order.quantity \in Nat
  BY SignalAssumption DEF OpenRow, VenueInv, TrackingInv, TypeOK, Table, StoredOrder, Signals
<1>7. Executed(b) >= order_store_[k].order.quantity /\ Executed(b) > 0
  BY SMTT(30), <1>2, <1>3, <1>4, <1>6 DEF ToCount, fully_filled
<1>8. ASSUME IsLive(b) PROVE FALSE
  <2>1. Executed(b) = venue[b].executed
    BY <1>8 DEF IsLive, Executed
  <2>2. venue[b].executed < venue[b].order.quantity
    BY <1>7, <1>8, <2>1 DEF ReachInv, Unfinished
  <2> QED
    BY <1>2, <1>5, <1>6, <1>7, <2>1, <2>2
<1> QED
  BY <1>8

LEMMA FillReach ==
    ASSUME VenueInv, CountInv, ReachInv, HandlerEnds, NEW fail, handle_fill(fail), NoEffect
    PROVE  ReachInv'
<1>1. TrackingInv /\ Dispatch("report") /\ (UNCHANGED order_store_ \/ Ending \/ Crediting)
  BY FillRowStep DEF VenueInv
<1>2. Idle
  BY <1>1 DEF Dispatch, InCall, VenueInv, CallInv
<1>3. broker_count' = broker_count /\ UNCHANGED <<unrecorded, call>>
  BY DEF handle_fill, FillUnknown, FillTerminal, FillNotApplied, FillApplied, NoEffect,
         venueVars
<1>4. CallRecorded
  BY <1>2, <1>3, IdleRecords
<1>5. /\ event.kind = "report" /\ event \in ReportEvent
      /\ fill = event.report /\ fill.broker_id \in BrokerIds
  <2>1. event \in Command \cup ReportEvent /\ event.kind = "report"
    BY <1>1 DEF Dispatch, TrackingInv, TypeOK, event
  <2>2. event \in ReportEvent
    BY <2>1 DEF Command, SubmitCommand, CancelCommand, ReplaceCommand, CancelAllCommand
  <2> QED
    BY <2>1, <2>2 DEF ReportEvent, Reports, fill
<1>6. PICK k : k = filled_local_id
  OBVIOUS
<1>7. ASSUME k \in LocalIds, get_broker_id(id_mapper_, k) = fill.broker_id,
             NEW b \in BrokerIds, OpenRow(k, b)
      PROVE  IsMapped(k) /\ fill.broker_id = b
  <2>1. IsMapped(k)
    BY <1>5, <1>7, OrderIdsAssumption DEF IsMapped, BrokerIds
  <2>2. b # None
    BY OrderIdsAssumption DEF BrokerIds
  <2> QED
    BY <1>1, <1>7, <2>1, <2>2 DEF TrackingInv, MappedOrdersAreOpen, Mapped, OpenRow
<1>8. CASE UNCHANGED order_store_
  <2>1. \A l \in LocalIds : RowStep(l, {})
    BY <1>8 DEF RowStep
  <2>2. ClosesDead({})
    BY DEF ClosesDead
  <2> QED
    BY <1>4, <2>1, <2>2, ClosingReach
<1>9. CASE Ending
  <2>1. /\ k \in LocalIds /\ get_broker_id(id_mapper_, k) = fill.broker_id
        /\ fill.status # "NONE"
        /\ \A l \in LocalIds : RowStep(l, {k})
    BY <1>6, <1>9 DEF Ending
  <2>2. ClosesDead({k})
    <3> SUFFICES ASSUME NEW b \in BrokerIds, OpenRow(k, b)
                 PROVE  ~IsLive(b)'
      BY DEF ClosesDead
    <3>1. fill.broker_id = b
      BY <1>7, <2>1
    <3>2. 1 \in DOMAIN queue_ /\ queue_[1] = event
      BY <1>1 DEF Dispatch, TrackingInv, TypeOK, event
    <3>3. Dead(b)
      BY <1>5, <2>1, <3>1, <3>2 DEF ReachInv, EndsQueued
    <3>4. Dead(b)'
      BY <3>3 DEF HandlerEnds, LiveFalls
    <3> QED
      BY <3>4 DEF Dead, IsLive
  <2> QED
    BY <1>4, <2>1, <2>2, ClosingReach
<1>10. CASE Crediting
  <2>1. /\ k \in LocalIds /\ get_broker_id(id_mapper_, k) = fill.broker_id
        /\ fill.status = "NONE"
        /\ Credited(order_store_[k], order_store_'[k], fill.filled_quantity)
        /\ \A l \in LocalIds \ {k} : order_store_'[l] = order_store_[l]
    BY <1>6, <1>10 DEF Crediting
  <2>2. Unfinished' /\ EndsSent' /\ EndsQueued'
    BY EndsSentKept, EndsQueuedKept DEF HandlerEnds, ReachInv
  <2>3. ReplacedIsDead'
    BY DEF HandlerEnds, ReplacedIsDead
  <2>4. RowOrders'
    BY <2>1, RowOrdersKept DEF HandlerEnds, ReachInv
  <2>5. fill.filled_quantity = 1
    <3>1. UnitReports
      BY DEF CountInv
    <3> QED
      BY <1>5, <2>1, <3>1, QueueShrinks DEF HandlerEnds
  <2>6. ASSUME Reached, NEW b \in BrokerIds, IsLive(b)', b \notin unrecorded'
        PROVE  \E l \in LocalIds : OpenRow(l, b)'
    <3>1. IsLive(b) /\ b \notin unrecorded /\ ~InCall
      BY <1>2, <1>3, <2>6 DEF HandlerEnds, LiveFalls, InCall
    <3>2. PICK l \in LocalIds : OpenRow(l, b)
      BY <2>6, <3>1 DEF Reached
    <3>3. CASE l # k
      <4>1. order_store_'[l] = order_store_[l]
        BY <2>1, <3>3
      <4>2. OpenRow(l, b)'
        BY <3>2, <4>1 DEF OpenRow
      <4> QED
        BY <4>2
    <3>4. CASE l = k
      <4>1. IsMapped(k) /\ fill.broker_id = b
        BY <1>7, <2>1, <3>2, <3>4
      <4>2. Counts(event, b)
        BY <1>5, <2>1, <4>1 DEF Counts
      <4>3. ~fully_filled(order_store_[k], 1)
        BY <3>1, <3>2, <3>4, <4>1, <4>2, CompletedIsDead DEF HandlerEnds
      <4>4. /\ order_store_'[k] # None
            /\ order_store_'[k].status = "PARTIALLY_FILLED"
            /\ order_store_'[k].broker_id = order_store_[k].broker_id
        BY <2>1, <2>5, <4>3 DEF Credited
      <4>5. OpenRow(k, b)'
        BY <3>2, <3>4, <4>4 DEF OpenRow, OpenStatus
      <4> QED
        BY <2>1, <4>5
    <3> QED
      BY <3>3, <3>4
  <2>7. BrokerIdsWritten' => Reached'
    BY <2>6 DEF BrokerIdsWritten, ReachInv, Reached
  <2> QED
    BY <2>2, <2>3, <2>4, <2>7 DEF ReachInv
<1> QED
  BY <1>1, <1>8, <1>9, <1>10

LEMMA HandlerReach ==
    ASSUME VenueInv, CountInv, ReachInv, DispatchThread
    PROVE  ReachInv'
<1>1. HandlerEnds
  BY HandlersEnd
<1> QED
  BY <1>1, SubmitReach, ReplaceReach, CancelReach, SweepReach, FillReach DEF DispatchThread

LEMMA NextReach == CountedInv /\ ReachInv /\ [AdapterTradingNext]_vars => ReachInv'
<1> SUFFICES ASSUME CountedInv, ReachInv, [AdapterTradingNext]_vars PROVE ReachInv'
  OBVIOUS
<1>1. VenueInv /\ CountInv
  BY DEF CountedInv
<1> QED
  BY <1>1, QuietReach, PlaceReach, HandlerReach, VenueReach, CrashReach DEF AdapterTradingNext

LEMMA InitReach == AdapterTradingInit => ReachInv
<1> SUFFICES ASSUME AdapterTradingInit PROVE ReachInv
  OBVIOUS
<1>1. /\ queue_ = <<>> /\ fill_queue = <<>> /\ order_store_ = EmptyTable
      /\ venue = [b \in BrokerIds |-> None] /\ call = NoCall
  BY DEF AdapterTradingInit, Init, AdapterInit
<1> QED
  BY <1>1 DEF ReachInv, Unfinished, RowOrders, EndsSent, EndsQueued, ReplacedIsDead, Reached,
              IsLive, InCall, Idle, NoCall, EmptyTable

LEMMA ReachInvariant == AdapterTradingSpec => []ReachInv
BY CountedInvariant, InitReach, NextReach, PTL DEF AdapterTradingSpec

\* When update_broker_id does not fail, an order that can still execute stays
\* within the reach of handle_cancel_all_command, through fills, replacements,
\* lost answers and crashes, unless the engine never got to record that the
\* venue had accepted it: the store never holds a row as closed whose order is
\* live at the venue.
THEOREM LiveOrdersReachable ==
    "update_broker_id" \notin FaultyCalls =>
        (AdapterTradingSpec => []LiveOrdersStayReachable)
<1>1. ASSUME BrokerIdsWritten
      PROVE  ReachInv => LiveOrdersStayReachable
  <2> SUFFICES ASSUME ReachInv, NEW b \in Live \ unrecorded, ~(InCall /\ call.broker_id = b)
               PROVE  \E l \in Reachable({}) : order_store_[l].broker_id = b
    BY DEF LiveOrdersStayReachable
  <2>1. b \in BrokerIds /\ IsLive(b) /\ b # None
    BY OrderIdsAssumption DEF Live, IsLive, BrokerIds
  <2>2. PICK l \in LocalIds : OpenRow(l, b)
    BY <1>1, <2>1 DEF ReachInv, Reached
  <2> QED
    BY <2>1, <2>2 DEF OpenRow, Reachable, get_open_orders, Stored
<1>2. CASE BrokerIdsWritten
  BY <1>1, <1>2, ReachInvariant, PTL
<1> QED
  BY <1>2 DEF BrokerIdsWritten

------------------------------------------------------------------------------
(***************************************************************************)
(* Crashes and the rest of the order manager.  Every step but a crash is   *)
(* one of the order manager (ManagerSteps); what a crash leaves in the     *)
(* store is a step in the life of an order, too.                           *)
(***************************************************************************)

LEMMA CrashLives ==
    ASSUME VenueInv, ReachInv, PendingHasNoBroker, NEW table \in Interrupted, Crash(table)
    PROVE  Lives
<1>1. TrackingInv /\ order_store_ \in Table /\ order_store_' = table
  BY DEF VenueInv, TrackingInv, TypeOK, Crash
<1>2. CASE Idle
  <2>1. table = order_store_
    BY <1>2 DEF Interrupted, InCall
  <2> QED
    BY <1>1, <2>1, NothingLives
<1>3. CASE InCall /\ event.kind = "submit"
  <2>1. queue_ # <<>> /\ id_generator_ < MaxOrders /\ "SUBMITTED" \in OrderStatus
    BY <1>3 DEF VenueInv, CallInv, OrderStatus
  <2>2. PICK k : k = id_generator_
    OBVIOUS
  <2>3. \/ table = WithPendingRow
        \/ table = update_order_status(WithPendingRow, k, "SUBMITTED")
    BY <1>3, <2>2 DEF Interrupted, InCall
  <2>4. /\ k \in LocalIds
        /\ event.signal \in Signals
        /\ \A l \in LocalIds \ {k} : order_store_'[l] = order_store_[l]
        /\ Entered(order_store_[k], order_store_'[k], event.signal, None)
    BY <1>1, <1>3, <2>1, <2>2, <2>3, PendingTables
  <2>5. order_store_'[k].status = "PENDING_SUBMISSION" \/ order_store_'[k].status = "SUBMITTED"
    <3>1. CASE table = WithPendingRow
      <4>1. WithPendingRow[k] = PendingRow
        BY <1>1, <2>2, <2>4 DEF WithPendingRow, store_order, Table
      <4> QED
        BY <1>1, <3>1, <4>1 DEF PendingRow, NewRow
    <3>2. CASE table = update_order_status(WithPendingRow, k, "SUBMITTED")
      BY <1>1, <1>3, <2>1, <2>2, <3>2, PendingTables
    <3> QED
      BY <2>3, <3>1, <3>2
  <2>6. /\ order_store_[k] = None /\ order_store_'[k] # None
        /\ order_store_'[k].broker_id = None
        /\ order_store_'[k].filled_quantity = 0
        /\ order_store_'[k].order.quantity \in Quantities
    BY <2>4 DEF Entered, Signals
  <2>7. LifeState(order_store_'[k]) \in {"pending", "working"}
    BY <2>5, <2>6, LifeOfRow
  <2> QED
    BY <2>4, <2>6, <2>7, OpeningLives
<1>4. CASE InCall /\ event.kind = "replace"
  <2>1. PICK k : k = event.order_id
    OBVIOUS
  <2>2. table = order_store_ \/ table = update_order_status(order_store_, k, "REPLACED")
    BY <1>4, <2>1 DEF Interrupted, InCall, ReplacedTable
  <2>3. k \in LocalIds
    <3>1. event \in Command \cup ReportEvent
      BY <1>1, <1>4 DEF VenueInv, CallInv, TrackingInv, TypeOK, event
    <3>2. event \in ReplaceCommand
      BY <1>4, <3>1 DEF Command, SubmitCommand, CancelCommand, ReplaceCommand,
                        CancelAllCommand, ReportEvent
    <3> QED
      BY <2>1, <3>2 DEF ReplaceCommand
  <2>4. IsMapped(k)
    BY <1>4, <2>1 DEF ReachInv, ReplacedIsDead
  <2>5. order_store_[k] # None /\ LifeState(order_store_[k]) = "working"
    BY <1>1, <2>3, <2>4, FreshAndWorking
  <2> QED
    BY <1>1, <2>2, <2>3, <2>5, NothingLives, AbandoningLives
<1> QED
  BY <1>2, <1>3, <1>4 DEF VenueInv, CallInv, InCall

LEMMA LifeGoesOn ==
    VenueInv /\ ReachInv /\ PendingHasNoBroker /\ [AdapterTradingNext]_vars => Lives
<1> SUFFICES ASSUME VenueInv, ReachInv, PendingHasNoBroker, [AdapterTradingNext]_vars
             PROVE  Lives
  OBVIOUS
<1>1. LifeInv
  BY DEF LifeInv, VenueInv
<1> QED
  BY <1>1, CrashLives, ManagerSteps, NextLives

\* The orders table lives the life OrderLifecycle promises across crashes of the
\* engine at any statement of handle_submit_command and handle_replace_command:
\* an order manager that starts again on the same database opens no order twice
\* and touches none that has ended.
THEOREM OrdersLiveOnceAcrossCrashes == AdapterTradingSpec => LifecycleRefined
<1>1. AdapterTradingInit => Lifecycle!LifeInit /\ PendingHasNoBroker
  <2> SUFFICES ASSUME AdapterTradingInit PROVE Lifecycle!LifeInit /\ PendingHasNoBroker
    OBVIOUS
  <2>1. order_store_ = EmptyTable
    BY DEF AdapterTradingInit, Init
  <2>2. \A l \in LocalIds : order_store_[l] = None /\ LifeState(order_store_[l]) = "none"
    BY <2>1, LifeOfRow DEF EmptyTable
  <2> QED
    BY <2>2 DEF Lifecycle!LifeInit, PendingHasNoBroker, Stored
<1>2. CountedInv => VenueInv
  BY DEF CountedInv
<1>3. Lives => [Lifecycle!LifeNext]_(Lifecycle!lifeVars) /\ PendingHasNoBroker'
  BY DEF Lives
<1> QED
  BY <1>1, <1>2, <1>3, CountedInvariant, ReachInvariant, LifeGoesOn, PTL
  DEF AdapterTradingSpec, LifecycleRefined, Lifecycle!LifeSpec

\* An order manager that starts again after a crash tracks correctly what it
\* tracks: the maps of the id mapper stay inverse, what they hold is open in the
\* store, and open_order_count_ covers it.
THEOREM TrackingAcrossCrashes ==
    AdapterTradingSpec => [](MapperInverse /\ MappedOrdersAreOpen /\ CountCoversMapped)
<1>1. VenueInv => MapperInverse /\ MappedOrdersAreOpen /\ CountCoversMapped
  BY DEF VenueInv, TrackingInv
<1> QED
  BY <1>1, VenueInvariant, PTL
==============================================================================
