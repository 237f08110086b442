------------------------- MODULE OrderManagerProofs --------------------------
(***************************************************************************)
(* Theorems about the order manager against any gateway, for every number  *)
(* of orders and clients, every set of symbols, quantities and prices, all *)
(* limits and any failing store calls.                                     *)
(***************************************************************************)
EXTENDS OrderManager, Arithmetic, SequenceTheorems

------------------------------------------------------------------------------
(* What the statements of the order store return.                           *)

\* Every fill of the gateway is a natural number of units.
LEMMA FillQuantityNat == FillQuantity \subseteq Nat
BY SignalAssumption DEF FillQuantity

\* The average the store keeps is a fraction: a row that was filled before has
\* a positive quantity to divide by.
LEMMA FilledRowType ==
    ASSUME NEW row \in StoredOrder, NEW qty \in Nat, NEW price \in Nat,
           NEW status \in OrderStatus
    PROVE  FilledRow(row, qty, price, status) \in StoredOrder
<1>1. row.filled_quantity \in Nat /\ row.avg_fill_price \in Rational
  BY DEF StoredOrder
<1>2. AvgFillPrice(row, qty, price) \in Rational
  <2>1. Rat(price) \in Rational /\ Rat(price * qty) \in Rational
    BY RatType
  <2>2. RatAdd(RatScale(row.filled_quantity, row.avg_fill_price), Rat(price * qty))
            \in Rational
    BY <1>1, <2>1, RatArithmeticType
  <2>3. row.filled_quantity # 0 =>
            /\ row.filled_quantity + qty \in Int
            /\ row.filled_quantity + qty # 0
    BY <1>1
  <2> QED
    BY <2>1, <2>2, <2>3, RatArithmeticType DEF AvgFillPrice
<1>3. row.filled_quantity + qty \in Nat
  BY <1>1
<1> QED
  BY <1>2, <1>3 DEF FilledRow, StoredOrder

------------------------------------------------------------------------------
\* The statements of the order store turn tables into tables.
LEMMA UpdateStatusesType ==
    ASSUME NEW table \in Table, NEW local_ids \in SUBSET LocalIds, NEW status \in OrderStatus
    PROVE  update_order_statuses(table, local_ids, status) \in Table
<1>1. \A l \in LocalIds :
          table[l] # None => [table[l] EXCEPT !.status = status] \in StoredOrder
  BY DEF Table, StoredOrder
<1> QED
  BY <1>1 DEF update_order_statuses, Table

LEMMA StoreStatementsType ==
    ASSUME NEW table \in Table, NEW local_id \in LocalIds
    PROVE  /\ \A row \in StoredOrder : store_order(table, local_id, row) \in Table
           /\ \A status \in OrderStatus :
                  update_order_status(table, local_id, status) \in Table
           /\ \A broker_id \in BrokerIds :
                  update_broker_id(table, local_id, broker_id) \in Table
<1>1. \A row \in StoredOrder : store_order(table, local_id, row) \in Table
  BY DEF store_order, Table
<1>2. \A status \in OrderStatus : update_order_status(table, local_id, status) \in Table
  BY UpdateStatusesType DEF update_order_status
<1>3. \A broker_id \in BrokerIds : update_broker_id(table, local_id, broker_id) \in Table
  <2> SUFFICES ASSUME NEW broker_id \in BrokerIds
               PROVE  update_broker_id(table, local_id, broker_id) \in Table
    OBVIOUS
  <2>1. \A l \in LocalIds :
            table[l] # None => [table[l] EXCEPT !.broker_id = broker_id] \in StoredOrder
    BY DEF Table, StoredOrder
  <2> QED
    BY <2>1 DEF update_broker_id, Table
<1> QED
  BY <1>1, <1>2, <1>3

\* So does the UPDATE of apply_fill.
LEMMA ApplyFillType ==
    ASSUME NEW table \in Table, NEW local_id \in LocalIds, NEW qty \in Nat,
           NEW price \in Nat, NEW status \in OrderStatus
    PROVE  apply_fill(table, local_id, qty, price, status) \in Table
<1>1. \A l \in LocalIds : table[l] # None => table[l] \in StoredOrder
  BY DEF Table
<1>2. \A l \in LocalIds :
          table[l] # None => FilledRow(table[l], qty, price, status) \in StoredOrder
  BY <1>1, FilledRowType
<1> QED
  BY <1>2 DEF apply_fill, Table

\* A row as the handlers insert it.
LEMMA NewRowType ==
    ASSUME NEW order \in Signals, NEW status \in OrderStatus,
           NEW broker_id \in BrokerIds \cup {None}
    PROVE  NewRow(order, status, broker_id) \in StoredOrder
BY RatType DEF NewRow, StoredOrder

------------------------------------------------------------------------------
(* Type correctness.                                                        *)

\* The event at the head of the queue is a command or a report of its kind.
LEMMA EventType ==
    ASSUME TypeOK, NEW kind, Dispatch(kind)
    PROVE  /\ queue_' \in Seq(Command \cup ReportEvent)
           /\ event.kind = kind
           /\ kind = "submit" => event \in SubmitCommand
           /\ kind = "cancel" => event \in CancelCommand
           /\ kind = "replace" => event \in ReplaceCommand
           /\ kind = "report" => event \in ReportEvent
<1>1. queue_ \in Seq(Command \cup ReportEvent) /\ queue_ # <<>>
  BY DEF TypeOK, Dispatch
<1>2. event \in Command \cup ReportEvent /\ Tail(queue_) \in Seq(Command \cup ReportEvent)
  BY <1>1 DEF event
<1>3. queue_' = Tail(queue_) /\ event.kind = kind
  BY DEF Dispatch
<1> QED
  BY <1>2, <1>3 DEF Command, SubmitCommand, CancelCommand, ReplaceCommand, CancelAllCommand,
                    ReportEvent

\* The mapper's operations turn maps into maps.
LEMMA MapperType ==
    ASSUME NEW m \in Mapper, NEW local \in LocalIds, NEW broker \in BrokerIds
    PROVE  add_mapping(m, local, broker) \in Mapper
BY DEF add_mapping, Mapper

LEMMA RemoveType ==
    ASSUME NEW m \in Mapper
    PROVE  /\ \A locals \in SUBSET LocalIds : remove_mappings(m, locals) \in Mapper
           /\ \A local \in LocalIds : remove_mapping(m, local) \in Mapper
BY DEF remove_mappings, remove_mapping, Mapper

\* What handle_submit_command reads and builds: a fresh id and its first row.
LEMMA SubmitContext ==
    ASSUME TypeOK, Dispatch("submit"), id_generator_ < MaxOrders
    PROVE  /\ id_generator_ \in LocalIds
           /\ id_generator_ + 1 \in 0 .. MaxOrders
           /\ event.client \in Clients
           /\ event.signal \in Signals
           /\ PendingRow \in StoredOrder
           /\ WithPendingRow \in Table
<1>1. id_generator_ \in LocalIds /\ id_generator_ + 1 \in 0 .. MaxOrders
  BY OrderIdsAssumption DEF TypeOK, LocalIds
<1>2. event.client \in Clients /\ event.signal \in Signals
  BY EventType DEF SubmitCommand
<1>3. PendingRow \in StoredOrder
  BY <1>2, NewRowType DEF PendingRow, OrderStatus
<1>4. WithPendingRow \in Table
  BY <1>1, <1>3, StoreStatementsType DEF WithPendingRow, TypeOK
<1> QED
  BY <1>1, <1>2, <1>3, <1>4

\* What every path of handle_submit_command does to the variables it shares.
LEMMA SubmittingType ==
    ASSUME TypeOK, Dispatch("submit"), NEW entries \in SUBSET (Events \X (LocalIds \cup {None})),
           Submitting(entries)
    PROVE  /\ queue_' \in Seq(Command \cup ReportEvent)
           /\ waiting' \subseteq Clients
           /\ id_generator_' \in 0 .. MaxOrders
           /\ journal_' \subseteq Events \X (LocalIds \cup {None})
           /\ positions_' \in [Symbols -> Position]
           /\ fill_sink_' \in BOOLEAN
           /\ streamed' \in [BrokerIds -> Nat]
           /\ phase' \in {"running", "stopping", "draining", "destroyed"}
<1>1. queue_' \in Seq(Command \cup ReportEvent)
  BY EventType
<1>2. id_generator_ < MaxOrders
  BY DEF Submitting
<1>3. id_generator_ \in LocalIds /\ id_generator_ + 1 \in 0 .. MaxOrders
  BY <1>2, SubmitContext
<1>4. waiting' \subseteq Clients /\ id_generator_' \in 0 .. MaxOrders
  BY <1>3 DEF TypeOK, Submitting, Answer, generate
<1>5. journal_' \subseteq Events \X (LocalIds \cup {None})
  BY <1>3 DEF TypeOK, Submitting, log, Events
<1> QED
  BY <1>1, <1>4, <1>5 DEF TypeOK, Submitting

\* handle_submit_command preserves the types.
LEMMA SubmitType ==
    ASSUME TypeOK, NEW fail, handle_submit_command(fail)
    PROVE  TypeOK'
<1> USE DEF ErrorIf, Events
<1>1. CASE SubmitNotStored(fail)
  <2>1. Dispatch("submit") /\ id_generator_ < MaxOrders
    BY <1>1 DEF SubmitNotStored, Submitting
  <2>2. \E entries \in SUBSET (Events \X (LocalIds \cup {None})) : Submitting(entries)
    <3>1. {<<"ERROR_OCCURRED", id_generator_>>} \in SUBSET (Events \X (LocalIds \cup {None}))
      BY <2>1, SubmitContext
    <3> QED
      BY <1>1, <3>1 DEF SubmitNotStored
  <2> QED
    BY <1>1, <2>1, <2>2, SubmittingType DEF SubmitNotStored, TypeOK
<1>2. CASE Dispatch("submit") /\ RecordRejection(fail)
  <2>1. id_generator_ < MaxOrders
    BY <1>2 DEF RecordRejection, Submitting
  <2>2. \E entries \in SUBSET (Events \X (LocalIds \cup {None})) : Submitting(entries)
    BY <1>2, <2>1, SubmitContext DEF RecordRejection
  <2>3. order_store_' \in Table
    BY <1>2, <2>1, SubmitContext, StoreStatementsType DEF RecordRejection, OrderStatus
  <2> QED
    BY <1>2, <2>2, <2>3, SubmittingType DEF RecordRejection, TypeOK
<1>3. ASSUME NEW b \in BrokerIds, SubmitNotRecorded(fail, b)
      PROVE  TypeOK'
  <2>1. Dispatch("submit") /\ id_generator_ < MaxOrders
    BY <1>3 DEF SubmitNotRecorded, Submitting
  <2>2. \E entries \in SUBSET (Events \X (LocalIds \cup {None})) : Submitting(entries)
    BY <1>3, <2>1, SubmitContext DEF SubmitNotRecorded
  <2>3. order_store_' \in Table
    BY <1>3, <2>1, SubmitContext DEF SubmitNotRecorded
  <2>4. broker_count' \in 0 .. MaxOrders
    BY <1>3, OrderIdsAssumption DEF SubmitNotRecorded, TypeOK, BrokerIds
  <2> QED
    BY <1>3, <2>1, <2>2, <2>3, <2>4, SubmittingType DEF SubmitNotRecorded, TypeOK
<1>4. ASSUME NEW b \in BrokerIds, SubmitAccepted(fail, b)
      PROVE  TypeOK'
  <2>1. Dispatch("submit") /\ id_generator_ < MaxOrders
    BY <1>4 DEF SubmitAccepted, Submitting
  <2>2. \E entries \in SUBSET (Events \X (LocalIds \cup {None})) : Submitting(entries)
    <3>1. {<<"ORDER_SUBMITTED", id_generator_>>, <<"ERROR_OCCURRED", id_generator_>>}
              \in SUBSET (Events \X (LocalIds \cup {None}))
      BY <2>1, SubmitContext
    <3> QED
      BY <1>4, <3>1 DEF SubmitAccepted
  <2>3. order_store_' \in Table
    <3> DEFINE submitted == update_order_status(WithPendingRow, id_generator_, "SUBMITTED")
    <3>1. submitted \in Table
      BY <2>1, SubmitContext, StoreStatementsType DEF OrderStatus
    <3>2. update_broker_id(submitted, id_generator_, b) \in Table
      BY <2>1, <3>1, SubmitContext, StoreStatementsType
    <3> QED
      BY <1>4, <3>1, <3>2 DEF SubmitAccepted
  <2>4. broker_count' \in 0 .. MaxOrders
    BY <1>4, OrderIdsAssumption DEF SubmitAccepted, TypeOK, BrokerIds
  <2>5. id_mapper_' \in Mapper
    BY <1>4, <2>1, SubmitContext, MapperType DEF SubmitAccepted, TypeOK
  <2>6. open_order_count_' \in Int
    BY <1>4 DEF SubmitAccepted, TypeOK
  <2> QED
    BY <2>1, <2>2, <2>3, <2>4, <2>5, <2>6, SubmittingType DEF TypeOK
<1> QED
  BY <1>1, <1>2, <1>3, <1>4 DEF handle_submit_command, SubmitRefusedByRisk,
                                SubmitRejectedByGateway

\* A step that answers a command and changes nothing else.
LEMMA RefuseType ==
    ASSUME TypeOK, NEW kind, Refuse(kind)
    PROVE  TypeOK'
<1>1. queue_' \in Seq(Command \cup ReportEvent)
  BY EventType DEF Refuse
<1> QED
  BY <1>1 DEF Refuse, Answer, TypeOK

\* handle_cancel_command preserves the types.
LEMMA CancelType ==
    ASSUME TypeOK, NEW fail, handle_cancel_command(fail)
    PROVE  TypeOK'
<1>1. CASE Refuse("cancel")
  BY <1>1, RefuseType
<1>2. ASSUME Dispatch("cancel"), NEW entries \in SUBSET (Events \X (LocalIds \cup {None})),
             Cancelling(entries), order_store_' \in Table, open_order_count_' \in Int
      PROVE  TypeOK'
  <2>1. queue_' \in Seq(Command \cup ReportEvent) /\ event.order_id \in LocalIds
    BY <1>2, EventType DEF CancelCommand
  <2>2. id_mapper_' \in Mapper
    BY <1>2, <2>1, OrderIdsAssumption, RemoveType DEF Cancelling, TypeOK
  <2>3. journal_' \subseteq Events \X (LocalIds \cup {None})
    BY <1>2, <2>1 DEF Cancelling, log, TypeOK, Events
  <2> QED
    BY <1>2, <2>1, <2>2, <2>3 DEF Cancelling, Answer, TypeOK
<1>3. CASE CancelNotRecorded(fail)
  <2>1. Dispatch("cancel") /\ event.order_id \in LocalIds
    BY <1>3, EventType DEF CancelNotRecorded, CancelCommand
  <2>2. {<<"ERROR_OCCURRED", event.order_id>>} \in SUBSET (Events \X (LocalIds \cup {None}))
    BY <2>1 DEF Events
  <2> QED
    BY <1>2, <1>3, <2>1, <2>2 DEF CancelNotRecorded, TypeOK
<1>4. CASE CancelDone(fail)
  <2>1. Dispatch("cancel") /\ event.order_id \in LocalIds
    BY <1>4, EventType DEF CancelDone, CancelCommand
  <2>2. order_store_' \in Table
    BY <1>4, <2>1, StoreStatementsType DEF CancelDone, TypeOK, OrderStatus
  <2> QED
    BY <1>2, <1>4, <2>1, <2>2 DEF CancelDone, TypeOK
<1> QED
  BY <1>1, <1>3, <1>4 DEF handle_cancel_command, CancelUnknown, CancelRefusedByGateway

\* handle_replace_command preserves the types.
LEMMA ReplaceType ==
    ASSUME TypeOK, NEW fail, handle_replace_command(fail)
    PROVE  TypeOK'
<1>1. CASE ReplaceUnknown
  BY <1>1, RefuseType DEF ReplaceUnknown
<1>2. ASSUME Dispatch("replace"), NEW entries \in SUBSET (Events \X (LocalIds \cup {None})),
             Replacing(entries), order_store_' \in Table, id_mapper_' \in Mapper,
             broker_count' \in 0 .. MaxOrders
      PROVE  TypeOK'
  <2>1. queue_' \in Seq(Command \cup ReportEvent)
    BY <1>2, EventType
  <2>2. id_generator_ \in LocalIds /\ id_generator_' \in 0 .. MaxOrders
    BY <1>2, OrderIdsAssumption DEF Replacing, generate, TypeOK, LocalIds
  <2>3. journal_' \subseteq Events \X (LocalIds \cup {None})
    BY <1>2, <2>2 DEF Replacing, log, TypeOK, Events
  <2> QED
    BY <1>2, <2>1, <2>2, <2>3 DEF Replacing, Answer, TypeOK
<1>3. ASSUME Dispatch("replace")
      PROVE  /\ event.order_id \in LocalIds
             /\ event.signal \in Signals
             /\ ReplacedTable \in Table
             /\ remove_mapping(id_mapper_, event.order_id) \in Mapper
  <2>1. event.order_id \in LocalIds /\ event.signal \in Signals
    BY <1>3, EventType DEF ReplaceCommand
  <2> QED
    BY <2>1, StoreStatementsType, RemoveType DEF ReplacedTable, OrderStatus, TypeOK
<1>4. ASSUME id_generator_ < MaxOrders
      PROVE  id_generator_ \in LocalIds
  BY <1>4, OrderIdsAssumption DEF TypeOK, LocalIds
<1>5. CASE ReplaceRejectedByGateway
  <2>1. Dispatch("replace") /\ id_generator_ < MaxOrders
    BY <1>5 DEF ReplaceRejectedByGateway, Replacing
  <2>2. {<<"ORDER_REJECTED", id_generator_>>} \in SUBSET (Events \X (LocalIds \cup {None}))
    BY <1>4, <2>1 DEF Events
  <2> QED
    BY <1>2, <1>5, <2>1, <2>2 DEF ReplaceRejectedByGateway, TypeOK
<1>6. ASSUME NEW b \in BrokerIds, ReplaceNotRecorded(fail, b)
      PROVE  TypeOK'
  <2>1. Dispatch("replace") /\ id_generator_ < MaxOrders
    BY <1>6 DEF ReplaceNotRecorded, Replacing
  <2>2. \E entries \in SUBSET (Events \X (LocalIds \cup {None})) : Replacing(entries)
    <3>1. /\ {<<"ERROR_OCCURRED", event.order_id>>}
                 \in SUBSET (Events \X (LocalIds \cup {None}))
          /\ {<<"ERROR_OCCURRED", id_generator_>>}
                 \in SUBSET (Events \X (LocalIds \cup {None}))
      BY <1>3, <1>4, <2>1 DEF Events
    <3> QED
      BY <1>6, <3>1 DEF ReplaceNotRecorded
  <2>3. order_store_' \in Table
    BY <1>3, <1>6, <2>1 DEF ReplaceNotRecorded, TypeOK
  <2>4. broker_count' \in 0 .. MaxOrders
    BY <1>6, OrderIdsAssumption DEF ReplaceNotRecorded, TypeOK, BrokerIds
  <2>5. id_mapper_' \in Mapper
    BY <1>3, <1>6, <2>1 DEF ReplaceNotRecorded
  <2> QED
    BY <1>2, <2>1, <2>2, <2>3, <2>4, <2>5
<1>7. ASSUME NEW b \in BrokerIds, ReplaceDone(fail, b)
      PROVE  TypeOK'
  <2>1. Dispatch("replace") /\ id_generator_ < MaxOrders
    BY <1>7 DEF ReplaceDone, Replacing
  <2>2. {<<"ORDER_SUBMITTED", id_generator_>>} \in SUBSET (Events \X (LocalIds \cup {None}))
    BY <1>4, <2>1 DEF Events
  <2>3. order_store_' \in Table
    <3>1. ReplacementRow(b) \in StoredOrder
      BY <1>3, <2>1, NewRowType DEF ReplacementRow, OrderStatus
    <3> QED
      BY <1>3, <1>4, <1>7, <2>1, <3>1, StoreStatementsType DEF ReplaceDone
  <2>4. broker_count' \in 0 .. MaxOrders
    BY <1>7, OrderIdsAssumption DEF ReplaceDone, TypeOK, BrokerIds
  <2>5. id_mapper_' \in Mapper
    BY <1>3, <1>4, <1>7, <2>1, MapperType DEF ReplaceDone
  <2> QED
    BY <1>2, <1>7, <2>1, <2>2, <2>3, <2>4, <2>5 DEF ReplaceDone
<1> QED
  BY <1>1, <1>5, <1>6, <1>7 DEF handle_replace_command

\* handle_cancel_all_command preserves the types.
LEMMA CancelAllType ==
    ASSUME TypeOK, NEW fail, NEW refused, NEW unrecorded,
           handle_cancel_all_command(fail, refused, unrecorded)
    PROVE  TypeOK'
<1> DEFINE cancelled == Reachable(fail) \ (refused \cup unrecorded)
<1>1. Reachable(fail) \subseteq LocalIds
  BY DEF Reachable, get_open_orders, Stored
<1>2. queue_' \in Seq(Command \cup ReportEvent)
  BY EventType DEF handle_cancel_all_command
<1>3. order_store_' \in Table
  <2>1. cancelled \in SUBSET LocalIds
    BY <1>1
  <2> QED
    BY <2>1, UpdateStatusesType DEF handle_cancel_all_command, TypeOK, OrderStatus
<1>4. id_mapper_' \in Mapper
  BY <1>1, RemoveType DEF handle_cancel_all_command, TypeOK
<1>5. journal_' \subseteq Events \X (LocalIds \cup {None})
  <2>1. /\ {<<"ORDER_CANCELLED", l>> : l \in cancelled} \subseteq Events \X (LocalIds \cup {None})
        /\ {<<"ERROR_OCCURRED", l>> : l \in refused \cup unrecorded}
               \subseteq Events \X (LocalIds \cup {None})
        /\ {<<"KILL_SWITCH_ACTIVATED", None>>} \subseteq Events \X (LocalIds \cup {None})
    BY <1>1 DEF handle_cancel_all_command, Events
  <2> QED
    BY <2>1 DEF handle_cancel_all_command, log, TypeOK
<1> QED
  BY <1>2, <1>3, <1>4, <1>5 DEF handle_cancel_all_command, Answer, TypeOK

\* What handle_fill reads: a well-formed report and the order it is about.
LEMMA FillContext ==
    ASSUME TypeOK, Dispatch("report")
    PROVE  /\ queue_' \in Seq(Command \cup ReportEvent)
           /\ fill \in Reports
           /\ fill.broker_id \in BrokerIds
           /\ fill.symbol \in Symbols
           /\ fill.filled_quantity \in Nat
           /\ fill.avg_fill_price \in Nat
           /\ fill.status \in {"NONE", "REJECTED", "CANCELLED"}
           /\ filled_local_id \in LocalIds \cup {None}
<1>1. queue_' \in Seq(Command \cup ReportEvent) /\ event \in ReportEvent
  BY EventType
<1>2. fill \in Reports
  BY <1>1 DEF fill, ReportEvent
<1>3. /\ fill.broker_id \in BrokerIds
      /\ fill.symbol \in Symbols
      /\ fill.filled_quantity \in Nat
      /\ fill.avg_fill_price \in Nat
      /\ fill.status \in {"NONE", "REJECTED", "CANCELLED"}
  BY <1>2, FillQuantityNat, SignalAssumption DEF Reports
<1>4. filled_local_id \in LocalIds \cup {None}
  BY <1>3 DEF filled_local_id, get_local_id, TypeOK, Mapper
<1> QED
  BY <1>1, <1>2, <1>3, <1>4

\* handle_fill preserves the types.
LEMMA FillType ==
    ASSUME TypeOK, NEW fail, handle_fill(fail)
    PROVE  TypeOK'
<1>1. Dispatch("report")
  BY DEF handle_fill, FillUnknown, FillTerminal, FillNotApplied, FillApplied
<1>2. ASSUME NotifyFillSink
      PROVE  streamed' \in [BrokerIds -> Nat]
  <2>1. /\ streamed \in [BrokerIds -> Nat]
        /\ fill.broker_id \in BrokerIds
        /\ fill.filled_quantity \in Nat
    BY <1>1, FillContext DEF TypeOK
  <2> QED
    BY <1>2, <2>1 DEF NotifyFillSink
<1>3. CASE FillUnknown
  BY <1>1, <1>3, FillContext DEF FillUnknown, TypeOK
<1>4. CASE FillTerminal(fail)
  <2>1. filled_local_id \in LocalIds /\ fill.status \in OrderStatus
    BY <1>1, <1>4, FillContext DEF FillTerminal, OrderStatus
  <2>2. order_store_' \in Table
    BY <1>4, <2>1, StoreStatementsType DEF FillTerminal, Persisted, TypeOK
  <2>3. id_mapper_' \in Mapper
    BY <1>4, <2>1, RemoveType DEF FillTerminal, TypeOK
  <2>4. journal_' \subseteq Events \X (LocalIds \cup {None})
    BY <1>4, <2>1 DEF FillTerminal, log, ErrorIf, Events, TypeOK
  <2> QED
    BY <1>1, <1>2, <1>4, <2>2, <2>3, <2>4, FillContext DEF FillTerminal, TypeOK
<1>5. CASE FillNotApplied(fail)
  <2>1. journal_' \subseteq Events \X (LocalIds \cup {None})
    BY <1>1, <1>5, FillContext DEF FillNotApplied, log, Events, TypeOK
  <2> QED
    BY <1>1, <1>5, <2>1, FillContext DEF FillNotApplied, TypeOK
<1>6. CASE FillApplied(fail)
  <2>1. filled_local_id \in LocalIds
    BY <1>1, <1>6, FillContext DEF FillApplied
  <2>2. order_store_' \in Table
    <3>1. \A status \in OrderStatus :
              apply_fill(order_store_, filled_local_id, fill.filled_quantity,
                         fill.avg_fill_price, status) \in Table
      BY <1>1, <2>1, FillContext, ApplyFillType DEF TypeOK
    <3> QED
      BY <1>6, <3>1 DEF FillApplied, Persisted, OrderStatus, TypeOK
  <2>3. positions_' \in [Symbols -> Position]
    BY <1>1, <1>6, FillContext, OnFillType DEF FillApplied, TypeOK
  <2>4. id_mapper_' \in Mapper
    BY <1>6, <2>1, RemoveType DEF FillApplied, TypeOK
  <2>5. journal_' \subseteq Events \X (LocalIds \cup {None})
    BY <1>6, <2>1 DEF FillApplied, log, ErrorIf, Events, TypeOK
  <2>6. open_order_count_' \in Int
    BY <1>6 DEF FillApplied, TypeOK
  <2> QED
    BY <1>1, <1>2, <1>6, <2>2, <2>3, <2>4, <2>5, <2>6, FillContext DEF FillApplied, TypeOK
<1> QED
  BY <1>3, <1>4, <1>5, <1>6 DEF handle_fill

\* What clients, the gateway and the destruction do preserves the types.
LEMMA ClientStepType ==
    ASSUME TypeOK, ClientStep
    PROVE  TypeOK'
<1>1. ASSUME NEW cmd \in Command, cmd.client \in Clients, process_signal(cmd)
      PROVE  TypeOK'
  <2>1. queue_' \in Seq(Command \cup ReportEvent)
    BY <1>1 DEF process_signal, enqueue, TypeOK
  <2> QED
    BY <1>1, <2>1 DEF process_signal, TypeOK
<1>2. ASSUME NEW c \in Clients, NEW signal \in Signals, SubmitSignal(c, signal)
      PROVE  TypeOK'
  BY <1>1, <1>2 DEF SubmitSignal, Command, SubmitCommand
<1>3. ASSUME NEW c \in Clients, NEW l \in LocalIds, CancelSignal(c, l)
      PROVE  TypeOK'
  BY <1>1, <1>3 DEF CancelSignal, Command, CancelCommand
<1>4. ASSUME NEW c \in Clients, NEW l \in LocalIds, NEW signal \in Signals,
             ReplaceSignal(c, l, signal)
      PROVE  TypeOK'
  BY <1>1, <1>4 DEF ReplaceSignal, Command, ReplaceCommand
<1>5. ASSUME NEW c \in Clients, cancel_all(c)
      PROVE  TypeOK'
  BY <1>1, <1>5 DEF cancel_all, Command, CancelAllCommand
<1>6. ASSUME set_fill_sink \/ clear_fill_sink
      PROVE  TypeOK'
  BY <1>6 DEF set_fill_sink, clear_fill_sink, SwitchFillSink, TypeOK
<1> QED
  BY <1>2, <1>3, <1>4, <1>5, <1>6 DEF ClientStep

\* Every step preserves the types.
LEMMA NextType == TypeOK /\ [Next]_omVars => TypeOK'
<1> SUFFICES ASSUME TypeOK, [Next]_omVars
             PROVE  TypeOK'
  OBVIOUS
<1>1. CASE ClientStep
  BY <1>1, ClientStepType
<1>2. CASE AnyGatewayStep
  <2>1. PICK r \in Reports : GatewayReport(r)
    BY <1>2 DEF AnyGatewayStep
  <2>2. [kind |-> "report", report |-> r] \in ReportEvent
    BY DEF ReportEvent
  <2>3. queue_' \in Seq(Command \cup ReportEvent)
    BY <2>1, <2>2 DEF GatewayReport, enqueue, TypeOK
  <2> QED
    BY <2>1, <2>3 DEF GatewayReport, TypeOK
<1>3. CASE run_dispatch_loop
  BY <1>3, SubmitType, CancelType, ReplaceType, CancelAllType, FillType DEF run_dispatch_loop
<1>4. CASE Destroy \/ GatewayStopped \/ LeaveLoop
  BY <1>4 DEF Destroy, GatewayStopped, LeaveLoop, Enters, TypeOK
<1>5. CASE Destroyed \/ UNCHANGED omVars
  BY <1>5 DEF Destroyed, omVars, TypeOK
<1> QED
  BY <1>1, <1>2, <1>3, <1>4, <1>5 DEF Next

LEMMA InitType == Init => TypeOK
<1> SUFFICES ASSUME Init PROVE TypeOK
  OBVIOUS
<1>1. FlatPosition \in Position
  BY RatType DEF FlatPosition, Position
<1>2. EmptyMapper \in Mapper /\ EmptyTable \in Table
  BY DEF EmptyMapper, Mapper, EmptyTable, Table
<1>3. <<>> \in Seq(Command \cup ReportEvent) /\ 0 \in 0 .. MaxOrders
  BY OrderIdsAssumption
<1>4. /\ positions_ \in [Symbols -> Position]
      /\ streamed \in [BrokerIds -> Nat]
      /\ open_order_count_ \in Int
  BY <1>1 DEF Init
<1>5. /\ waiting \subseteq Clients
      /\ journal_ \subseteq Events \X (LocalIds \cup {None})
  BY DEF Init
<1>6. fill_sink_ \in BOOLEAN /\ phase \in {"running", "stopping", "draining", "destroyed"}
  BY DEF Init
<1>7. /\ queue_ \in Seq(Command \cup ReportEvent)
      /\ id_generator_ \in 0 .. MaxOrders
      /\ order_store_ \in Table
      /\ id_mapper_ \in Mapper
      /\ broker_count \in 0 .. MaxOrders
  BY <1>2, <1>3 DEF Init
<1> QED
  BY <1>4, <1>5, <1>6, <1>7 DEF TypeOK

\* Type correctness: whatever the gateway reports and whichever store calls fail,
\* quantities stay natural numbers, prices and profits fractions with a positive
\* denominator, and every row, mapping and event well formed.
THEOREM TypeCorrect == Spec => []TypeOK
BY InitType, NextType, PTL DEF Spec

------------------------------------------------------------------------------
(***************************************************************************)
(* What the order manager tracks: the id mapper, the rows of the mapped    *)
(* orders and the open-order counter.                                      *)
(*                                                                         *)
(* The invariants hold one another up.  A mapping is added for two fresh   *)
(* ids, which IdsIssued shows to be unmapped, so the maps stay inverse; a  *)
(* report finds a mapped order only because they are; the row of a mapped  *)
(* order is written by the handler that found it or unmaps it.             *)
(***************************************************************************)

\* The generators run ahead of every id in use.
IdsIssued ==
    /\ \A l \in LocalIds : IsMapped(l) \/ order_store_[l] # None => l < id_generator_
    /\ \A l \in Mapped : get_broker_id(id_mapper_, l) < broker_count

TrackingInv ==
    /\ TypeOK
    /\ IdsIssued
    /\ MapperInverse
    /\ MappedOrdersAreOpen
    /\ CountCoversMapped

------------------------------------------------------------------------------
(* The mapper.                                                              *)

\* The two maps of m are inverse of each other.
MapsAgree(m) ==
    \A l \in LocalIds, b \in BrokerIds : get_broker_id(m, l) = b <=> get_local_id(m, b) = l

\* Removing mappings affects the removed orders only, in both directions.
LEMMA RemoveEffect ==
    ASSUME NEW m \in Mapper, NEW gone \in SUBSET LocalIds, MapsAgree(m)
    PROVE  /\ MapsAgree(remove_mappings(m, gone))
           /\ \A l \in LocalIds :
                  get_broker_id(remove_mappings(m, gone), l) =
                      IF l \in gone THEN None ELSE get_broker_id(m, l)
<1>1. \A l \in LocalIds :
          get_broker_id(remove_mappings(m, gone), l) =
              IF l \in gone THEN None ELSE get_broker_id(m, l)
  BY DEF remove_mappings, get_broker_id
<1>2. \A b \in BrokerIds :
          get_local_id(remove_mappings(m, gone), b) =
              IF \E l \in gone : get_broker_id(m, l) = b THEN None ELSE get_local_id(m, b)
  BY DEF remove_mappings, get_broker_id, get_local_id
<1>3. None \notin LocalIds /\ None \notin BrokerIds
  BY OrderIdsAssumption DEF LocalIds, BrokerIds
<1>4. ASSUME NEW l \in LocalIds, NEW b \in BrokerIds
      PROVE  get_broker_id(remove_mappings(m, gone), l) = b
                 <=> get_local_id(remove_mappings(m, gone), b) = l
  <2>1. get_broker_id(m, l) = b <=> get_local_id(m, b) = l
    BY DEF MapsAgree
  <2>2. \A k \in LocalIds : get_broker_id(m, k) = b <=> get_local_id(m, b) = k
    BY DEF MapsAgree
  <2> QED
    BY <1>1, <1>2, <1>3, <2>1, <2>2
<1> QED
  BY <1>1, <1>4 DEF MapsAgree

\* Adding a mapping between two unmapped ids keeps the maps inverse.
LEMMA AddEffect ==
    ASSUME NEW m \in Mapper, NEW local \in LocalIds, NEW broker \in BrokerIds, MapsAgree(m),
           get_broker_id(m, local) = None,
           \A l \in LocalIds : get_broker_id(m, l) # broker
    PROVE  /\ MapsAgree(add_mapping(m, local, broker))
           /\ \A l \in LocalIds :
                  get_broker_id(add_mapping(m, local, broker), l) =
                      IF l = local THEN broker ELSE get_broker_id(m, l)
<1>1. /\ m.local_to_broker_ \in [LocalIds -> BrokerIds \cup {None}]
      /\ m.broker_to_local_ \in [BrokerIds -> LocalIds \cup {None}]
  BY DEF Mapper
<1>2. \A l \in LocalIds :
          get_broker_id(add_mapping(m, local, broker), l) =
              IF l = local THEN broker ELSE get_broker_id(m, l)
  BY <1>1 DEF add_mapping, get_broker_id
<1>3. \A b \in BrokerIds :
          get_local_id(add_mapping(m, local, broker), b) =
              IF b = broker THEN local ELSE get_local_id(m, b)
  BY <1>1 DEF add_mapping, get_local_id
<1>4. None \notin BrokerIds
  BY OrderIdsAssumption DEF BrokerIds
<1>5. ASSUME NEW l \in LocalIds, NEW b \in BrokerIds
      PROVE  get_broker_id(add_mapping(m, local, broker), l) = b
                 <=> get_local_id(add_mapping(m, local, broker), b) = l
  <2>1. get_broker_id(m, l) = b <=> get_local_id(m, b) = l
    BY DEF MapsAgree
  <2> QED
    BY <1>2, <1>3, <1>4, <2>1
<1> QED
  BY <1>2, <1>5 DEF MapsAgree

------------------------------------------------------------------------------
(* The two effects a step can have on what is tracked.                      *)

\* Orders are forgotten: what remains mapped keeps its broker id.
LEMMA Forgetting ==
    ASSUME TrackingInv, NEW gone \in SUBSET LocalIds,
           id_mapper_' = remove_mappings(id_mapper_, gone),
           id_generator_' \in Int, id_generator_' >= id_generator_,
           broker_count' \in Int, broker_count' >= broker_count,
           \A l \in LocalIds : order_store_'[l] # None =>
                                   order_store_[l] # None \/ l < id_generator_'
    PROVE  /\ IdsIssued'
           /\ MapperInverse'
           /\ Mapped' = Mapped \ gone
           /\ \A l \in Mapped' : get_broker_id(id_mapper_, l)' = get_broker_id(id_mapper_, l)
<1>1. MapsAgree(id_mapper_) /\ id_mapper_ \in Mapper
  BY DEF TrackingInv, MapperInverse, MapsAgree, TypeOK
<1>2. /\ MapsAgree(id_mapper_')
      /\ \A l \in LocalIds : get_broker_id(id_mapper_', l) =
                                 IF l \in gone THEN None ELSE get_broker_id(id_mapper_, l)
  BY <1>1, RemoveEffect
<1>3. MapperInverse'
  BY <1>2 DEF MapperInverse, MapsAgree
<1>4. Mapped' = Mapped \ gone
  BY <1>2 DEF Mapped, IsMapped
<1>5. \A l \in Mapped' : get_broker_id(id_mapper_, l)' = get_broker_id(id_mapper_, l)
  BY <1>2, <1>4 DEF Mapped
<1>6. IdsIssued'
  <2>1. id_generator_ \in Int /\ broker_count \in Int /\ LocalIds \subseteq Int
    BY OrderIdsAssumption DEF TrackingInv, TypeOK, LocalIds
  <2>2. ASSUME NEW l \in LocalIds, IsMapped(l)' \/ order_store_'[l] # None
        PROVE  l < id_generator_'
    BY <1>2, <2>1, <2>2 DEF TrackingInv, IdsIssued, IsMapped
  <2>3. ASSUME NEW l \in Mapped'
        PROVE  get_broker_id(id_mapper_, l)' < broker_count'
    <3>1. get_broker_id(id_mapper_, l) < broker_count /\ l \in Mapped
      BY <1>4, <2>3 DEF TrackingInv, IdsIssued
    <3>2. get_broker_id(id_mapper_, l) \in Int
      BY <1>1, <3>1, OrderIdsAssumption DEF Mapped, IsMapped, get_broker_id, Mapper, BrokerIds
    <3> QED
      BY <1>5, <2>1, <2>3, <3>1, <3>2
  <2> QED
    BY <2>2, <2>3 DEF IdsIssued
<1> QED
  BY <1>3, <1>4, <1>5, <1>6

\* A new order is tracked, under two fresh ids, after some were forgotten.
LEMMA Tracking ==
    ASSUME TrackingInv, NEW gone \in SUBSET LocalIds,
           id_generator_ \in LocalIds, broker_count \in BrokerIds,
           id_mapper_' = add_mapping(remove_mappings(id_mapper_, gone), id_generator_,
                                     broker_count),
           id_generator_' = id_generator_ + 1,
           broker_count' = broker_count + 1,
           \A l \in LocalIds : order_store_'[l] # None =>
                                   order_store_[l] # None \/ l = id_generator_
    PROVE  /\ IdsIssued'
           /\ MapperInverse'
           /\ id_generator_ \notin Mapped
           /\ Mapped' = (Mapped \ gone) \cup {id_generator_}
           /\ \A l \in Mapped' : get_broker_id(id_mapper_, l)' =
                                     IF l = id_generator_ THEN broker_count
                                     ELSE get_broker_id(id_mapper_, l)
<1> DEFINE left == remove_mappings(id_mapper_, gone)
<1>1. MapsAgree(id_mapper_) /\ id_mapper_ \in Mapper
  BY DEF TrackingInv, MapperInverse, MapsAgree, TypeOK
<1>2. /\ MapsAgree(left)
      /\ \A l \in LocalIds : get_broker_id(left, l) =
                                 IF l \in gone THEN None ELSE get_broker_id(id_mapper_, l)
  BY <1>1, RemoveEffect
<1>3. left \in Mapper
  BY <1>1, RemoveType
<1>4. /\ id_generator_ \in Int /\ broker_count \in Int
      /\ LocalIds \subseteq Int /\ BrokerIds \subseteq Int
      /\ None \notin BrokerIds
  BY OrderIdsAssumption DEF TrackingInv, TypeOK, LocalIds, BrokerIds
<1>5. id_generator_ \notin Mapped
  BY <1>4 DEF TrackingInv, IdsIssued, Mapped
<1>6. get_broker_id(left, id_generator_) = None
  BY <1>2, <1>5 DEF Mapped, IsMapped
<1>7. \A l \in LocalIds : get_broker_id(left, l) # broker_count
  <2>1. \A l \in Mapped : get_broker_id(id_mapper_, l) # broker_count
    BY <1>4 DEF TrackingInv, IdsIssued
  <2> QED
    BY <1>2, <1>4, <2>1 DEF Mapped, IsMapped
<1>8. /\ MapsAgree(id_mapper_')
      /\ \A l \in LocalIds : get_broker_id(id_mapper_', l) =
                                 IF l = id_generator_ THEN broker_count
                                 ELSE get_broker_id(left, l)
  BY <1>2, <1>3, <1>6, <1>7, AddEffect
<1>9. MapperInverse'
  BY <1>8 DEF MapperInverse, MapsAgree
<1>10. Mapped' = (Mapped \ gone) \cup {id_generator_}
  BY <1>2, <1>4, <1>8 DEF Mapped, IsMapped
<1>11. \A l \in Mapped' : get_broker_id(id_mapper_, l)' =
                              IF l = id_generator_ THEN broker_count
                              ELSE get_broker_id(id_mapper_, l)
  BY <1>2, <1>8, <1>10 DEF Mapped
<1>12. IdsIssued'
  <2>1. ASSUME NEW l \in LocalIds, IsMapped(l)' \/ order_store_'[l] # None
        PROVE  l < id_generator_'
    <3>1. l = id_generator_ \/ IsMapped(l) \/ order_store_[l] # None
      BY <1>2, <1>8, <2>1 DEF IsMapped
    <3> QED
      BY <1>4, <3>1 DEF TrackingInv, IdsIssued
  <2>2. ASSUME NEW l \in Mapped'
        PROVE  get_broker_id(id_mapper_, l)' < broker_count'
    <3>1. CASE l = id_generator_
      BY <1>4, <1>11, <3>1
    <3>2. CASE l # id_generator_
      <4>1. l \in Mapped /\ get_broker_id(id_mapper_, l) < broker_count
        BY <1>10, <2>2, <3>2 DEF TrackingInv, IdsIssued
      <4>2. get_broker_id(id_mapper_, l) \in Int
        BY <1>1, <1>4, <4>1 DEF Mapped, IsMapped, get_broker_id, Mapper
      <4> QED
        BY <1>4, <1>11, <2>2, <3>2, <4>1, <4>2
    <3> QED
      BY <3>1, <3>2
  <2> QED
    BY <2>1, <2>2 DEF IdsIssued
<1> QED
  BY <1>5, <1>9, <1>10, <1>11, <1>12

\* Nothing is forgotten and nothing is tracked.
LEMMA TrackingNothing ==
    ASSUME TrackingInv, UNCHANGED id_mapper_,
           id_generator_' \in Int, id_generator_' >= id_generator_,
           broker_count' \in Int, broker_count' >= broker_count,
           \A l \in LocalIds : order_store_'[l] # None =>
                                   order_store_[l] # None \/ l < id_generator_'
    PROVE  /\ IdsIssued'
           /\ MapperInverse'
           /\ Mapped' = Mapped
           /\ \A l \in Mapped : get_broker_id(id_mapper_, l)' = get_broker_id(id_mapper_, l)
<1>1. id_mapper_ \in Mapper
  BY DEF TrackingInv, TypeOK
<1>2. remove_mappings(id_mapper_, {}) = id_mapper_
  BY <1>1 DEF remove_mappings, Mapper
<1>3. /\ IdsIssued'
      /\ MapperInverse'
      /\ Mapped' = Mapped \ {}
  BY <1>2, Forgetting
<1> QED
  BY <1>3

\* There are finitely many orders to track.
LEMMA MappedFinite == IsFiniteSet(Mapped) /\ Cardinality(Mapped) \in Nat
<1>1. IsFiniteSet(LocalIds)
  BY OrderIdsAssumption, FS_Interval DEF LocalIds
<1>2. IsFiniteSet(Mapped)
  BY <1>1, FS_Subset DEF Mapped
<1> QED
  BY <1>2, FS_CardinalityType

\* Forgetting orders without releasing the counter keeps it above their number.
LEMMA CountKept ==
    ASSUME TrackingInv, Mapped' \subseteq Mapped, UNCHANGED open_order_count_
    PROVE  CountCoversMapped'
<1>1. IsFiniteSet(Mapped) /\ Cardinality(Mapped) \in Nat
  BY MappedFinite
<1>2. Cardinality(Mapped') \in Nat /\ Cardinality(Mapped') <= Cardinality(Mapped)
  BY <1>1, FS_Subset, FS_CardinalityType
<1> QED
  BY <1>1, <1>2 DEF TrackingInv, CountCoversMapped, TypeOK

\* Releasing the counter for one tracked order that is forgotten is sound.
LEMMA CountReleased ==
    ASSUME TrackingInv, NEW l \in Mapped, Mapped' = Mapped \ {l},
           open_order_count_' = open_order_count_ - 1
    PROVE  CountCoversMapped'
<1>1. IsFiniteSet(Mapped) /\ Cardinality(Mapped) \in Nat
  BY MappedFinite
<1>2. Cardinality(Mapped \ {l}) = Cardinality(Mapped) - 1
  BY <1>1, FS_RemoveElement
<1> QED
  BY <1>1, <1>2 DEF TrackingInv, CountCoversMapped, TypeOK

\* Rows of orders that stay mapped, under the same broker id, and that are not
\* written stay open.
LEMMA RowsKept ==
    ASSUME MappedOrdersAreOpen, Mapped' \subseteq Mapped,
           \A l \in Mapped' : /\ order_store_'[l] = order_store_[l]
                              /\ get_broker_id(id_mapper_, l)' = get_broker_id(id_mapper_, l)
    PROVE  MappedOrdersAreOpen'
BY DEF MappedOrdersAreOpen

\* A step that touches neither the mapper, nor the rows, nor the counter.
LEMMA Untouched ==
    ASSUME TrackingInv,
           UNCHANGED <<id_mapper_, order_store_, open_order_count_, broker_count>>,
           id_generator_' \in Int, id_generator_' >= id_generator_
    PROVE  IdsIssued' /\ MapperInverse' /\ MappedOrdersAreOpen' /\ CountCoversMapped'
<1>1. broker_count \in Int
  BY OrderIdsAssumption DEF TrackingInv, TypeOK
<1>2. /\ IdsIssued'
      /\ MapperInverse'
      /\ Mapped' = Mapped
      /\ \A l \in Mapped : get_broker_id(id_mapper_, l)' = get_broker_id(id_mapper_, l)
  BY <1>1, TrackingNothing
<1>3. MappedOrdersAreOpen'
  BY <1>2, RowsKept DEF TrackingInv
<1>4. CountCoversMapped'
  BY <1>2, CountKept
<1> QED
  BY <1>2, <1>3, <1>4

------------------------------------------------------------------------------
(* One lemma per handler.                                                   *)

\* Writing the row of the fresh id touches no tracked order.
LEMMA SubmitRows ==
    ASSUME TrackingInv, Dispatch("submit"), id_generator_ < MaxOrders
    PROVE  /\ id_generator_ \in LocalIds
           /\ id_generator_ \in Int
           /\ id_generator_ \notin Mapped
           /\ WithPendingRow[id_generator_] = PendingRow
           /\ PendingRow # None
           /\ \A l \in LocalIds \ {id_generator_} : WithPendingRow[l] = order_store_[l]
<1>1. /\ id_generator_ \in LocalIds
      /\ PendingRow \in StoredOrder
      /\ order_store_ \in Table
  BY SubmitContext DEF TrackingInv, TypeOK
<1>2. id_generator_ \in Int
  BY OrderIdsAssumption DEF TrackingInv, TypeOK
<1>3. id_generator_ \notin Mapped
  BY <1>2 DEF TrackingInv, IdsIssued, Mapped
<1>4. /\ WithPendingRow[id_generator_] = PendingRow
      /\ \A l \in LocalIds \ {id_generator_} : WithPendingRow[l] = order_store_[l]
  BY <1>1 DEF WithPendingRow, store_order, Table
<1>5. PendingRow # None
  BY <1>1, NoneIsNotARow
<1> QED
  BY <1>1, <1>2, <1>3, <1>4, <1>5

\* handle_submit_command: a refused order is never mapped, an accepted one is
\* mapped with an open row and counted.
LEMMA SubmitTracking ==
    ASSUME TrackingInv, NEW fail, handle_submit_command(fail)
    PROVE  IdsIssued' /\ MapperInverse' /\ MappedOrdersAreOpen' /\ CountCoversMapped'
<1>1. ASSUME Dispatch("submit"), id_generator_ < MaxOrders, id_generator_' = id_generator_ + 1,
             broker_count' \in {broker_count, broker_count + 1},
             UNCHANGED <<id_mapper_, open_order_count_>>,
             \A l \in LocalIds \ {id_generator_} : order_store_'[l] = order_store_[l]
      PROVE  IdsIssued' /\ MapperInverse' /\ MappedOrdersAreOpen' /\ CountCoversMapped'
  <2>1. /\ id_generator_ \in LocalIds
        /\ id_generator_ \in Int
        /\ broker_count \in Int
        /\ id_generator_ \notin Mapped
    BY <1>1, SubmitRows, OrderIdsAssumption DEF TrackingInv, TypeOK
  <2>2. \A l \in LocalIds : order_store_'[l] # None =>
                                order_store_[l] # None \/ l < id_generator_'
    BY <1>1, <2>1
  <2>3. /\ id_generator_' \in Int /\ id_generator_' >= id_generator_
        /\ broker_count' \in Int /\ broker_count' >= broker_count
    BY <1>1, <2>1
  <2>4. /\ IdsIssued'
        /\ MapperInverse'
        /\ Mapped' = Mapped
        /\ \A l \in Mapped : get_broker_id(id_mapper_, l)' = get_broker_id(id_mapper_, l)
    BY <1>1, <2>2, <2>3, TrackingNothing
  <2>5. MappedOrdersAreOpen'
    <3>1. \A l \in Mapped' : order_store_'[l] = order_store_[l]
      BY <1>1, <2>1, <2>4 DEF Mapped
    <3> QED
      BY <2>4, <3>1, RowsKept DEF TrackingInv
  <2>6. CountCoversMapped'
    BY <1>1, <2>4, CountKept
  <2> QED
    BY <2>4, <2>5, <2>6
<1>2. CASE SubmitNotStored(fail)
  BY <1>1, <1>2 DEF SubmitNotStored, Submitting, generate
<1>3. CASE Dispatch("submit") /\ RecordRejection(fail)
  <2>1. id_generator_ < MaxOrders /\ id_generator_' = id_generator_ + 1
    BY <1>3 DEF RecordRejection, Submitting, generate
  <2>2. \A l \in LocalIds \ {id_generator_} : order_store_'[l] = order_store_[l]
    BY <1>3, <2>1, SubmitRows DEF RecordRejection, update_order_status, update_order_statuses
  <2> QED
    BY <1>1, <1>3, <2>1, <2>2 DEF RecordRejection
<1>4. ASSUME NEW b \in BrokerIds, SubmitNotRecorded(fail, b)
      PROVE  IdsIssued' /\ MapperInverse' /\ MappedOrdersAreOpen' /\ CountCoversMapped'
  <2>1. Dispatch("submit") /\ id_generator_ < MaxOrders /\ id_generator_' = id_generator_ + 1
    BY <1>4 DEF SubmitNotRecorded, Submitting, generate
  <2>2. \A l \in LocalIds \ {id_generator_} : order_store_'[l] = order_store_[l]
    BY <1>4, <2>1, SubmitRows DEF SubmitNotRecorded
  <2> QED
    BY <1>1, <1>4, <2>1, <2>2 DEF SubmitNotRecorded
<1>5. ASSUME NEW b \in BrokerIds, SubmitAccepted(fail, b)
      PROVE  IdsIssued' /\ MapperInverse' /\ MappedOrdersAreOpen' /\ CountCoversMapped'
  <2> DEFINE submitted == update_order_status(WithPendingRow, id_generator_, "SUBMITTED")
  <2>1. /\ Dispatch("submit")
        /\ id_generator_ < MaxOrders
        /\ id_generator_' = id_generator_ + 1
        /\ broker_count \in BrokerIds
        /\ broker_count' = broker_count + 1
        /\ open_order_count_' = open_order_count_ + 1
        /\ id_mapper_' = add_mapping(id_mapper_, id_generator_, broker_count)
        /\ \/ order_store_' = submitted
           \/ order_store_' = update_broker_id(submitted, id_generator_, broker_count)
    BY <1>5 DEF SubmitAccepted, Submitting, generate
  <2>2. /\ \A l \in LocalIds \ {id_generator_} : order_store_'[l] = order_store_[l]
        /\ order_store_'[id_generator_] # None
        /\ order_store_'[id_generator_].status = "SUBMITTED"
        /\ order_store_'[id_generator_].broker_id \in {None, broker_count}
    <3>1. /\ \A l \in LocalIds \ {id_generator_} : submitted[l] = order_store_[l]
          /\ submitted[id_generator_] = [PendingRow EXCEPT !.status = "SUBMITTED"]
      BY <2>1, SubmitRows DEF update_order_status, update_order_statuses
    <3>2. submitted \in Table /\ submitted[id_generator_] \in StoredOrder
      <4>1. PendingRow \in StoredOrder /\ WithPendingRow \in Table /\ id_generator_ \in LocalIds
        BY <2>1, SubmitContext DEF TrackingInv
      <4>2. submitted \in Table
        BY <4>1, StoreStatementsType DEF OrderStatus
      <4>3. submitted[id_generator_] \in StoredOrder
        BY <3>1, <4>1 DEF StoredOrder, OrderStatus
      <4> QED
        BY <4>2, <4>3
    <3>3. /\ submitted[id_generator_] # None
          /\ submitted[id_generator_].status = "SUBMITTED"
          /\ submitted[id_generator_].broker_id = None
      <4>1. PendingRow \in StoredOrder
        BY <2>1, SubmitContext DEF TrackingInv
      <4> QED
        BY <3>1, <3>2, <4>1, NoneIsNotARow DEF PendingRow, NewRow, StoredOrder
    <3>4. CASE order_store_' = submitted
      BY <3>1, <3>3, <3>4
    <3>5. CASE order_store_' = update_broker_id(submitted, id_generator_, broker_count)
      <4>1. /\ \A l \in LocalIds \ {id_generator_} : order_store_'[l] = order_store_[l]
            /\ order_store_'[id_generator_] =
                   [submitted[id_generator_] EXCEPT !.broker_id = broker_count]
        BY <2>1, <3>1, <3>3, <3>5, SubmitRows DEF update_broker_id
      <4>2. order_store_'[id_generator_] \in StoredOrder
        BY <2>1, <3>2, <4>1 DEF StoredOrder
      <4> QED
        BY <3>2, <3>3, <4>1, <4>2, NoneIsNotARow DEF StoredOrder
    <3> QED
      BY <2>1, <3>4, <3>5
  <2>3. /\ IdsIssued'
        /\ MapperInverse'
        /\ id_generator_ \notin Mapped
        /\ Mapped' = (Mapped \ {}) \cup {id_generator_}
        /\ \A l \in Mapped' : get_broker_id(id_mapper_, l)' =
                                  IF l = id_generator_ THEN broker_count
                                  ELSE get_broker_id(id_mapper_, l)
    <3>1. remove_mappings(id_mapper_, {}) = id_mapper_
      BY DEF remove_mappings, Mapper, TrackingInv, TypeOK
    <3> QED
      BY <2>1, <2>2, <3>1, SubmitRows, Tracking
  <2>4. MappedOrdersAreOpen'
    BY <2>2, <2>3 DEF MappedOrdersAreOpen, TrackingInv, Mapped
  <2>5. CountCoversMapped'
    <3>1. Cardinality(Mapped \cup {id_generator_}) = Cardinality(Mapped) + 1
      BY <2>3, MappedFinite, FS_AddElement
    <3> QED
      BY <2>1, <2>3, <3>1, MappedFinite DEF CountCoversMapped, TrackingInv, TypeOK
  <2> QED
    BY <2>3, <2>4, <2>5
<1> QED
  BY <1>2, <1>3, <1>4, <1>5 DEF handle_submit_command, SubmitRefusedByRisk,
                                SubmitRejectedByGateway

\* One tracked order is forgotten, whether or not its row is written and the
\* counter released.
LEMMA ForgetOne ==
    ASSUME TrackingInv, NEW l \in LocalIds, IsMapped(l),
           id_mapper_' = remove_mapping(id_mapper_, l),
           id_generator_' \in Int, id_generator_' >= id_generator_,
           broker_count' \in Int, broker_count' >= broker_count,
           open_order_count_' \in {open_order_count_, open_order_count_ - 1},
           \A k \in LocalIds \ {l} : order_store_'[k] = order_store_[k]
    PROVE  IdsIssued' /\ MapperInverse' /\ MappedOrdersAreOpen' /\ CountCoversMapped'
<1>1. l \in Mapped /\ order_store_[l] # None
  BY DEF TrackingInv, MappedOrdersAreOpen, Mapped
<1>2. id_mapper_' = remove_mappings(id_mapper_, {l}) /\ {l} \in SUBSET LocalIds
  BY DEF remove_mapping
<1>3. \A k \in LocalIds : order_store_'[k] # None =>
                              order_store_[k] # None \/ k < id_generator_'
  BY <1>1
<1>4. /\ IdsIssued'
      /\ MapperInverse'
      /\ Mapped' = Mapped \ {l}
      /\ \A k \in Mapped' : get_broker_id(id_mapper_, k)' = get_broker_id(id_mapper_, k)
  BY <1>2, <1>3, Forgetting
<1>5. MappedOrdersAreOpen'
  <2>1. \A k \in Mapped' : order_store_'[k] = order_store_[k]
    BY <1>4 DEF Mapped
  <2> QED
    BY <1>4, <2>1, RowsKept DEF TrackingInv
<1>6. CASE UNCHANGED open_order_count_
  <2>1. CountCoversMapped'
    BY <1>4, <1>6, CountKept
  <2> QED
    BY <1>4, <1>5, <2>1
<1>7. CASE open_order_count_' = open_order_count_ - 1
  <2>1. CountCoversMapped'
    BY <1>1, <1>4, <1>7, CountReleased
  <2> QED
    BY <1>4, <1>5, <2>1
<1> QED
  BY <1>6, <1>7

\* handle_cancel_command: a refused cancellation changes nothing tracked, any
\* other forgets the order.
LEMMA CancelTracking ==
    ASSUME TrackingInv, NEW fail, handle_cancel_command(fail)
    PROVE  IdsIssued' /\ MapperInverse' /\ MappedOrdersAreOpen' /\ CountCoversMapped'
<1>1. /\ id_generator_ \in Int /\ id_generator_ >= id_generator_
      /\ broker_count \in Int /\ broker_count >= broker_count
  BY OrderIdsAssumption DEF TrackingInv, TypeOK
<1>2. CASE Refuse("cancel")
  BY <1>1, <1>2, Untouched DEF Refuse
<1>3. ASSUME NEW entries, Dispatch("cancel"), Cancelling(entries),
             open_order_count_' \in {open_order_count_, open_order_count_ - 1},
             \A k \in LocalIds \ {event.order_id} : order_store_'[k] = order_store_[k]
      PROVE  IdsIssued' /\ MapperInverse' /\ MappedOrdersAreOpen' /\ CountCoversMapped'
  <2>1. event.order_id \in LocalIds
    BY <1>3, EventType DEF CancelCommand, TrackingInv
  <2>2. /\ IsMapped(event.order_id)
        /\ id_mapper_' = remove_mapping(id_mapper_, event.order_id)
        /\ UNCHANGED <<id_generator_, broker_count>>
    BY <1>3 DEF Cancelling
  <2> QED
    BY <1>1, <1>3, <2>1, <2>2, ForgetOne
<1>4. CASE CancelNotRecorded(fail)
  BY <1>3, <1>4 DEF CancelNotRecorded
<1>5. CASE CancelDone(fail)
  <2>1. \A k \in LocalIds \ {event.order_id} : order_store_'[k] = order_store_[k]
    BY <1>5 DEF CancelDone, update_order_status, update_order_statuses
  <2> QED
    BY <1>3, <1>5, <2>1 DEF CancelDone
<1> QED
  BY <1>2, <1>4, <1>5 DEF handle_cancel_command, CancelUnknown, CancelRefusedByGateway

\* handle_replace_command: the old order is forgotten, and the replacement, if
\* it could be stored, is tracked in its place under the same count.
LEMMA ReplaceTracking ==
    ASSUME TrackingInv, NEW fail, handle_replace_command(fail)
    PROVE  IdsIssued' /\ MapperInverse' /\ MappedOrdersAreOpen' /\ CountCoversMapped'
<1>1. id_generator_ \in Int /\ broker_count \in Int
  BY OrderIdsAssumption DEF TrackingInv, TypeOK
<1>2. CASE ReplaceUnknown
  <2>1. id_generator_ >= id_generator_
    BY <1>1
  <2> QED
    BY <1>1, <1>2, <2>1, Untouched DEF ReplaceUnknown, Refuse
<1>3. CASE ReplaceRejectedByGateway
  <2>1. id_generator_ + 1 \in Int /\ id_generator_ + 1 >= id_generator_
    BY <1>1
  <2> QED
    BY <1>3, <2>1, Untouched DEF ReplaceRejectedByGateway, Replacing, generate
<1>4. ASSUME NEW b \in BrokerIds, ReplaceNotRecorded(fail, b)
      PROVE  IdsIssued' /\ MapperInverse' /\ MappedOrdersAreOpen' /\ CountCoversMapped'
  <2>1. /\ Dispatch("replace")
        /\ IsMapped(event.order_id)
        /\ id_generator_' = id_generator_ + 1
        /\ broker_count' = broker_count + 1
        /\ UNCHANGED open_order_count_
        /\ id_mapper_' = remove_mapping(id_mapper_, event.order_id)
    BY <1>4 DEF ReplaceNotRecorded, Replacing, generate
  <2>2. event.order_id \in LocalIds
    BY <2>1, EventType DEF ReplaceCommand, TrackingInv
  <2>3. order_store_' = order_store_ \/ order_store_' = ReplacedTable
    BY <1>4 DEF ReplaceNotRecorded
  <2>4. \A k \in LocalIds \ {event.order_id} : order_store_'[k] = order_store_[k]
    BY <2>3 DEF ReplacedTable, update_order_status, update_order_statuses
  <2>5. /\ id_generator_' \in Int /\ id_generator_' >= id_generator_
        /\ broker_count' \in Int /\ broker_count' >= broker_count
    BY <1>1, <2>1
  <2> QED
    BY <2>1, <2>2, <2>4, <2>5, ForgetOne
<1>5. ASSUME NEW b \in BrokerIds, ReplaceDone(fail, b)
      PROVE  IdsIssued' /\ MapperInverse' /\ MappedOrdersAreOpen' /\ CountCoversMapped'
  <2>1. /\ Dispatch("replace")
        /\ IsMapped(event.order_id)
        /\ id_generator_ < MaxOrders
        /\ id_generator_' = id_generator_ + 1
        /\ b = broker_count
        /\ broker_count' = broker_count + 1
        /\ UNCHANGED open_order_count_
        /\ id_mapper_' = add_mapping(remove_mappings(id_mapper_, {event.order_id}),
                                     id_generator_, broker_count)
        /\ order_store_' = store_order(ReplacedTable, id_generator_, ReplacementRow(b))
    BY <1>5 DEF ReplaceDone, Replacing, generate, remove_mapping
  <2>2. event.order_id \in LocalIds /\ event.signal \in Signals
    BY <2>1, EventType DEF ReplaceCommand, TrackingInv
  <2>3. id_generator_ \in LocalIds
    BY <1>1, <2>1, OrderIdsAssumption DEF LocalIds, TrackingInv, TypeOK
  <2>4. event.order_id \in Mapped /\ order_store_[event.order_id] # None
    BY <2>1, <2>2 DEF Mapped, TrackingInv, MappedOrdersAreOpen
  <2>5. ReplacementRow(b) \in StoredOrder /\ ReplacementRow(b) # None
    BY <2>2, NewRowType, NoneIsNotARow DEF ReplacementRow, OrderStatus
  <2>6. /\ \A l \in LocalIds \ {id_generator_, event.order_id} :
               order_store_'[l] = order_store_[l]
        /\ order_store_'[id_generator_] = ReplacementRow(b)
    BY <2>1, <2>3 DEF store_order, ReplacedTable, update_order_status, update_order_statuses
  <2>7. \A l \in LocalIds : order_store_'[l] # None =>
                                order_store_[l] # None \/ l = id_generator_
    BY <2>4, <2>6
  <2>8. /\ IdsIssued'
        /\ MapperInverse'
        /\ id_generator_ \notin Mapped
        /\ Mapped' = (Mapped \ {event.order_id}) \cup {id_generator_}
        /\ \A l \in Mapped' : get_broker_id(id_mapper_, l)' =
                                  IF l = id_generator_ THEN broker_count
                                  ELSE get_broker_id(id_mapper_, l)
    BY <2>1, <2>2, <2>3, <2>7, Tracking
  <2>9. MappedOrdersAreOpen'
    <3>1. ReplacementRow(b).status = "SUBMITTED" /\ ReplacementRow(b).broker_id = broker_count
      BY <2>1 DEF ReplacementRow, NewRow
    <3> QED
      BY <2>5, <2>6, <2>8, <3>1 DEF MappedOrdersAreOpen, TrackingInv, Mapped
  <2>10. CountCoversMapped'
    <3>1. /\ IsFiniteSet(Mapped \ {event.order_id})
          /\ Cardinality(Mapped \ {event.order_id}) = Cardinality(Mapped) - 1
      BY <2>4, MappedFinite, FS_RemoveElement
    <3>2. Cardinality((Mapped \ {event.order_id}) \cup {id_generator_})
              = Cardinality(Mapped \ {event.order_id}) + 1
      BY <2>8, <3>1, FS_AddElement
    <3> QED
      BY <2>1, <2>8, <3>1, <3>2, MappedFinite DEF CountCoversMapped, TrackingInv, TypeOK
  <2> QED
    BY <2>8, <2>9, <2>10
<1> QED
  BY <1>2, <1>3, <1>4, <1>5 DEF handle_replace_command

\* handle_cancel_all_command: the orders it closes are forgotten; the rows of
\* those it could not cancel, or not record, stay as they are.
LEMMA CancelAllTracking ==
    ASSUME TrackingInv, NEW fail, NEW refused, NEW unrecorded,
           handle_cancel_all_command(fail, refused, unrecorded)
    PROVE  IdsIssued' /\ MapperInverse' /\ MappedOrdersAreOpen' /\ CountCoversMapped'
<1> DEFINE cancelled == Reachable(fail) \ (refused \cup unrecorded)
<1>1. /\ id_generator_ \in Int /\ id_generator_ >= id_generator_
      /\ broker_count \in Int /\ broker_count >= broker_count
  BY OrderIdsAssumption DEF TrackingInv, TypeOK
<1>2. /\ order_store_' = update_order_statuses(order_store_, cancelled, "CANCELLED")
      /\ id_mapper_' = remove_mappings(id_mapper_, cancelled)
      /\ UNCHANGED <<id_generator_, broker_count, open_order_count_>>
  BY DEF handle_cancel_all_command
<1>3. cancelled \in SUBSET LocalIds
  BY DEF Reachable, get_open_orders, Stored
<1> HIDE DEF cancelled
<1>4. /\ \A l \in LocalIds : order_store_'[l] # None => order_store_[l] # None
      /\ \A l \in LocalIds \ cancelled : order_store_'[l] = order_store_[l]
  BY <1>2 DEF update_order_statuses
<1>5. /\ IdsIssued'
      /\ MapperInverse'
      /\ Mapped' = Mapped \ cancelled
      /\ \A l \in Mapped' : get_broker_id(id_mapper_, l)' = get_broker_id(id_mapper_, l)
  BY <1>1, <1>2, <1>3, <1>4, Forgetting
<1>6. MappedOrdersAreOpen'
  <2>1. \A l \in Mapped' : order_store_'[l] = order_store_[l]
    BY <1>4, <1>5 DEF Mapped
  <2> QED
    BY <1>5, <2>1, RowsKept DEF TrackingInv
<1>7. CountCoversMapped'
  BY <1>2, <1>5, CountKept
<1> QED
  BY <1>5, <1>6, <1>7

\* handle_fill: a partial fill keeps the order tracked and its row open; a
\* terminal report or a full fill forgets it, found through the reverse map.
LEMMA FillTracking ==
    ASSUME TrackingInv, NEW fail, handle_fill(fail)
    PROVE  IdsIssued' /\ MapperInverse' /\ MappedOrdersAreOpen' /\ CountCoversMapped'
<1>1. /\ id_generator_ \in Int /\ id_generator_ >= id_generator_
      /\ broker_count \in Int /\ broker_count >= broker_count
  BY OrderIdsAssumption DEF TrackingInv, TypeOK
<1>2. ASSUME Dispatch("report"), filled_local_id # None
      PROVE  filled_local_id \in LocalIds /\ IsMapped(filled_local_id)
  <2>1. filled_local_id \in LocalIds /\ fill.broker_id \in BrokerIds
    BY <1>2, FillContext DEF TrackingInv
  <2>2. get_broker_id(id_mapper_, filled_local_id) = fill.broker_id
    BY <2>1 DEF TrackingInv, MapperInverse, filled_local_id
  <2>3. None \notin BrokerIds
    BY OrderIdsAssumption DEF BrokerIds
  <2> QED
    BY <2>1, <2>2, <2>3 DEF IsMapped
<1>3. CASE FillUnknown
  BY <1>1, <1>3, Untouched DEF FillUnknown
<1>4. CASE FillNotApplied(fail)
  BY <1>1, <1>4, Untouched DEF FillNotApplied
<1>5. CASE FillTerminal(fail)
  <2>1. /\ filled_local_id \in LocalIds
        /\ IsMapped(filled_local_id)
        /\ id_mapper_' = remove_mapping(id_mapper_, filled_local_id)
        /\ UNCHANGED <<id_generator_, broker_count, open_order_count_>>
    BY <1>2, <1>5 DEF FillTerminal
  <2>2. \A k \in LocalIds \ {filled_local_id} : order_store_'[k] = order_store_[k]
    BY <1>5 DEF FillTerminal, Persisted, update_order_status, update_order_statuses
  <2> QED
    BY <1>1, <2>1, <2>2, ForgetOne
<1>6. CASE FillApplied(fail)
  <2> DEFINE fully == fully_filled(order_store_[filled_local_id], fill.filled_quantity)
             new_status == IF fully THEN "FILLED" ELSE "PARTIALLY_FILLED"
  <2>1. /\ Dispatch("report")
        /\ filled_local_id \in LocalIds
        /\ IsMapped(filled_local_id)
        /\ order_store_[filled_local_id] # None
        /\ order_store_' = Persisted("apply_fill", fail,
                               apply_fill(order_store_, filled_local_id, fill.filled_quantity,
                                          fill.avg_fill_price, new_status))
        /\ id_mapper_' = IF fully THEN remove_mapping(id_mapper_, filled_local_id)
                                  ELSE id_mapper_
        /\ open_order_count_' = IF fully THEN open_order_count_ - 1 ELSE open_order_count_
        /\ UNCHANGED <<id_generator_, broker_count>>
    BY <1>2, <1>6 DEF FillApplied, GetOrderFails
  <2>2. \A k \in LocalIds \ {filled_local_id} : order_store_'[k] = order_store_[k]
    BY <2>1 DEF Persisted, apply_fill
  <2>3. CASE fully
    BY <1>1, <2>1, <2>2, <2>3, ForgetOne
  <2>4. CASE ~fully
    <3>1. UNCHANGED <<id_mapper_, open_order_count_>>
      BY <2>1, <2>4
    <3>2. /\ IdsIssued'
          /\ MapperInverse'
          /\ Mapped' = Mapped
          /\ \A l \in Mapped : get_broker_id(id_mapper_, l)' = get_broker_id(id_mapper_, l)
      <4>1. \A l \in LocalIds : order_store_'[l] # None =>
                                    order_store_[l] # None \/ l < id_generator_'
        BY <2>1, <2>2
      <4> QED
        BY <1>1, <2>1, <3>1, <4>1, TrackingNothing
    <3>3. /\ order_store_'[filled_local_id] # None
          /\ order_store_'[filled_local_id].status \in
                 {"PARTIALLY_FILLED", order_store_[filled_local_id].status}
          /\ order_store_'[filled_local_id].broker_id = order_store_[filled_local_id].broker_id
      <4>1. CASE order_store_' = order_store_
        BY <2>1, <4>1
      <4>2. CASE order_store_' = apply_fill(order_store_, filled_local_id,
                                            fill.filled_quantity, fill.avg_fill_price,
                                            "PARTIALLY_FILLED")
        <5> DEFINE row == order_store_[filled_local_id]
                   new == FilledRow(row, fill.filled_quantity, fill.avg_fill_price,
                                    "PARTIALLY_FILLED")
        <5>1. order_store_'[filled_local_id] = new
          BY <2>1, <4>2 DEF apply_fill
        <5>2. row \in StoredOrder
          BY <2>1 DEF TrackingInv, TypeOK, Table
        <5>3. new \in StoredOrder
          BY <2>1, <5>2, FillContext, FilledRowType DEF OrderStatus, TrackingInv
        <5>4. new.status = "PARTIALLY_FILLED" /\ new.broker_id = row.broker_id
          BY <5>2 DEF FilledRow, StoredOrder
        <5> QED
          BY <5>1, <5>3, <5>4, NoneIsNotARow
      <4> QED
        BY <2>1, <2>4, <4>1, <4>2 DEF Persisted
    <3>4. MappedOrdersAreOpen'
      BY <2>1, <2>2, <3>2, <3>3 DEF MappedOrdersAreOpen, TrackingInv, Mapped
    <3>5. CountCoversMapped'
      BY <3>1, <3>2, CountKept
    <3> QED
      BY <3>2, <3>4, <3>5
  <2> QED
    BY <2>3, <2>4
<1> QED
  BY <1>3, <1>4, <1>5, <1>6 DEF handle_fill

------------------------------------------------------------------------------
(* The invariant is inductive.                                              *)

\* Client threads, the gateway's callback and the destructor touch nothing the
\* dispatch thread tracks.
LEMMA OtherThreadsTrackNothing ==
    ASSUME TrackingInv,
           \/ ClientStep \/ AnyGatewayStep \/ Destroy \/ GatewayStopped \/ LeaveLoop
           \/ Destroyed \/ UNCHANGED omVars
    PROVE  /\ IdsIssued' /\ MapperInverse' /\ MappedOrdersAreOpen' /\ CountCoversMapped'
           /\ UNCHANGED open_order_count_
<1>1. UNCHANGED <<id_mapper_, order_store_, open_order_count_, broker_count, id_generator_>>
  <2>1. CASE ClientStep
    BY <2>1 DEF ClientStep, SubmitSignal, CancelSignal, ReplaceSignal, cancel_all,
                process_signal, set_fill_sink, clear_fill_sink, SwitchFillSink
  <2>2. CASE AnyGatewayStep
    BY <2>2 DEF AnyGatewayStep, GatewayReport
  <2>3. CASE Destroy \/ GatewayStopped \/ LeaveLoop
    BY <2>3 DEF Destroy, GatewayStopped, LeaveLoop, Enters
  <2>4. CASE Destroyed \/ UNCHANGED omVars
    BY <2>4 DEF Destroyed, omVars
  <2> QED
    BY <2>1, <2>2, <2>3, <2>4
<1>2. id_generator_ \in Int /\ id_generator_ >= id_generator_
  BY OrderIdsAssumption DEF TrackingInv, TypeOK
<1> QED
  BY <1>1, <1>2, Untouched

LEMMA NextTracking == TrackingInv /\ [Next]_omVars => TrackingInv'
<1> SUFFICES ASSUME TrackingInv, [Next]_omVars
             PROVE  TrackingInv'
  OBVIOUS
<1>1. TypeOK'
  BY NextType DEF TrackingInv
<1>2. IdsIssued' /\ MapperInverse' /\ MappedOrdersAreOpen' /\ CountCoversMapped'
  <2>1. CASE run_dispatch_loop
    BY <2>1, SubmitTracking, CancelTracking, ReplaceTracking, CancelAllTracking, FillTracking
    DEF run_dispatch_loop
  <2> QED
    BY <2>1, OtherThreadsTrackNothing DEF Next
<1> QED
  BY <1>1, <1>2 DEF TrackingInv

LEMMA InitTracking == Init => TrackingInv
<1> SUFFICES ASSUME Init PROVE TrackingInv
  OBVIOUS
<1>1. TypeOK
  BY InitType
<1>2. \A l \in LocalIds : get_broker_id(id_mapper_, l) = None /\ order_store_[l] = None
  BY DEF Init, EmptyMapper, EmptyTable, get_broker_id
<1>3. \A b \in BrokerIds : get_local_id(id_mapper_, b) = None
  BY DEF Init, EmptyMapper, get_local_id
<1>4. None \notin LocalIds /\ None \notin BrokerIds
  BY OrderIdsAssumption DEF LocalIds, BrokerIds
<1>5. Mapped = {}
  BY <1>2 DEF Mapped, IsMapped
<1>6. IdsIssued /\ MappedOrdersAreOpen
  BY <1>2, <1>5 DEF IdsIssued, MappedOrdersAreOpen, IsMapped
<1>7. MapperInverse
  BY <1>2, <1>3, <1>4 DEF MapperInverse
<1>8. CountCoversMapped
  BY <1>5, FS_EmptySet DEF CountCoversMapped, Init
<1> QED
  BY <1>1, <1>6, <1>7, <1>8 DEF TrackingInv

LEMMA TrackingInvariant == Spec => []TrackingInv
BY InitTracking, NextTracking, PTL DEF Spec

------------------------------------------------------------------------------
(* The counter under the open-orders limit.                                 *)

CountBounded == MaxOpenOrders > 0 => open_order_count_ <= MaxOpenOrders + 1

\* Only an accepted submission adds to the counter, and only when the risk check
\* has read it at or below the limit: read as a size_t it is the count itself,
\* which CountCoversMapped keeps from being negative.
LEMMA NextCount == TrackingInv /\ CountBounded /\ [Next]_omVars => CountBounded'
<1> SUFFICES ASSUME TrackingInv, CountBounded, [Next]_omVars
             PROVE  CountBounded'
  OBVIOUS
<1>1. open_order_count_ \in Int /\ open_order_count_ >= 0 /\ MaxOpenOrders \in Nat
  BY MappedFinite, RiskAssumption DEF TrackingInv, CountCoversMapped, TypeOK
<1>2. ASSUME open_order_count_' \in {open_order_count_, open_order_count_ - 1}
      PROVE  CountBounded'
  BY <1>1, <1>2 DEF CountBounded
<1>3. ASSUME NEW fail, NEW b \in BrokerIds, SubmitAccepted(fail, b)
      PROVE  CountBounded'
  BY <1>1, <1>3 DEF SubmitAccepted, RiskAllows, check, OpenOrdersAllowed, ToSizeT, CountBounded
<1>4. ASSUME NEW fail, handle_submit_command(fail)
      PROVE  CountBounded'
  <2>1. CASE SubmitNotStored(fail)
    BY <1>2, <2>1 DEF SubmitNotStored
  <2>2. CASE RecordRejection(fail)
    BY <1>2, <2>2 DEF RecordRejection
  <2>3. ASSUME NEW b \in BrokerIds, SubmitNotRecorded(fail, b)
        PROVE  CountBounded'
    BY <1>2, <2>3 DEF SubmitNotRecorded
  <2> QED
    BY <1>3, <1>4, <2>1, <2>2, <2>3 DEF handle_submit_command, SubmitRefusedByRisk,
                                      SubmitRejectedByGateway
<1>5. ASSUME NEW fail, handle_cancel_command(fail)
      PROVE  CountBounded'
  BY <1>2, <1>5 DEF handle_cancel_command, CancelUnknown, CancelRefusedByGateway, Refuse,
                    CancelNotRecorded, CancelDone
<1>6. ASSUME NEW fail, handle_replace_command(fail)
      PROVE  CountBounded'
  <2>1. UNCHANGED open_order_count_
    BY <1>6 DEF handle_replace_command, ReplaceUnknown, Refuse, ReplaceRejectedByGateway,
                ReplaceNotRecorded, ReplaceDone, Replacing
  <2> QED
    BY <1>2, <2>1
<1>7. ASSUME NEW fail, NEW refused, NEW unrecorded,
             handle_cancel_all_command(fail, refused, unrecorded)
      PROVE  CountBounded'
  BY <1>2, <1>7 DEF handle_cancel_all_command
<1>8. ASSUME NEW fail, handle_fill(fail)
      PROVE  CountBounded'
  BY <1>2, <1>8 DEF handle_fill, FillUnknown, FillTerminal, FillNotApplied, FillApplied
<1>9. CASE run_dispatch_loop
  BY <1>4, <1>5, <1>6, <1>7, <1>8, <1>9 DEF run_dispatch_loop
<1> QED
  BY <1>2, <1>9, OtherThreadsTrackNothing DEF Next

------------------------------------------------------------------------------
(* The theorems.                                                            *)

\* The maps of OrderIdMapper stay inverse of each other through every order of
\* submissions, replacements, cancellations, sweeps and reports.
THEOREM MapperStaysInverse == Spec => []MapperInverse
BY TrackingInvariant, PTL DEF TrackingInv

\* An order the engine tracks has an open row, under the broker id it is mapped
\* to, whichever store calls have failed before.
THEOREM TrackedOrdersAreOpen == Spec => []MappedOrdersAreOpen
BY TrackingInvariant, PTL DEF TrackingInv

\* open_order_count_ never falls below the number of tracked orders, so the
\* size_t the risk check receives never wraps.
THEOREM CountNeverLosesAnOrder == Spec => []CountCoversMapped
BY TrackingInvariant, PTL DEF TrackingInv

\* RiskManager::check bounds what the engine tracks by one more than the limit,
\* for every limit and whatever the gateway reports.
THEOREM TrackedOrdersBounded == Spec => []OpenOrdersBounded
<1>1. Init => CountBounded
  BY RiskAssumption DEF Init, CountBounded
<1>2. TrackingInv /\ CountBounded => OpenOrdersBounded
  BY MappedFinite, RiskAssumption
  DEF TrackingInv, TypeOK, CountCoversMapped, CountBounded, OpenOrdersBounded
<1> QED
  BY <1>1, <1>2, NextCount, TrackingInvariant, PTL DEF Spec

------------------------------------------------------------------------------
(***************************************************************************)
(* The order manager implements OrderLifecycle, against any gateway and    *)
(* with any failing store calls.                                           *)
(*                                                                         *)
(* A step of the dispatch thread opens one order, fills one, ends some or  *)
(* replaces one; every other step leaves the orders table alone.  That an  *)
(* order is opened under an unused id is IdsIssued, that a command or a    *)
(* report reaches only working orders is MappedOrdersAreOpen, and that the *)
(* kill switch, which reads the table and not the mapper, does is          *)
(* PendingHasNoBroker.                                                     *)
(***************************************************************************)

\* A row that was never recorded as SUBMITTED has no broker id, so the kill
\* switch, which sweeps PENDING_SUBMISSION rows too, never reaches it.
PendingHasNoBroker ==
    \A l \in Stored(order_store_) :
        order_store_[l].status = "PENDING_SUBMISSION" => order_store_[l].broker_id = None

LifeInv == TrackingInv /\ PendingHasNoBroker

\* What a step must do to the orders table: a step of OrderLifecycle or none,
\* and no broker id for a row that is still pending.
Lives == [Lifecycle!LifeNext]_(Lifecycle!lifeVars) /\ PendingHasNoBroker'

------------------------------------------------------------------------------
(* What OrderLifecycle sees of a row.                                       *)

LEMMA LifeOfRow ==
    /\ LifeState(None) = "none"
    /\ \A row : row # None =>
           /\ row.status = "PENDING_SUBMISSION" => LifeState(row) = "pending"
           /\ row.status \in {"SUBMITTED", "ACCEPTED", "PARTIALLY_FILLED"} =>
                  LifeState(row) = "working"
           /\ row.status = "FILLED" => LifeState(row) = "filled"
           /\ row.status = "CANCELLED" => LifeState(row) = "cancelled"
           /\ row.status = "REPLACED" => LifeState(row) = "replaced"
           /\ row.status = "REJECTED" => LifeState(row) = "rejected"
BY DEF LifeState

\* A row rewritten with another status keeps its order, its fills and its broker.
LEMMA RestatusedRow ==
    ASSUME NEW row \in StoredOrder, NEW s \in OrderStatus
    PROVE  /\ [row EXCEPT !.status = s] # None
           /\ [row EXCEPT !.status = s].status = s
           /\ [row EXCEPT !.status = s].order = row.order
           /\ [row EXCEPT !.status = s].filled_quantity = row.filled_quantity
           /\ [row EXCEPT !.status = s].broker_id = row.broker_id
<1>1. [row EXCEPT !.status = s] \in StoredOrder
  BY DEF StoredOrder
<1> QED
  BY <1>1, NoneIsNotARow DEF StoredOrder

------------------------------------------------------------------------------
(* The effects a step can have on the table.                                *)

\* The table is left alone.
LEMMA NothingLives ==
    ASSUME PendingHasNoBroker, UNCHANGED order_store_
    PROVE  Lives
<1>1. UNCHANGED Lifecycle!lifeVars
  BY DEF Lifecycle!lifeVars
<1>2. PendingHasNoBroker'
  BY DEF PendingHasNoBroker
<1> QED
  BY <1>1, <1>2 DEF Lives

\* One row enters the table.
LEMMA OpeningLives ==
    ASSUME PendingHasNoBroker, NEW o \in LocalIds, order_store_[o] = None,
           NEW entry \in {"pending", "working", "rejected"},
           order_store_'[o] # None,
           LifeState(order_store_'[o]) = entry,
           order_store_'[o].order.quantity \in Quantities,
           order_store_'[o].filled_quantity = 0,
           order_store_'[o].status = "PENDING_SUBMISSION" => order_store_'[o].broker_id = None,
           \A l \in LocalIds \ {o} : order_store_'[l] = order_store_[l]
    PROVE  Lives
<1>1. Lifecycle!Open(o, order_store_'[o].order.quantity, entry)
  BY LifeOfRow DEF Lifecycle!Open
<1>2. Lifecycle!LifeNext
  BY <1>1 DEF Lifecycle!LifeNext, Lifecycle!Entries
<1>3. PendingHasNoBroker'
  BY DEF PendingHasNoBroker, Stored
<1> QED
  BY <1>2, <1>3 DEF Lives

\* Some working orders end.
LEMMA EndingLives ==
    ASSUME PendingHasNoBroker, order_store_ \in Table,
           NEW os \in SUBSET LocalIds, NEW s \in {"CANCELLED", "REJECTED"},
           \A o \in os : order_store_[o] # None /\ LifeState(order_store_[o]) = "working",
           order_store_' = update_order_statuses(order_store_, os, s)
    PROVE  Lives
<1> DEFINE how == IF s = "CANCELLED" THEN "cancelled" ELSE "rejected"
<1>1. ASSUME NEW o \in os
      PROVE  /\ order_store_'[o] # None
             /\ order_store_'[o].status = s
             /\ LifeState(order_store_'[o]) = how
             /\ order_store_'[o].order = order_store_[o].order
             /\ order_store_'[o].filled_quantity = order_store_[o].filled_quantity
  <2>1. order_store_[o] \in StoredOrder /\ s \in OrderStatus
    BY <1>1 DEF Table, OrderStatus
  <2>2. order_store_'[o] = [order_store_[o] EXCEPT !.status = s]
    BY <1>1 DEF update_order_statuses
  <2>3. /\ order_store_'[o] # None
        /\ order_store_'[o].status = s
        /\ order_store_'[o].order = order_store_[o].order
        /\ order_store_'[o].filled_quantity = order_store_[o].filled_quantity
    BY <2>1, <2>2, RestatusedRow
  <2> QED
    BY <2>3, LifeOfRow
<1>2. \A l \in LocalIds \ os : order_store_'[l] = order_store_[l]
  BY DEF update_order_statuses
<1>3. Lifecycle!End(os, how)
  BY <1>1, <1>2 DEF Lifecycle!End
<1>4. Lifecycle!LifeNext
  BY <1>3 DEF Lifecycle!LifeNext
<1>5. PendingHasNoBroker'
  BY <1>1, <1>2 DEF PendingHasNoBroker, Stored
<1> QED
  BY <1>4, <1>5 DEF Lives

\* A working order receives a fill.
LEMMA FillingLives ==
    ASSUME PendingHasNoBroker, order_store_ \in Table, NEW o \in LocalIds,
           order_store_[o] # None, LifeState(order_store_[o]) = "working",
           NEW n \in FillQuantity, n \in Nat, NEW price \in Nat,
           order_store_' = apply_fill(order_store_, o, n, price,
                               IF fully_filled(order_store_[o], n)
                               THEN "FILLED" ELSE "PARTIALLY_FILLED")
    PROVE  Lives
<1> DEFINE row == order_store_[o]
           s == IF fully_filled(row, n) THEN "FILLED" ELSE "PARTIALLY_FILLED"
<1>1. row \in StoredOrder /\ s \in OrderStatus
  BY DEF Table, OrderStatus
<1>2. order_store_'[o] = FilledRow(row, n, price, s)
  BY DEF apply_fill
<1>3. /\ order_store_'[o] # None
      /\ order_store_'[o].status = s
      /\ order_store_'[o].order = row.order
      /\ order_store_'[o].filled_quantity = row.filled_quantity + n
  <2>1. FilledRow(row, n, price, s) \in StoredOrder
    BY <1>1, FilledRowType
  <2> QED
    BY <1>1, <1>2, <2>1, NoneIsNotARow DEF FilledRow, StoredOrder
<1>4. LifeState(order_store_'[o]) =
          IF row.filled_quantity + n >= row.order.quantity THEN "filled" ELSE "working"
  BY <1>3, LifeOfRow DEF fully_filled
<1>5. \A l \in LocalIds \ {o} : order_store_'[l] = order_store_[l]
  BY DEF apply_fill
<1>6. Lifecycle!Fill(o, n)
  BY <1>3, <1>4, <1>5 DEF Lifecycle!Fill
<1>7. Lifecycle!LifeNext
  BY <1>6 DEF Lifecycle!LifeNext
<1>8. PendingHasNoBroker'
  BY <1>3, <1>5 DEF PendingHasNoBroker, Stored
<1> QED
  BY <1>7, <1>8 DEF Lives

\* A working order is recorded as replaced.
LEMMA ReplacedRow ==
    ASSUME order_store_ \in Table, NEW o \in LocalIds, order_store_[o] # None
    PROVE  LET table == update_order_status(order_store_, o, "REPLACED")
           IN  /\ table[o] # None
               /\ table[o].status = "REPLACED"
               /\ LifeState(table[o]) = "replaced"
               /\ table[o].order = order_store_[o].order
               /\ table[o].filled_quantity = order_store_[o].filled_quantity
               /\ \A l \in LocalIds \ {o} : table[l] = order_store_[l]
<1> DEFINE table == update_order_status(order_store_, o, "REPLACED")
<1>1. order_store_[o] \in StoredOrder /\ "REPLACED" \in OrderStatus
  BY DEF Table, OrderStatus
<1>2. table[o] = [order_store_[o] EXCEPT !.status = "REPLACED"]
  BY DEF update_order_status, update_order_statuses
<1>3. \A l \in LocalIds \ {o} : table[l] = order_store_[l]
  BY DEF update_order_status, update_order_statuses
<1> HIDE DEF table
<1>4. /\ table[o] # None
      /\ table[o].status = "REPLACED"
      /\ table[o].order = order_store_[o].order
      /\ table[o].filled_quantity = order_store_[o].filled_quantity
  BY <1>1, <1>2, RestatusedRow
<1>5. LifeState(table[o]) = "replaced"
  BY <1>4, LifeOfRow
<1> QED
  BY <1>3, <1>4, <1>5 DEF table

\* The old order ends and no replacement is stored.
LEMMA AbandoningLives ==
    ASSUME PendingHasNoBroker, order_store_ \in Table, NEW o \in LocalIds,
           order_store_[o] # None, LifeState(order_store_[o]) = "working",
           order_store_' = update_order_status(order_store_, o, "REPLACED")
    PROVE  Lives
<1>1. /\ order_store_'[o] # None
      /\ order_store_'[o].status = "REPLACED"
      /\ LifeState(order_store_'[o]) = "replaced"
      /\ order_store_'[o].order = order_store_[o].order
      /\ order_store_'[o].filled_quantity = order_store_[o].filled_quantity
      /\ \A l \in LocalIds \ {o} : order_store_'[l] = order_store_[l]
  BY ReplacedRow
<1>2. Lifecycle!Abandon(o)
  BY <1>1 DEF Lifecycle!Abandon
<1>3. Lifecycle!LifeNext
  BY <1>2 DEF Lifecycle!LifeNext
<1>4. PendingHasNoBroker'
  BY <1>1 DEF PendingHasNoBroker, Stored
<1> QED
  BY <1>3, <1>4 DEF Lives

\* The old order ends and its replacement enters the table as working.
LEMMA ReplacingLives ==
    ASSUME PendingHasNoBroker, order_store_ \in Table, NEW o \in LocalIds, NEW new \in LocalIds,
           order_store_[o] # None, LifeState(order_store_[o]) = "working",
           order_store_[new] = None,
           NEW row \in StoredOrder, row.status = "SUBMITTED", row.filled_quantity = 0,
           order_store_' = store_order(update_order_status(order_store_, o, "REPLACED"), new, row)
    PROVE  Lives
<1> DEFINE table == update_order_status(order_store_, o, "REPLACED")
<1>1. /\ table[o] # None
      /\ table[o].status = "REPLACED"
      /\ LifeState(table[o]) = "replaced"
      /\ table[o].order = order_store_[o].order
      /\ table[o].filled_quantity = order_store_[o].filled_quantity
      /\ \A l \in LocalIds \ {o} : table[l] = order_store_[l]
  BY ReplacedRow
<1>2. o # new
  OBVIOUS
<1>3. /\ order_store_'[o] = table[o]
      /\ order_store_'[new] = row
      /\ \A l \in LocalIds \ {o, new} : order_store_'[l] = order_store_[l]
  <2>1. DOMAIN table = LocalIds
    BY DEF update_order_status, update_order_statuses
  <2>2. order_store_' = [table EXCEPT ![new] = row]
    BY DEF store_order
  <2> HIDE DEF table
  <2> QED
    BY <1>1, <1>2, <2>1, <2>2
<1> HIDE DEF table
<1>4. row # None /\ row.order.quantity \in Quantities
  BY NoneIsNotARow DEF StoredOrder, Signals
<1>5. LifeState(row) = "working"
  BY <1>4, LifeOfRow
<1>6. Lifecycle!Replace(o, new, row.order.quantity)
  <2> DEFINE state == [l \in LocalIds |-> LifeState(order_store_[l])]
             quantity == [l \in LocalIds |-> IF order_store_[l] = None THEN 0
                                             ELSE order_store_[l].order.quantity]
             filled == [l \in LocalIds |-> IF order_store_[l] = None THEN 0
                                           ELSE order_store_[l].filled_quantity]
  <2>1. state[o] = "working" /\ state[new] = "none"
    BY LifeOfRow
  <2>2. state' = [state EXCEPT ![o] = "replaced", ![new] = "working"]
    BY <1>1, <1>2, <1>3, <1>5
  <2>3. quantity' = [quantity EXCEPT ![new] = row.order.quantity]
    BY ZenonT(40), <1>1, <1>2, <1>3, <1>4
  <2>4. filled' = filled
    BY <1>1, <1>2, <1>3, <1>4
  <2> QED
    BY <2>1, <2>2, <2>3, <2>4 DEF Lifecycle!Replace
<1>7. Lifecycle!LifeNext
  BY <1>4, <1>6 DEF Lifecycle!LifeNext
<1>8. PendingHasNoBroker'
  BY <1>1, <1>3 DEF PendingHasNoBroker, Stored
<1> QED
  BY <1>7, <1>8 DEF Lives

------------------------------------------------------------------------------
(* One lemma per handler.                                                   *)

\* The id a handler takes next has no row; a tracked order is a working one.
LEMMA FreshAndWorking ==
    ASSUME TrackingInv
    PROVE  /\ order_store_ \in Table
           /\ id_generator_ \in LocalIds => order_store_[id_generator_] = None
           /\ \A l \in LocalIds : IsMapped(l) => /\ order_store_[l] # None
                                                 /\ LifeState(order_store_[l]) = "working"
<1>1. order_store_ \in Table /\ id_generator_ \in Int
  BY OrderIdsAssumption DEF TrackingInv, TypeOK
<1>2. id_generator_ \in LocalIds => order_store_[id_generator_] = None
  BY <1>1 DEF TrackingInv, IdsIssued
<1>3. \A l \in LocalIds : IsMapped(l) =>
          /\ order_store_[l] # None
          /\ order_store_[l].status \in {"SUBMITTED", "PARTIALLY_FILLED"}
  BY DEF TrackingInv, MappedOrdersAreOpen, Mapped
<1> QED
  BY <1>1, <1>2, <1>3, LifeOfRow

\* handle_cancel_command ends the tracked order, or leaves the table alone.
LEMMA CancelLives ==
    ASSUME LifeInv, NEW fail, handle_cancel_command(fail)
    PROVE  Lives
<1>1. CASE Refuse("cancel") \/ CancelNotRecorded(fail)
  BY <1>1, NothingLives DEF LifeInv, Refuse, CancelNotRecorded
<1>2. CASE CancelDone(fail)
  <2>1. /\ event.order_id \in LocalIds
        /\ IsMapped(event.order_id)
        /\ order_store_' = update_order_statuses(order_store_, {event.order_id}, "CANCELLED")
    BY <1>2, EventType
    DEF CancelDone, Cancelling, CancelCommand, LifeInv, TrackingInv, update_order_status
  <2>2. /\ order_store_ \in Table
        /\ order_store_[event.order_id] # None
        /\ LifeState(order_store_[event.order_id]) = "working"
    BY <2>1, FreshAndWorking DEF LifeInv
  <2>3. {event.order_id} \in SUBSET LocalIds
    BY <2>1
  <2> QED
    BY <2>1, <2>2, <2>3, EndingLives DEF LifeInv
<1> QED
  BY <1>1, <1>2 DEF handle_cancel_command, CancelUnknown, CancelRefusedByGateway

\* handle_cancel_all_command ends orders that have a broker id and an open
\* status: PendingHasNoBroker makes them working.
LEMMA CancelAllLives ==
    ASSUME LifeInv, NEW fail, NEW refused, NEW unrecorded,
           handle_cancel_all_command(fail, refused, unrecorded)
    PROVE  Lives
<1> DEFINE cancelled == Reachable(fail) \ (refused \cup unrecorded)
<1>1. order_store_' = update_order_statuses(order_store_, cancelled, "CANCELLED")
  BY DEF handle_cancel_all_command
<1>2. cancelled \in SUBSET LocalIds
  BY DEF Reachable, get_open_orders, Stored
<1>3. ASSUME NEW o \in cancelled
      PROVE  order_store_[o] # None /\ LifeState(order_store_[o]) = "working"
  <2>1. /\ o \in Stored(order_store_)
        /\ order_store_[o].status \in OpenStatus
        /\ order_store_[o].broker_id # None
    BY <1>3 DEF Reachable, get_open_orders
  <2>2. order_store_[o].status \in {"SUBMITTED", "ACCEPTED", "PARTIALLY_FILLED"}
    BY <2>1 DEF LifeInv, PendingHasNoBroker, OpenStatus
  <2> QED
    BY <2>1, <2>2, LifeOfRow DEF Stored
<1> HIDE DEF cancelled
<1>4. order_store_ \in Table
  BY DEF LifeInv, TrackingInv, TypeOK
<1> QED
  BY <1>1, <1>2, <1>3, <1>4, EndingLives DEF LifeInv

\* handle_submit_command opens the fresh id: refused, pending for ever, or
\* working.
LEMMA SubmitLives ==
    ASSUME LifeInv, NEW fail, handle_submit_command(fail)
    PROVE  Lives
<1> DEFINE o == id_generator_
<1>1. ASSUME Dispatch("submit"), o < MaxOrders
      PROVE  /\ o \in LocalIds
             /\ order_store_[o] = None
             /\ PendingRow \in StoredOrder
             /\ PendingRow # None
             /\ PendingRow.status = "PENDING_SUBMISSION"
             /\ PendingRow.broker_id = None
             /\ PendingRow.order.quantity \in Quantities
             /\ PendingRow.filled_quantity = 0
             /\ WithPendingRow[o] = PendingRow
             /\ \A l \in LocalIds \ {o} : WithPendingRow[l] = order_store_[l]
  <2>1. /\ o \in LocalIds
        /\ PendingRow # None
        /\ WithPendingRow[o] = PendingRow
        /\ \A l \in LocalIds \ {o} : WithPendingRow[l] = order_store_[l]
    BY <1>1, SubmitRows DEF LifeInv
  <2>2. PendingRow \in StoredOrder
    BY <1>1, SubmitContext DEF LifeInv, TrackingInv
  <2>3. order_store_[o] = None
    BY <2>1, FreshAndWorking DEF LifeInv
  <2>4. /\ PendingRow.status = "PENDING_SUBMISSION"
        /\ PendingRow.broker_id = None
        /\ PendingRow.filled_quantity = 0
    BY DEF PendingRow, NewRow
  <2>5. PendingRow.order.quantity \in Quantities
    BY <2>2 DEF StoredOrder, Signals
  <2> QED
    BY <2>1, <2>2, <2>3, <2>4, <2>5
<1>2. ASSUME Dispatch("submit"), o < MaxOrders, order_store_' = WithPendingRow
      PROVE  Lives
  <2>1. LifeState(PendingRow) = "pending"
    BY <1>1, <1>2, LifeOfRow
  <2> QED
    BY <1>1, <1>2, <2>1, OpeningLives DEF LifeInv
<1>3. ASSUME Dispatch("submit"), o < MaxOrders, NEW s \in {"SUBMITTED", "REJECTED"},
             order_store_' = update_order_status(WithPendingRow, o, s)
      PROVE  Lives
  <2>1. order_store_'[o] = [PendingRow EXCEPT !.status = s]
    BY <1>1, <1>3 DEF update_order_status, update_order_statuses
  <2>2. \A l \in LocalIds \ {o} : order_store_'[l] = order_store_[l]
    BY <1>1, <1>3 DEF update_order_status, update_order_statuses
  <2>3. /\ order_store_'[o] # None
        /\ order_store_'[o].status = s
        /\ order_store_'[o].order.quantity \in Quantities
        /\ order_store_'[o].filled_quantity = 0
    BY <1>1, <1>3, <2>1, RestatusedRow DEF OrderStatus
  <2>4. LifeState(order_store_'[o]) \in {"working", "rejected"}
    BY <2>3, LifeOfRow
  <2> QED
    BY <1>1, <1>3, <2>2, <2>3, <2>4, OpeningLives DEF LifeInv
<1>4. CASE SubmitNotStored(fail)
  BY <1>4, NothingLives DEF SubmitNotStored, LifeInv
<1>5. CASE Dispatch("submit") /\ RecordRejection(fail)
  BY <1>2, <1>3, <1>5 DEF RecordRejection, Submitting
<1>6. ASSUME NEW b \in BrokerIds, SubmitNotRecorded(fail, b)
      PROVE  Lives
  BY <1>2, <1>6 DEF SubmitNotRecorded, Submitting
<1>7. ASSUME NEW b \in BrokerIds, SubmitAccepted(fail, b)
      PROVE  Lives
  <2> DEFINE submitted == update_order_status(WithPendingRow, o, "SUBMITTED")
  <2>1. /\ Dispatch("submit")
        /\ o < MaxOrders
        /\ order_store_' = submitted \/ order_store_' = update_broker_id(submitted, o, b)
    BY <1>7 DEF SubmitAccepted, Submitting
  <2>2. CASE order_store_' = submitted
    BY <1>3, <2>1, <2>2
  <2>3. CASE order_store_' = update_broker_id(submitted, o, b)
    <3> DEFINE row == [PendingRow EXCEPT !.status = "SUBMITTED"]
    <3>1. submitted[o] = row /\ row # None /\ row \in StoredOrder
      <4>1. submitted[o] = row
        BY <1>1, <2>1 DEF update_order_status, update_order_statuses
      <4>2. row \in StoredOrder
        BY <1>1, <2>1 DEF StoredOrder, OrderStatus
      <4> QED
        BY <4>1, <4>2, NoneIsNotARow
    <3>2. \A l \in LocalIds \ {o} : submitted[l] = order_store_[l]
      BY <1>1, <2>1 DEF update_order_status, update_order_statuses
    <3>3. row.status = "SUBMITTED" /\ row.order = PendingRow.order /\ row.filled_quantity = 0
      BY <1>1, <2>1, RestatusedRow DEF OrderStatus
    <3> HIDE DEF submitted, row
    <3>4. order_store_'[o] = [row EXCEPT !.broker_id = b]
      BY <1>1, <2>1, <2>3, <3>1 DEF update_broker_id
    <3>5. \A l \in LocalIds \ {o} : order_store_'[l] = order_store_[l]
      BY <1>1, <2>1, <2>3, <3>2 DEF update_broker_id
    <3>6. /\ order_store_'[o] \in StoredOrder
          /\ order_store_'[o].status = "SUBMITTED"
          /\ order_store_'[o].order = PendingRow.order
          /\ order_store_'[o].filled_quantity = 0
      BY <3>1, <3>3, <3>4 DEF StoredOrder
    <3>7. order_store_'[o] # None /\ LifeState(order_store_'[o]) = "working"
      BY <3>6, NoneIsNotARow, LifeOfRow
    <3> QED
      BY <1>1, <2>1, <3>5, <3>6, <3>7, OpeningLives DEF LifeInv
  <2> QED
    BY <2>1, <2>2, <2>3
<1> QED
  BY <1>4, <1>5, <1>6, <1>7 DEF handle_submit_command, SubmitRefusedByRisk,
                                SubmitRejectedByGateway

\* handle_replace_command ends the tracked order and opens its replacement, or
\* loses the replacement to a failing call, or leaves the table alone.
LEMMA ReplaceLives ==
    ASSUME LifeInv, NEW fail, handle_replace_command(fail)
    PROVE  Lives
<1>1. CASE ReplaceUnknown \/ ReplaceRejectedByGateway
  BY <1>1, NothingLives DEF LifeInv, ReplaceUnknown, Refuse, ReplaceRejectedByGateway
<1>2. ASSUME Dispatch("replace"), IsMapped(event.order_id)
      PROVE  /\ event.order_id \in LocalIds
             /\ event.signal \in Signals
             /\ order_store_ \in Table
             /\ order_store_[event.order_id] # None
             /\ LifeState(order_store_[event.order_id]) = "working"
  <2>1. event.order_id \in LocalIds /\ event.signal \in Signals
    BY <1>2, EventType DEF ReplaceCommand, LifeInv, TrackingInv
  <2> QED
    BY <1>2, <2>1, FreshAndWorking DEF LifeInv
<1>3. ASSUME NEW b \in BrokerIds, ReplaceNotRecorded(fail, b)
      PROVE  Lives
  <2>1. /\ Dispatch("replace")
        /\ IsMapped(event.order_id)
        /\ order_store_' = order_store_ \/ order_store_' = ReplacedTable
    BY <1>3 DEF ReplaceNotRecorded, Replacing
  <2>2. CASE order_store_' = ReplacedTable
    BY <1>2, <2>1, <2>2, AbandoningLives DEF ReplacedTable, LifeInv
  <2> QED
    BY <2>1, <2>2, NothingLives DEF LifeInv
<1>4. ASSUME NEW b \in BrokerIds, ReplaceDone(fail, b)
      PROVE  Lives
  <2>1. /\ Dispatch("replace")
        /\ IsMapped(event.order_id)
        /\ id_generator_ < MaxOrders
        /\ order_store_' = store_order(ReplacedTable, id_generator_, ReplacementRow(b))
    BY <1>4 DEF ReplaceDone, Replacing
  <2>2. id_generator_ \in LocalIds
    BY <2>1, OrderIdsAssumption DEF LocalIds, LifeInv, TrackingInv, TypeOK
  <2>3. order_store_[id_generator_] = None
    BY <2>2, FreshAndWorking DEF LifeInv
  <2>4. ReplacementRow(b) \in StoredOrder
    BY <1>2, <2>1, NewRowType DEF ReplacementRow, OrderStatus
  <2>5. ReplacementRow(b).status = "SUBMITTED" /\ ReplacementRow(b).filled_quantity = 0
    BY DEF ReplacementRow, NewRow
  <2> QED
    BY <1>2, <2>1, <2>2, <2>3, <2>4, <2>5, ReplacingLives DEF ReplacedTable, LifeInv
<1> QED
  BY <1>1, <1>3, <1>4 DEF handle_replace_command

\* handle_fill fills or ends the order the report's broker id is mapped to.
LEMMA FillLives ==
    ASSUME LifeInv, NEW fail, handle_fill(fail)
    PROVE  Lives
<1>1. CASE FillUnknown \/ FillNotApplied(fail)
  BY <1>1, NothingLives DEF LifeInv, FillUnknown, FillNotApplied
<1>2. ASSUME Dispatch("report"), filled_local_id # None
      PROVE  /\ filled_local_id \in LocalIds
             /\ order_store_ \in Table
             /\ order_store_[filled_local_id] # None
             /\ LifeState(order_store_[filled_local_id]) = "working"
             /\ fill \in Reports
             /\ fill.filled_quantity \in Nat
             /\ fill.avg_fill_price \in Nat
  <2>1. /\ fill \in Reports
        /\ fill.broker_id \in BrokerIds
        /\ fill.filled_quantity \in Nat
        /\ fill.avg_fill_price \in Nat
        /\ filled_local_id \in LocalIds
    BY <1>2, FillContext DEF LifeInv, TrackingInv
  <2>2. get_broker_id(id_mapper_, filled_local_id) = fill.broker_id
    BY <2>1 DEF LifeInv, TrackingInv, MapperInverse, filled_local_id
  <2>3. IsMapped(filled_local_id)
    BY <2>1, <2>2, OrderIdsAssumption DEF IsMapped, BrokerIds
  <2> QED
    BY <2>1, <2>3, FreshAndWorking DEF LifeInv
<1>3. CASE FillTerminal(fail)
  <2>1. /\ Dispatch("report")
        /\ filled_local_id # None
        /\ fill.status # "NONE"
        /\ \/ order_store_' = order_store_
           \/ order_store_' = update_order_statuses(order_store_, {filled_local_id}, fill.status)
    BY <1>3 DEF FillTerminal, Persisted, update_order_status
  <2>2. fill.status \in {"CANCELLED", "REJECTED"}
    BY <1>2, <2>1 DEF Reports
  <2>3. CASE order_store_' = update_order_statuses(order_store_, {filled_local_id}, fill.status)
    <3>1. {filled_local_id} \in SUBSET LocalIds
      BY <1>2, <2>1
    <3> QED
      BY <1>2, <2>1, <2>2, <2>3, <3>1, EndingLives DEF LifeInv
  <2> QED
    BY <2>1, <2>3, NothingLives DEF LifeInv
<1>4. CASE FillApplied(fail)
  <2>1. /\ Dispatch("report")
        /\ filled_local_id # None
        /\ \/ order_store_' = order_store_
           \/ order_store_' = apply_fill(order_store_, filled_local_id, fill.filled_quantity,
                                  fill.avg_fill_price,
                                  IF fully_filled(order_store_[filled_local_id],
                                                  fill.filled_quantity)
                                  THEN "FILLED" ELSE "PARTIALLY_FILLED")
    BY <1>4 DEF FillApplied, Persisted
  <2>2. fill.filled_quantity \in FillQuantity
    BY <1>2, <2>1 DEF Reports
  <2>3. CASE order_store_' # order_store_
    BY <1>2, <2>1, <2>2, <2>3, FillingLives DEF LifeInv
  <2> QED
    BY <2>1, <2>3, NothingLives DEF LifeInv
<1> QED
  BY <1>1, <1>3, <1>4 DEF handle_fill

------------------------------------------------------------------------------
(* The refinement.                                                          *)

LEMMA NextLives == LifeInv /\ [Next]_omVars => Lives
<1> SUFFICES ASSUME LifeInv, [Next]_omVars
             PROVE  Lives
  OBVIOUS
<1>1. CASE run_dispatch_loop
  BY <1>1, SubmitLives, CancelLives, ReplaceLives, CancelAllLives, FillLives
  DEF run_dispatch_loop
<1>2. CASE UNCHANGED order_store_
  BY <1>2, NothingLives DEF LifeInv
<1>3. CASE ClientStep
  BY <1>2, <1>3 DEF ClientStep, SubmitSignal, CancelSignal, ReplaceSignal, cancel_all,
                    process_signal, set_fill_sink, clear_fill_sink, SwitchFillSink
<1>4. CASE AnyGatewayStep
  BY <1>2, <1>4 DEF AnyGatewayStep, GatewayReport
<1>5. CASE Destroy \/ GatewayStopped \/ LeaveLoop
  BY <1>2, <1>5 DEF Destroy, GatewayStopped, LeaveLoop, Enters
<1>6. CASE Destroyed \/ UNCHANGED omVars
  BY <1>2, <1>6 DEF Destroyed, omVars
<1> QED
  BY <1>1, <1>3, <1>4, <1>5, <1>6 DEF Next

LEMMA LifeInvariant == Spec => []LifeInv
<1>1. Init => PendingHasNoBroker
  BY DEF Init, EmptyTable, PendingHasNoBroker, Stored
<1>2. LifeInv /\ [Next]_omVars => LifeInv'
  BY NextTracking, NextLives DEF LifeInv, Lives
<1>3. LifeInv <=> TrackingInv /\ PendingHasNoBroker
  BY DEF LifeInv
<1> QED
  BY <1>1, <1>2, <1>3, InitTracking, PTL DEF Spec

\* The orders table lives the life OrderLifecycle promises: an order is opened
\* once with a fixed quantity, accumulates its fills, ends once for one reason,
\* and no late fill, cancellation, replacement or kill switch touches it again,
\* whichever store calls fail and whatever the gateway reports.
THEOREM OrdersLiveOnce == Spec => LifecycleRefined
<1>1. Init => Lifecycle!LifeInit
  <2> SUFFICES ASSUME Init PROVE Lifecycle!LifeInit
    OBVIOUS
  <2>1. \A l \in LocalIds : order_store_[l] = None /\ LifeState(order_store_[l]) = "none"
    BY LifeOfRow DEF Init, EmptyTable
  <2> QED
    BY <2>1 DEF Lifecycle!LifeInit
<1>2. LifeInv /\ [Next]_omVars => [Lifecycle!LifeNext]_(Lifecycle!lifeVars)
  BY NextLives DEF Lives
<1> QED
  BY <1>1, <1>2, LifeInvariant, PTL DEF Spec, LifecycleRefined, Lifecycle!LifeSpec
==============================================================================
