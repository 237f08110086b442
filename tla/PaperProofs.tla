----------------------------- MODULE PaperProofs -----------------------------
(***************************************************************************)
(* Theorems about an order manager that trades against the PaperGateway,   *)
(* for any number of orders and clients and any sets of symbols,           *)
(* quantities and prices.                                                  *)
(*                                                                         *)
(* PaperTrading is an OrderManager with one particular gateway, so every   *)
(* theorem about the order manager against any gateway holds of it: its    *)
(* invariant LifeInv is the ground the others stand on.                    *)
(***************************************************************************)
EXTENDS PaperTrading, OrderManagerProofs

------------------------------------------------------------------------------
(* The paper gateway is one of the gateways of OrderManager.                *)

\* Each handler with its gateway calls is the handler.
LEMMA PaperDispatch ==
    DispatchThread => run_dispatch_loop \/ (LeaveLoop /\ UNCHANGED gatewayVars)
<1> SUFFICES ASSUME DispatchThread
             PROVE  run_dispatch_loop \/ (LeaveLoop /\ UNCHANGED gatewayVars)
  OBVIOUS
<1>1. ASSUME NEW fail \in SUBSET SubmitFaults, PaperSubmit(fail)
      PROVE  handle_submit_command(fail)
  BY <1>1 DEF PaperSubmit, handle_submit_command
<1>2. ASSUME NEW fail \in SUBSET CancelFaults, PaperCancel(fail)
      PROVE  handle_cancel_command(fail)
  BY <1>2 DEF PaperCancel, handle_cancel_command
<1>3. ASSUME NEW fail \in SUBSET ReplaceFaults, PaperReplace(fail)
      PROVE  handle_replace_command(fail)
  <2>1. ReplaceUnknown \/ ReplaceRejectedByGateway
            \/ \E b \in BrokerIds : ReplaceNotRecorded(fail, b) \/ ReplaceDone(fail, b)
    BY <1>3 DEF PaperReplace
  <2> QED
    BY <2>1 DEF handle_replace_command
<1>4. ASSUME NEW fail \in SUBSET SweepFaults, NEW unrecorded \in SUBSET LocalIds,
             PaperCancelAll(fail, unrecorded)
      PROVE  handle_cancel_all_command(fail, {}, unrecorded)
  BY <1>4 DEF PaperCancelAll
<1>5. ASSUME NEW fail \in SUBSET FillFaults, PaperFill(fail)
      PROVE  handle_fill(fail)
  BY <1>5 DEF PaperFill
<1>6. {} \in SUBSET LocalIds
  OBVIOUS
<1> QED
  BY <1>1, <1>2, <1>3, <1>4, <1>5, <1>6 DEF DispatchThread, run_dispatch_loop

\* Every step of the composition is a step of the order manager, or touches
\* none of its variables.
LEMMA PaperStep == [PaperNext]_vars => [Next]_omVars
<1> SUFFICES ASSUME [PaperNext]_vars PROVE [Next]_omVars
  OBVIOUS
<1>1. CASE DispatchThread
  BY <1>1, PaperDispatch DEF Next
<1>2. CASE PaperClient
  BY <1>2 DEF PaperClient, Next
<1>3. CASE DeliverReport
  BY <1>3 DEF DeliverReport, AnyGatewayStep, Next
<1>4. CASE Simulate \/ EnqueueFill \/ StopDispatcher \/ DispatcherLoop \/ Hung \/ UNCHANGED vars
  BY <1>4 DEF Simulate, EnqueueFill, StopDispatcher, DispatcherLoop, Hung, vars
<1>5. CASE StopGateway
  BY <1>5 DEF StopGateway, Next
<1>6. CASE GatewayJoined
  BY <1>6 DEF GatewayJoined, Next
<1>7. CASE Destroyed
  BY <1>7 DEF Next
<1> QED
  BY <1>1, <1>2, <1>3, <1>4, <1>5, <1>6, <1>7 DEF PaperNext

\* An order manager with the paper gateway behaves as the specification of the
\* order manager allows for any gateway: what is proved of Spec holds of it.
THEOREM PaperRefinesAnyGateway == PaperSpec => Spec
<1>1. PaperInit => Init
  BY DEF PaperInit
<1> QED
  BY <1>1, PaperStep, PTL DEF PaperSpec, Spec

LEMMA PaperLives == PaperSpec => []LifeInv
BY PaperRefinesAnyGateway, LifeInvariant, PTL

------------------------------------------------------------------------------
(* The gateway's variables.                                                 *)

\* Types, and: outside of the enqueueing of a pass, no report is held back.
GatewayInv ==
    /\ GatewayTypeOK
    /\ IsFiniteSet(generated_fills_)
    /\ simulation # "enqueueing" => generated_fills_ = {}

\* What the order manager's calls make of the pending orders.
LEMMA CallsType ==
    ASSUME NEW pending \in [BrokerIds -> SimulatedOrder \cup {None}]
    PROVE  /\ \A ids : erase(pending, ids) \in [BrokerIds -> SimulatedOrder \cup {None}]
           /\ \A b \in BrokerIds, order \in Signals :
                  accept(pending, b, order) \in [BrokerIds -> SimulatedOrder \cup {None}]
BY DEF erase, accept, SimulatedOrder

\* What a pass of the simulation does to an order, and the report it makes of it.
LEMMA PassEffect ==
    ASSUME TypeOK, GatewayInv, NEW filled \in SUBSET Pending,
           NEW fills \in [filled -> FillQuantity \X Prices], simulate_fills(fills)
    PROVE  \A b \in filled :
               /\ b \in BrokerIds
               /\ pending_orders_[b] \in SimulatedOrder
               /\ fills[b][1] \in FillQuantity
               /\ fills[b][1] \in Nat
               /\ fills[b][1] \in fill_quantities(remaining(b))
               /\ remaining(b) \in Int
               /\ pending_orders_[b].order \in Signals
               /\ pending_orders_[b].order.quantity \in Nat
               /\ pending_orders_[b].cumulative_filled \in Nat
               /\ PlainFill(b, fills[b][1], fills[b][2]) \in Reports
<1> SUFFICES ASSUME NEW b \in filled
             PROVE  /\ b \in BrokerIds
                    /\ pending_orders_[b] \in SimulatedOrder
                    /\ fills[b][1] \in FillQuantity
                    /\ fills[b][1] \in Nat
                    /\ fills[b][1] \in fill_quantities(remaining(b))
                    /\ remaining(b) \in Int
                    /\ pending_orders_[b].order \in Signals
                    /\ pending_orders_[b].order.quantity \in Nat
                    /\ pending_orders_[b].cumulative_filled \in Nat
                    /\ PlainFill(b, fills[b][1], fills[b][2]) \in Reports
  OBVIOUS
<1>1. b \in BrokerIds /\ pending_orders_[b] \in SimulatedOrder
  BY DEF Pending, GatewayInv, GatewayTypeOK
<1>2. fills[b][1] \in FillQuantity /\ fills[b][2] \in Prices
  OBVIOUS
<1>3. fills[b][1] \in Nat
  BY <1>2, FillQuantityNat
<1>4. /\ pending_orders_[b].order \in Signals
      /\ pending_orders_[b].cumulative_filled \in Nat
  BY <1>1 DEF SimulatedOrder
<1>5. /\ pending_orders_[b].order.quantity \in Nat
      /\ pending_orders_[b].order.symbol \in Symbols
      /\ pending_orders_[b].order.side \in Sides
  BY <1>4, SignalAssumption DEF Signals
<1>6. remaining(b) \in Int
  BY <1>4, <1>5 DEF remaining
<1>7. fills[b][1] \in fill_quantities(remaining(b))
  BY DEF simulate_fills
<1>8. PlainFill(b, fills[b][1], fills[b][2]) \in Reports
  BY <1>1, <1>2, <1>5 DEF PlainFill, Reports
<1> QED
  BY <1>1, <1>2, <1>3, <1>4, <1>5, <1>6, <1>7, <1>8

\* A pass leaves finitely many well-formed reports and orders.
LEMMA PassType ==
    ASSUME TypeOK, GatewayInv, SimulationPass
    PROVE  GatewayInv'
<1>1. PICK filled \in SUBSET Pending : \E fills \in [filled -> FillQuantity \X Prices] :
          simulate_fills(fills)
  BY DEF SimulationPass
<1>2. PICK fills \in [filled -> FillQuantity \X Prices] : simulate_fills(fills)
  BY <1>1
<1>3. DOMAIN fills = filled
  OBVIOUS
<1>4. generated_fills_' = {PlainFill(b, fills[b][1], fills[b][2]) : b \in filled}
  BY <1>2, <1>3 DEF simulate_fills
<1>5. generated_fills_' \subseteq Reports
  BY <1>2, <1>4, PassEffect
<1>6. IsFiniteSet(generated_fills_')
  <2>1. IsFiniteSet(filled)
    <3>1. IsFiniteSet(BrokerIds)
      BY OrderIdsAssumption, FS_Interval DEF BrokerIds
    <3>2. filled \subseteq BrokerIds
      BY DEF Pending
    <3> QED
      BY <3>1, <3>2, FS_Subset
  <2> DEFINE f == [b \in filled |-> PlainFill(b, fills[b][1], fills[b][2])]
  <2>2. f \in Surjection(filled, generated_fills_')
    BY <1>4 DEF Surjection
  <2> QED
    BY <2>1, <2>2, FS_Surjection
<1>7. pending_orders_' \in [BrokerIds -> SimulatedOrder \cup {None}]
  <2>1. \A b \in filled : AfterFill(b, fills[b][1]) \in SimulatedOrder \cup {None}
    <3> SUFFICES ASSUME NEW b \in filled
                 PROVE  AfterFill(b, fills[b][1]) \in SimulatedOrder \cup {None}
      OBVIOUS
    <3>1. /\ pending_orders_[b] \in SimulatedOrder
          /\ fills[b][1] \in Nat
          /\ pending_orders_[b].cumulative_filled \in Nat
      BY <1>2, PassEffect
    <3>2. pending_orders_[b].cumulative_filled + fills[b][1] \in Nat
      BY <3>1
    <3> QED
      BY <3>1, <3>2 DEF AfterFill, SimulatedOrder
  <2> QED
    BY <1>2, <1>3, <2>1 DEF simulate_fills, GatewayInv, GatewayTypeOK
<1>8. /\ simulation' \in {"sleeping", "enqueueing"}
      /\ simulation' # "enqueueing" => generated_fills_' = {}
  BY <1>2, <1>3, <1>4 DEF simulate_fills
<1>9. UNCHANGED <<running_, reports_queue_, dispatcher, stop_requested>>
  BY <1>2 DEF simulate_fills
<1> QED
  BY <1>5, <1>6, <1>7, <1>8, <1>9 DEF GatewayInv, GatewayTypeOK

LEMMA NextGateway == TypeOK /\ GatewayInv /\ [PaperNext]_vars => GatewayInv'
<1> SUFFICES ASSUME TypeOK, GatewayInv, [PaperNext]_vars PROVE GatewayInv'
  OBVIOUS
<1>1. ASSUME UNCHANGED gatewayVars PROVE GatewayInv'
  BY <1>1 DEF gatewayVars, GatewayInv, GatewayTypeOK
<1>2. ASSUME KeepThreads, pending_orders_' \in [BrokerIds -> SimulatedOrder \cup {None}]
      PROVE  GatewayInv'
  BY <1>2 DEF KeepThreads, GatewayInv, GatewayTypeOK
<1>3. pending_orders_ \in [BrokerIds -> SimulatedOrder \cup {None}]
  BY DEF GatewayInv, GatewayTypeOK
<1>4. CASE DispatchThread
  <2>1. ASSUME NEW fail \in SUBSET SubmitFaults, PaperSubmit(fail)
        PROVE  GatewayInv'
    <3>1. CASE UNCHANGED gatewayVars
      BY <1>1, <3>1
    <3>2. ASSUME NEW b \in BrokerIds, SubmitNotRecorded(fail, b) \/ SubmitAccepted(fail, b),
                 submit_order(event.signal, b)
          PROVE  GatewayInv'
      <4>1. Dispatch("submit")
        BY <3>2 DEF SubmitNotRecorded, SubmitAccepted
      <4>2. event.signal \in Signals
        BY <4>1, EventType DEF SubmitCommand
      <4> QED
        BY <1>2, <1>3, <3>2, <4>2, CallsType DEF submit_order
    <3> QED
      BY <2>1, <3>1, <3>2 DEF PaperSubmit
  <2>2. ASSUME NEW fail \in SUBSET CancelFaults, PaperCancel(fail)
        PROVE  GatewayInv'
    BY <1>1, <1>2, <1>3, <2>2, CallsType DEF PaperCancel, cancel_orders
  <2>3. ASSUME NEW fail \in SUBSET ReplaceFaults, PaperReplace(fail)
        PROVE  GatewayInv'
    <3>1. CASE UNCHANGED gatewayVars
      BY <1>1, <3>1
    <3>2. ASSUME NEW b \in BrokerIds, ReplaceNotRecorded(fail, b) \/ ReplaceDone(fail, b),
                 NEW old, replace_order(old, event.signal, b)
          PROVE  GatewayInv'
      <4>1. Dispatch("replace")
        BY <3>2 DEF ReplaceNotRecorded, ReplaceDone
      <4>2. event.signal \in Signals
        BY <4>1, EventType DEF ReplaceCommand
      <4>3. erase(pending_orders_, {old}) \in [BrokerIds -> SimulatedOrder \cup {None}]
        BY <1>3, CallsType
      <4>4. pending_orders_' \in [BrokerIds -> SimulatedOrder \cup {None}]
        BY <3>2, <4>2, <4>3, CallsType DEF replace_order
      <4> QED
        BY <1>2, <3>2, <4>4 DEF replace_order
    <3> QED
      BY <2>3, <3>1, <3>2 DEF PaperReplace
  <2>4. ASSUME NEW fail \in SUBSET SweepFaults, NEW unrecorded \in SUBSET LocalIds,
               PaperCancelAll(fail, unrecorded)
        PROVE  GatewayInv'
    BY <1>2, <1>3, <2>4, CallsType DEF PaperCancelAll, cancel_orders
  <2>5. ASSUME NEW fail \in SUBSET FillFaults, PaperFill(fail)
        PROVE  GatewayInv'
    BY <1>1, <2>5 DEF PaperFill
  <2>6. CASE LeaveLoop /\ UNCHANGED gatewayVars
    BY <1>1, <2>6
  <2> QED
    BY <1>4, <2>1, <2>2, <2>3, <2>4, <2>5, <2>6 DEF DispatchThread
<1>5. CASE Simulate
  <2>1. CASE CheckRunning
    BY <2>1 DEF CheckRunning, GatewayInv, GatewayTypeOK
  <2> QED
    BY <1>5, <2>1, PassType DEF Simulate
<1>6. CASE EnqueueFill
  <2>1. PICK r \in generated_fills_ : enqueue_report(r)
    BY <1>6 DEF EnqueueFill
  <2>2. r \in Reports /\ reports_queue_ \in Seq(Reports)
    BY DEF GatewayInv, GatewayTypeOK
  <2>3. reports_queue_' \in Seq(Reports)
    BY <2>1, <2>2 DEF enqueue_report
  <2>4. IsFiniteSet(generated_fills_ \ {r})
    BY FS_RemoveElement DEF GatewayInv
  <2>5. dispatcher' \in {"checking", "blocking", "waiting", "exited"}
    BY <2>1 DEF enqueue_report, Notify, GatewayInv, GatewayTypeOK
  <2> QED
    BY <2>1, <2>3, <2>4, <2>5 DEF enqueue_report, GatewayInv, GatewayTypeOK
<1>7. CASE DeliverReport
  <2>1. PICK r \in Reports : PopReport(r)
    BY <1>7 DEF DeliverReport
  <2>2. reports_queue_ \in Seq(Reports) /\ reports_queue_ # <<>>
    BY <2>1 DEF PopReport, GatewayInv, GatewayTypeOK
  <2>3. reports_queue_' \in Seq(Reports)
    BY <2>1, <2>2 DEF PopReport
  <2> QED
    BY <2>1, <2>3 DEF PopReport, GatewayInv, GatewayTypeOK
<1>8. CASE StopGateway
  BY <1>8 DEF StopGateway, stop, GatewayInv, GatewayTypeOK
<1>9. CASE StopDispatcher
  BY <1>9 DEF StopDispatcher, stop_dispatcher, Notify, GatewayInv, GatewayTypeOK
<1>10. CASE DispatcherLoop
  BY <1>10 DEF DispatcherLoop, NothingToDo, Wait, DispatcherExit, GatewayInv, GatewayTypeOK
<1>11. CASE UNCHANGED vars \/ Hung \/ PaperClient \/ GatewayJoined
                \/ (Destroyed /\ UNCHANGED gatewayVars)
  BY <1>1, <1>11 DEF vars, Hung, PaperClient, GatewayJoined
<1> QED
  BY <1>4, <1>5, <1>6, <1>7, <1>8, <1>9, <1>10, <1>11 DEF PaperNext

LEMMA InitGateway == PaperInit => GatewayInv
<1> SUFFICES ASSUME PaperInit PROVE GatewayInv
  OBVIOUS
<1>1. <<>> \in Seq(Reports) /\ IsFiniteSet({})
  BY FS_EmptySet
<1> QED
  BY <1>1 DEF PaperInit, GatewayInit, GatewayInv, GatewayTypeOK

LEMMA GatewayInvariant == PaperSpec => []GatewayInv
<1>1. LifeInv => TypeOK
  BY DEF LifeInv, TrackingInv
<1> QED
  BY <1>1, InitGateway, NextGateway, PaperLives, PTL DEF PaperSpec

\* The pending orders, the reports on their way and the threads of the gateway
\* keep their types, whatever the random draws and whichever store calls fail.
THEOREM GatewayTypeCorrect == PaperSpec => []GatewayTypeOK
BY GatewayInvariant, PTL DEF GatewayInv

------------------------------------------------------------------------------
(* Destruction, whichever store calls fail.                                 *)

\* The event is a command of client c.
CommandOf(e, c) == e.kind # "report" /\ e.client = c

\* A blocked client's command has not been handled.
WaitersAreQueued ==
    \A c \in waiting : \E i \in 1 .. Len(queue_) : CommandOf(queue_[i], c)

\* Each thread stops after those that feed it.
StopOrder ==
    /\ stop_requested => simulation = "exited"
    /\ dispatcher = "exited" => stop_requested /\ reports_queue_ = <<>>
    /\ phase \in {"draining", "destroyed"} => dispatcher = "exited"
    /\ phase = "destroyed" => queue_ = <<>>

\* The order manager's part of a step.  A command is appended with its client
\* blocked; a report is appended; the head leaves the queue, and its client, if
\* it has one, is answered; or neither changes.
QueueStep ==
    \/ \E cmd \in Command : /\ queue_' = Append(queue_, cmd)
                            /\ waiting' = waiting \cup {cmd.client}
    \/ \E r \in Reports : /\ queue_' = Append(queue_, [kind |-> "report", report |-> r])
                          /\ waiting' = waiting
    \/ /\ queue_ # <<>>
       /\ queue_' = Tail(queue_)
       /\ \/ event.kind # "report" /\ waiting' = waiting \ {event.client}
          \/ event.kind = "report" /\ waiting' = waiting
    \/ UNCHANGED <<queue_, waiting>>

LEMMA HandlersQueue ==
    ASSUME run_dispatch_loop
    PROVE  /\ queue_ # <<>>
           /\ queue_' = Tail(queue_)
           /\ UNCHANGED phase
           /\ \/ event.kind # "report" /\ waiting' = waiting \ {event.client}
              \/ event.kind = "report" /\ waiting' = waiting
<1> DEFINE Done == /\ queue_ # <<>>
                   /\ queue_' = Tail(queue_)
                   /\ UNCHANGED phase
                   /\ \/ event.kind # "report" /\ waiting' = waiting \ {event.client}
                      \/ event.kind = "report" /\ waiting' = waiting
<1>1. ASSUME NEW fail, handle_submit_command(fail) PROVE Done
  BY <1>1 DEF handle_submit_command, SubmitNotStored, SubmitRefusedByRisk,
              SubmitRejectedByGateway, RecordRejection, SubmitNotRecorded, SubmitAccepted,
              Submitting, Dispatch, Answer
<1>2. ASSUME NEW fail, handle_cancel_command(fail) PROVE Done
  BY <1>2 DEF handle_cancel_command, CancelUnknown, CancelRefusedByGateway, Refuse,
              CancelNotRecorded, CancelDone, Cancelling, Dispatch, Answer
<1>3. ASSUME NEW fail, handle_replace_command(fail) PROVE Done
  BY <1>3 DEF handle_replace_command, ReplaceUnknown, Refuse, ReplaceRejectedByGateway,
              ReplaceNotRecorded, ReplaceDone, Replacing, Dispatch, Answer
<1>4. ASSUME NEW fail, NEW refused, NEW unrecorded,
             handle_cancel_all_command(fail, refused, unrecorded)
      PROVE  Done
  BY <1>4 DEF handle_cancel_all_command, Dispatch, Answer
<1>5. ASSUME NEW fail, handle_fill(fail) PROVE Done
  BY <1>5 DEF handle_fill, FillUnknown, FillTerminal, FillNotApplied, FillApplied, Dispatch
<1> QED
  BY <1>1, <1>2, <1>3, <1>4, <1>5 DEF run_dispatch_loop

\* The queue only moves in these ways, and its events only while the order
\* manager is not destroyed.
LEMMA ClientQueues ==
    ASSUME ClientStep
    PROVE  QueueStep /\ UNCHANGED phase /\ (queue_' # queue_ => phase = "running")
<1>1. ASSUME NEW cmd \in Command, process_signal(cmd)
      PROVE  QueueStep /\ UNCHANGED phase /\ (queue_' # queue_ => phase = "running")
  BY <1>1 DEF process_signal, enqueue, QueueStep
<1>2. ASSUME NEW c \in Clients, NEW signal \in Signals, SubmitSignal(c, signal)
      PROVE  \E cmd \in Command : process_signal(cmd)
  <2>1. [kind |-> "submit", client |-> c, signal |-> signal] \in Command
    BY DEF Command, SubmitCommand
  <2> QED
    BY <1>2, <2>1 DEF SubmitSignal
<1>3. ASSUME NEW c \in Clients, NEW l \in LocalIds, CancelSignal(c, l)
      PROVE  \E cmd \in Command : process_signal(cmd)
  <2>1. [kind |-> "cancel", client |-> c, order_id |-> l] \in Command
    BY DEF Command, CancelCommand
  <2> QED
    BY <1>3, <2>1 DEF CancelSignal
<1>4. ASSUME NEW c \in Clients, NEW l \in LocalIds, NEW signal \in Signals,
             ReplaceSignal(c, l, signal)
      PROVE  \E cmd \in Command : process_signal(cmd)
  <2>1. [kind |-> "replace", client |-> c, order_id |-> l, signal |-> signal] \in Command
    BY DEF Command, ReplaceCommand
  <2> QED
    BY <1>4, <2>1 DEF ReplaceSignal
<1>5. ASSUME NEW c \in Clients, cancel_all(c)
      PROVE  \E cmd \in Command : process_signal(cmd)
  <2>1. [kind |-> "cancel_all", client |-> c] \in Command
    BY DEF Command, CancelAllCommand
  <2> QED
    BY <1>5, <2>1 DEF cancel_all
<1>6. CASE set_fill_sink \/ clear_fill_sink
  BY <1>6 DEF set_fill_sink, clear_fill_sink, SwitchFillSink, QueueStep
<1> QED
  BY <1>1, <1>2, <1>3, <1>4, <1>5, <1>6 DEF ClientStep

\* A blocked client keeps its command in the queue until it is answered.
LEMMA WaitersStayQueued ==
    ASSUME TypeOK, WaitersAreQueued, QueueStep
    PROVE  WaitersAreQueued'
<1>1. queue_ \in Seq(Command \cup ReportEvent)
  BY DEF TypeOK
<1>2. ASSUME NEW e, queue_' = Append(queue_, e)
      PROVE  /\ Len(queue_') = Len(queue_) + 1 /\ Len(queue_) \in Nat
             /\ queue_'[Len(queue_) + 1] = e
             /\ \A i \in 1 .. Len(queue_) : queue_'[i] = queue_[i] /\ i \in 1 .. Len(queue_')
  BY <1>1, <1>2
<1>3. ASSUME NEW cmd \in Command, queue_' = Append(queue_, cmd),
             waiting' = waiting \cup {cmd.client}
      PROVE  WaitersAreQueued'
  <2>1. Len(queue_) + 1 \in 1 .. Len(queue_')
    BY <1>2, <1>3
  <2>2. CommandOf(cmd, cmd.client)
    BY DEF CommandOf, Command, SubmitCommand, CancelCommand, ReplaceCommand, CancelAllCommand
  <2> QED
    BY <1>2, <1>3, <2>1, <2>2 DEF WaitersAreQueued
<1>4. ASSUME NEW r \in Reports, queue_' = Append(queue_, [kind |-> "report", report |-> r]),
             waiting' = waiting
      PROVE  WaitersAreQueued'
  BY <1>2, <1>4 DEF WaitersAreQueued
<1>5. ASSUME queue_ # <<>>, queue_' = Tail(queue_),
             \/ event.kind # "report" /\ waiting' = waiting \ {event.client}
             \/ event.kind = "report" /\ waiting' = waiting
      PROVE  WaitersAreQueued'
  <2> SUFFICES ASSUME NEW c \in waiting'
               PROVE  \E i \in 1 .. Len(queue_') : CommandOf(queue_'[i], c)
    BY DEF WaitersAreQueued
  <2>1. PICK i \in 1 .. Len(queue_) : CommandOf(queue_[i], c)
    BY <1>5 DEF WaitersAreQueued
  <2>2. i # 1
    BY <1>1, <1>5, <2>1 DEF CommandOf, event
  <2>3. i - 1 \in 1 .. Len(queue_') /\ queue_'[i - 1] = queue_[i]
    BY <1>1, <1>5, <2>1, <2>2
  <2> QED
    BY <2>1, <2>3
<1> QED
  BY <1>3, <1>4, <1>5 DEF QueueStep, WaitersAreQueued

\* A step of the order manager's threads feeds neither the gateway's queues nor,
\* once the dispatcher is gone, its own.
LEMMA NextStops ==
    TypeOK /\ GatewayInv /\ WaitersAreQueued /\ StopOrder /\ [PaperNext]_vars
        => WaitersAreQueued' /\ StopOrder'
<1> SUFFICES ASSUME TypeOK, GatewayInv, WaitersAreQueued, StopOrder, [PaperNext]_vars
             PROVE  WaitersAreQueued' /\ StopOrder'
  OBVIOUS
<1>0. ASSUME UNCHANGED omVars PROVE QueueStep /\ UNCHANGED <<queue_, phase>>
  BY <1>0 DEF omVars, QueueStep
<1>1. CASE DispatchThread
  <2>1. CASE LeaveLoop /\ UNCHANGED gatewayVars
    <3>1. queue_ = <<>> /\ UNCHANGED <<queue_, waiting>> /\ phase = "draining"
          /\ phase' = "destroyed"
      BY <2>1 DEF LeaveLoop, Enters
    <3> QED
      BY <2>1, <3>1 DEF StopOrder, WaitersAreQueued, gatewayVars
  <2>2. CASE run_dispatch_loop
    <3>1. UNCHANGED <<running_, simulation, generated_fills_, reports_queue_, dispatcher,
                      stop_requested>>
      BY <1>1 DEF DispatchThread, PaperSubmit, PaperCancel, PaperReplace, PaperCancelAll,
                  PaperFill, submit_order, cancel_orders, replace_order, KeepThreads, gatewayVars
    <3>2. QueueStep /\ UNCHANGED phase /\ queue_ # <<>>
      BY <2>2, HandlersQueue DEF QueueStep
    <3> QED
      BY <3>1, <3>2, WaitersStayQueued DEF StopOrder
  <2> QED
    BY <1>1, <2>1, <2>2, PaperDispatch
<1>2. CASE PaperClient
  <2>1. UNCHANGED gatewayVars /\ QueueStep /\ UNCHANGED phase
        /\ (queue_' # queue_ => phase = "running")
    BY <1>2, ClientQueues DEF PaperClient
  <2> QED
    BY <2>1, WaitersStayQueued DEF StopOrder, gatewayVars
<1>3. CASE Simulate \/ EnqueueFill
  <2>1. QueueStep /\ UNCHANGED <<queue_, phase>>
    BY <1>0, <1>3 DEF Simulate, EnqueueFill
  <2>2. CASE CheckRunning
    BY <2>1, <2>2, WaitersStayQueued DEF CheckRunning, StopOrder
  <2>3. CASE SimulationPass
    <3>1. /\ simulation = "simulating"
          /\ UNCHANGED <<running_, reports_queue_, dispatcher, stop_requested>>
      BY <2>3 DEF SimulationPass, simulate_fills
    <3> QED
      BY <2>1, <3>1, WaitersStayQueued DEF StopOrder
  <2>4. CASE EnqueueFill
    <3>1. /\ simulation = "enqueueing"
          /\ UNCHANGED stop_requested
          /\ dispatcher' = "exited" => dispatcher = "exited"
      BY <2>4 DEF EnqueueFill, enqueue_report, Notify
    <3> QED
      BY <2>1, <3>1, WaitersStayQueued DEF StopOrder
  <2> QED
    BY <1>3, <2>2, <2>3, <2>4 DEF Simulate
<1>4. CASE DeliverReport
  <2>1. PICK r \in Reports : PopReport(r) /\ GatewayReport(r)
    BY <1>4 DEF DeliverReport
  <2>2. QueueStep /\ UNCHANGED phase /\ phase \in {"running", "stopping"}
    BY <2>1 DEF GatewayReport, enqueue, QueueStep
  <2>3. dispatcher = "checking" /\ UNCHANGED <<simulation, dispatcher, stop_requested>>
    BY <2>1 DEF PopReport
  <2> QED
    BY <2>2, <2>3, WaitersStayQueued DEF StopOrder
<1>5. CASE StopGateway
  <2>1. /\ UNCHANGED <<queue_, waiting, simulation, dispatcher, stop_requested, reports_queue_>>
        /\ phase' = "stopping"
    BY <1>5 DEF StopGateway, Destroy, Enters, stop
  <2> QED
    BY <2>1 DEF StopOrder, WaitersAreQueued
<1>6. CASE StopDispatcher
  <2>1. QueueStep /\ UNCHANGED <<queue_, phase>>
    BY <1>0, <1>6 DEF StopDispatcher
  <2>2. /\ simulation = "exited" /\ UNCHANGED <<simulation, reports_queue_>>
        /\ ~stop_requested
        /\ dispatcher' = "exited" <=> dispatcher = "exited"
    BY <1>6 DEF StopDispatcher, stop_dispatcher, Notify
  <2> QED
    BY <2>1, <2>2, WaitersStayQueued DEF StopOrder
<1>7. CASE DispatcherLoop
  <2>1. QueueStep /\ UNCHANGED <<queue_, phase>>
    BY <1>0, <1>7 DEF DispatcherLoop
  <2> QED
    BY <1>7, <2>1, WaitersStayQueued
    DEF DispatcherLoop, NothingToDo, Wait, DispatcherExit, MayExit, StopOrder
<1>8. CASE GatewayJoined
  BY <1>8 DEF GatewayJoined, GatewayStopped, Enters, StopOrder, WaitersAreQueued, gatewayVars
<1>9. CASE UNCHANGED vars \/ Hung \/ (Destroyed /\ UNCHANGED gatewayVars)
  <2>1. UNCHANGED <<queue_, waiting, phase>> /\ UNCHANGED gatewayVars
    BY <1>9 DEF vars, Hung, Destroyed, omVars
  <2> QED
    BY <2>1 DEF StopOrder, WaitersAreQueued, gatewayVars
<1> QED
  BY <1>1, <1>2, <1>3, <1>4, <1>5, <1>6, <1>7, <1>8, <1>9 DEF PaperNext

\* Destruction loses nothing that was on its way, whichever store calls fail:
\* ~OrderManager stops the simulation, then the dispatcher, then its own loop,
\* and each queue is emptied before the thread that reads it ends.
THEOREM DestructionDrains == PaperSpec => []ShutdownDrains
<1>1. PaperInit => WaitersAreQueued /\ StopOrder
  BY DEF PaperInit, Init, GatewayInit, WaitersAreQueued, StopOrder
<1>2. LifeInv => TypeOK
  BY DEF LifeInv, TrackingInv
<1>3. GatewayInv /\ WaitersAreQueued /\ StopOrder => ShutdownDrains
  BY DEF GatewayInv, WaitersAreQueued, StopOrder, ShutdownDrains
<1> QED
  BY <1>1, <1>2, <1>3, NextStops, PaperLives, GatewayInvariant, PTL DEF PaperSpec

------------------------------------------------------------------------------
(* The sums of PaperTrading as sums of weights.                             *)

\* What a report, or an event, is worth to broker id b.
Share(b) == [r \in Reports |-> IF r.broker_id = b THEN r.filled_quantity ELSE 0]

EventShare(b) ==
    [e \in Command \cup ReportEvent |-> IF e.kind = "report" THEN Share(b)[e.report] ELSE 0]

LEMMA SharesNat ==
    ASSUME NEW b
    PROVE  /\ \A r \in Reports : Share(b)[r] \in Nat
           /\ \A e \in Command \cup ReportEvent :
                  /\ EventShare(b)[e] \in Nat
                  /\ e.kind # "report" => EventShare(b)[e] = 0
                  /\ e.kind = "report" => /\ e.report \in Reports
                                          /\ EventShare(b)[e] = Share(b)[e.report]
<1>1. \A r \in Reports : Share(b)[r] \in Nat
  BY FillQuantityNat DEF Share, Reports
<1>2. ASSUME NEW e \in Command \cup ReportEvent, e.kind = "report"
      PROVE  e.report \in Reports
  BY <1>2 DEF ReportEvent, Command, SubmitCommand, CancelCommand, ReplaceCommand,
              CancelAllCommand
<1> QED
  BY <1>1, <1>2 DEF EventShare

LEMMA GeneratedIs ==
    ASSUME NEW b, NEW G \in SUBSET Reports, IsFiniteSet(G)
    PROVE  Generated(b, G) = Sum(Share(b), G)
<1> DEFINE S == {r \in G : r.broker_id = b}
           Along(it) == it = [s \in SUBSET S |-> IF s = {} THEN 0
                              ELSE Pick(s).filled_quantity + it[s \ {Pick(s)}]]
<1>1. Generated(b, G) = (CHOOSE it : Along(it))[S]
  BY DEF Generated, MapThenSumSet, MapThenFoldSet, Pick
<1>2. \A it : SumsOver(it, Share(b), S) <=> Along(it)
  <2>1. \A s \in SUBSET S : s # {} => Share(b)[Pick(s)] = Pick(s).filled_quantity
    BY PickIn DEF Share
  <2> QED
    BY <2>1 DEF SumsOver
<1>3. (CHOOSE it : SumsOver(it, Share(b), S)) = (CHOOSE it : Along(it))
  <2> HIDE DEF Along, S
  <2> QED
    BY <1>2
<1>4. Sum(Share(b), S) = (CHOOSE it : SumsOver(it, Share(b), S))[S]
  BY DEF Sum, MapThenSumSet, MapThenFoldSet, SumsOver, Pick
<1>5. Sum(Share(b), G) = Sum(Share(b), S)
  <2>1. S \in SUBSET G /\ \A r \in G \ S : Share(b)[r] = 0
    BY DEF Share
  <2>2. \A r \in S : Share(b)[r] \in Int
    BY SharesNat
  <2> HIDE DEF S
  <2> QED
    BY <2>1, <2>2, SumSupport
<1> QED
  BY <1>1, <1>3, <1>4, <1>5

LEMMA EnqueuedIs ==
    ASSUME NEW b, NEW q \in Seq(Reports)
    PROVE  Enqueued(b, q) = Tally(Share(b), q)
<1> DEFINE D == DOMAIN q
           S == {i \in D : q[i].broker_id = b}
           w == [i \in D |-> Share(b)[q[i]]]
           Along(it) == it = [s \in SUBSET S |-> IF s = {} THEN 0
                              ELSE q[Pick(s)].filled_quantity + it[s \ {Pick(s)}]]
<1>0. D = 1 .. Len(q)
  OBVIOUS
<1>1. Enqueued(b, q) = (CHOOSE it : Along(it))[S]
  BY DEF Enqueued, MapThenSumSet, MapThenFoldSet, Pick
<1>2. \A i \in D : q[i] \in Reports /\ w[i] = Share(b)[q[i]] /\ w[i] \in Int
  BY SharesNat
<1>3. \A it : SumsOver(it, w, S) <=> Along(it)
  <2>1. \A s \in SUBSET S : s # {} => w[Pick(s)] = q[Pick(s)].filled_quantity
    <3> SUFFICES ASSUME NEW s \in SUBSET S, s # {}
                 PROVE  w[Pick(s)] = q[Pick(s)].filled_quantity
      OBVIOUS
    <3>1. Pick(s) \in D /\ q[Pick(s)].broker_id = b
      BY PickIn
    <3> QED
      BY <1>2, <3>1 DEF Share
  <2> HIDE DEF w
  <2> QED
    BY <2>1 DEF SumsOver
<1>4. (CHOOSE it : SumsOver(it, w, S)) = (CHOOSE it : Along(it))
  <2> HIDE DEF Along, S, w
  <2> QED
    BY <1>3
<1>5. Sum(w, S) = (CHOOSE it : SumsOver(it, w, S))[S]
  BY DEF Sum, MapThenSumSet, MapThenFoldSet, SumsOver, Pick
<1>6. Sum(w, D) = Sum(w, S)
  <2>1. S \in SUBSET D /\ \A i \in D \ S : w[i] = 0
    BY <1>2 DEF Share
  <2>2. IsFiniteSet(D)
    BY <1>0, FS_Interval
  <2>3. \A i \in S : w[i] \in Int
    BY <1>2
  <2> HIDE DEF S, D, w
  <2> QED
    BY <2>1, <2>2, <2>3, SumSupport
<1>7. Tally(Share(b), q) = Sum(w, D)
  BY <1>0 DEF Tally
<1> QED
  BY <1>1, <1>4, <1>5, <1>6, <1>7

LEMMA DeliveredIs ==
    ASSUME NEW b, NEW q \in Seq(Command \cup ReportEvent)
    PROVE  Delivered(b, q) = Tally(EventShare(b), q)
<1> DEFINE D == DOMAIN q
           S == {i \in D : q[i].kind = "report" /\ q[i].report.broker_id = b}
           w == [i \in D |-> EventShare(b)[q[i]]]
           Along(it) == it = [s \in SUBSET S |-> IF s = {} THEN 0
                              ELSE q[Pick(s)].report.filled_quantity + it[s \ {Pick(s)}]]
<1>0. D = 1 .. Len(q)
  OBVIOUS
<1>1. Delivered(b, q) = (CHOOSE it : Along(it))[S]
  BY DEF Delivered, MapThenSumSet, MapThenFoldSet, Pick
<1>2. \A i \in D : /\ q[i] \in Command \cup ReportEvent
                   /\ w[i] = EventShare(b)[q[i]]
                   /\ w[i] \in Int
                   /\ i \in S => w[i] = q[i].report.filled_quantity
                   /\ i \notin S => w[i] = 0
  <2> SUFFICES ASSUME NEW i \in D
               PROVE  /\ q[i] \in Command \cup ReportEvent
                      /\ w[i] = EventShare(b)[q[i]]
                      /\ w[i] \in Int
                      /\ i \in S => w[i] = q[i].report.filled_quantity
                      /\ i \notin S => w[i] = 0
    OBVIOUS
  <2>1. q[i] \in Command \cup ReportEvent /\ w[i] = EventShare(b)[q[i]]
    OBVIOUS
  <2>2. EventShare(b)[q[i]] \in Nat
    BY <2>1, SharesNat
  <2>3. CASE q[i].kind = "report"
    <3>1. q[i].report \in Reports /\ w[i] = Share(b)[q[i].report]
      BY <2>1, <2>3, SharesNat
    <3> QED
      BY <2>1, <2>2, <2>3, <3>1 DEF Share
  <2>4. CASE q[i].kind # "report"
    BY <2>1, <2>2, <2>4, SharesNat
  <2> QED
    BY <2>3, <2>4
<1>3. \A it : SumsOver(it, w, S) <=> Along(it)
  <2>1. \A s \in SUBSET S : s # {} => w[Pick(s)] = q[Pick(s)].report.filled_quantity
    BY <1>2, PickIn
  <2> HIDE DEF w
  <2> QED
    BY <2>1 DEF SumsOver
<1>4. (CHOOSE it : SumsOver(it, w, S)) = (CHOOSE it : Along(it))
  <2> HIDE DEF Along, S, w
  <2> QED
    BY <1>3
<1>5. Sum(w, S) = (CHOOSE it : SumsOver(it, w, S))[S]
  BY DEF Sum, MapThenSumSet, MapThenFoldSet, SumsOver, Pick
<1>6. Sum(w, D) = Sum(w, S)
  <2>1. S \in SUBSET D /\ \A i \in D \ S : w[i] = 0
    BY <1>2
  <2>2. IsFiniteSet(D)
    BY <1>0, FS_Interval
  <2>3. \A i \in S : w[i] \in Int
    BY <1>2
  <2> HIDE DEF S, D, w
  <2> QED
    BY <2>1, <2>2, <2>3, SumSupport
<1>7. Tally(EventShare(b), q) = Sum(w, D)
  BY <1>0 DEF Tally
<1> QED
  BY <1>1, <1>4, <1>5, <1>6, <1>7

\* What a row contributes to the position of symbol s.
Net(table, s) ==
    [l \in LocalIds |-> IF table[l] # None /\ table[l].order.symbol = s
                        THEN signed_fill(table[l].order.side, table[l].filled_quantity)
                        ELSE 0]

LEMMA IdsFinite == IsFiniteSet(LocalIds) /\ IsFiniteSet(BrokerIds)
BY OrderIdsAssumption, FS_Interval DEF LocalIds, BrokerIds

LEMMA RowTypes ==
    ASSUME NEW table \in Table, NEW l \in LocalIds, table[l] # None
    PROVE  /\ table[l] \in StoredOrder
           /\ table[l].order \in Signals
           /\ table[l].order.symbol \in Symbols
           /\ table[l].order.side \in Sides
           /\ table[l].order.quantity \in Nat
           /\ table[l].filled_quantity \in Nat
           /\ table[l].broker_id \in BrokerIds \cup {None}
<1>1. table[l] \in StoredOrder
  BY DEF Table
<1>2. /\ table[l].order \in Signals
      /\ table[l].filled_quantity \in Nat
      /\ table[l].broker_id \in BrokerIds \cup {None}
  BY <1>1 DEF StoredOrder
<1> QED
  BY <1>1, <1>2, SignalAssumption DEF Signals

LEMMA NetInt ==
    ASSUME NEW table \in Table, NEW s
    PROVE  \A l \in LocalIds : Net(table, s)[l] \in Int
BY RowTypes DEF Net, signed_fill

LEMMA NetFilledIs ==
    ASSUME NEW table \in Table, NEW s
    PROVE  NetFilled(table, s) = Sum(Net(table, s), LocalIds)
<1> DEFINE S == {l \in Stored(table) : table[l].order.symbol = s}
           w == Net(table, s)
           Along(it) == it = [t \in SUBSET S |-> IF t = {} THEN 0
                              ELSE signed_fill(table[Pick(t)].order.side,
                                               table[Pick(t)].filled_quantity)
                                   + it[t \ {Pick(t)}]]
<1>1. NetFilled(table, s) = (CHOOSE it : Along(it))[S]
  BY DEF NetFilled, MapThenSumSet, MapThenFoldSet, Pick
<1>2. S \in SUBSET LocalIds /\ \A l \in LocalIds \ S : w[l] = 0
  BY DEF Stored, Net
<1>3. \A l \in S : /\ w[l] = signed_fill(table[l].order.side, table[l].filled_quantity)
                   /\ w[l] \in Int
  BY NetInt DEF Stored, Net
<1>4. \A it : SumsOver(it, w, S) <=> Along(it)
  <2>1. \A t \in SUBSET S : t # {} =>
            w[Pick(t)] = signed_fill(table[Pick(t)].order.side, table[Pick(t)].filled_quantity)
    BY <1>3, PickIn
  <2> HIDE DEF w, S
  <2> QED
    BY <2>1 DEF SumsOver
<1>5. (CHOOSE it : SumsOver(it, w, S)) = (CHOOSE it : Along(it))
  <2> HIDE DEF Along, S, w
  <2> QED
    BY <1>4
<1>6. Sum(w, S) = (CHOOSE it : SumsOver(it, w, S))[S]
  BY DEF Sum, MapThenSumSet, MapThenFoldSet, SumsOver, Pick
<1>7. Sum(w, LocalIds) = Sum(w, S)
  <2> HIDE DEF S, w
  <2> QED
    BY <1>2, <1>3, IdsFinite, SumSupport
<1> QED
  BY <1>1, <1>5, <1>6, <1>7

\* New rows, new statuses and new broker ids leave the position alone.
LEMMA NetFilledKept ==
    ASSUME NEW table \in Table, NEW new \in Table, NEW s,
           \A l \in LocalIds :
               IF table[l] = None
               THEN new[l] = None \/ new[l].filled_quantity = 0
               ELSE /\ new[l] # None
                    /\ new[l].order = table[l].order
                    /\ new[l].filled_quantity = table[l].filled_quantity
    PROVE  NetFilled(new, s) = NetFilled(table, s)
<1>1. \A l \in LocalIds : Net(new, s)[l] = Net(table, s)[l]
  BY DEF Net, signed_fill
<1>2. Sum(Net(new, s), LocalIds) = Sum(Net(table, s), LocalIds)
  BY <1>1, IdsFinite, SumSame
<1> QED
  BY <1>2, NetFilledIs

\* A fill moves the position of its symbol by its signed quantity.
LEMMA NetFilledMoved ==
    ASSUME NEW table \in Table, NEW new \in Table, NEW s, NEW l \in LocalIds, NEW qty \in Nat,
           table[l] # None, new[l] # None, new[l].order = table[l].order,
           new[l].filled_quantity = table[l].filled_quantity + qty,
           \A k \in LocalIds \ {l} : new[k] = table[k]
    PROVE  /\ NetFilled(table, s) \in Int
           /\ NetFilled(new, s) =
                  NetFilled(table, s) + IF table[l].order.symbol = s
                                        THEN signed_fill(table[l].order.side, qty) ELSE 0
<1>1. /\ \A k \in LocalIds : Net(table, s)[k] \in Int /\ Net(new, s)[k] \in Int
      /\ \A k \in LocalIds \ {l} : Net(table, s)[k] = Net(new, s)[k]
  <2>1. \A k \in LocalIds \ {l} : Net(table, s)[k] = Net(new, s)[k]
    BY DEF Net
  <2> QED
    BY <2>1, NetInt
<1>2. /\ Sum(Net(new, s), LocalIds) =
             Sum(Net(table, s), LocalIds) - Net(table, s)[l] + Net(new, s)[l]
      /\ Sum(Net(table, s), LocalIds) \in Int
  <2> DEFINE S == LocalIds
             w == Net(table, s)
             v == Net(new, s)
  <2>1. /\ IsFiniteSet(S) /\ l \in S
        /\ \A y \in S : w[y] \in Int /\ v[y] \in Int
        /\ \A y \in S \ {l} : w[y] = v[y]
    BY <1>1, IdsFinite
  <2> HIDE DEF S, w, v
  <2>2. Sum(v, S) = Sum(w, S) - w[l] + v[l] /\ Sum(w, S) \in Int
    BY <2>1, SumChange
  <2> QED
    BY <2>2 DEF S, w, v
<1>3. Net(new, s)[l] - Net(table, s)[l] =
          IF table[l].order.symbol = s THEN signed_fill(table[l].order.side, qty) ELSE 0
  <2>1. table[l].filled_quantity \in Nat /\ new[l].filled_quantity \in Nat
    BY RowTypes
  <2> QED
    BY <2>1 DEF Net, signed_fill
<1>4. Net(new, s)[l] \in Int /\ Net(table, s)[l] \in Int
  BY <1>1
<1> QED
  BY <1>2, <1>3, <1>4, NetFilledIs

------------------------------------------------------------------------------
(* Trading while the store does not fail.                                   *)

\* The reports on their way from the simulation to the dispatch thread.
InTransit ==
    generated_fills_ \cup {reports_queue_[i] : i \in 1 .. Len(reports_queue_)}
        \cup {queue_[i].report : i \in {j \in 1 .. Len(queue_) : queue_[j].kind = "report"}}

\* A report is a plain fill of an order the gateway has accepted, on the terms
\* of the row that order is mapped to, and not empty if it left some to fill.
IsPlain(r) ==
    /\ r.status = "NONE"
    /\ r.broker_id < broker_count
    /\ pending_orders_[r.broker_id] # None => r.filled_quantity >= 1
    /\ \A l \in LocalIds :
           get_broker_id(id_mapper_, l) = r.broker_id =>
               /\ order_store_[l].order.symbol = r.symbol
               /\ order_store_[l].order.side = r.side

ReportsArePlain == \A r \in InTransit : IsPlain(r)

\* The open rows are those of the tracked orders, each with the broker id it is
\* tracked under; no two rows have the same broker id.
RowsAreLinked ==
    \A l \in LocalIds :
        order_store_[l] # None =>
            /\ order_store_[l].status \in OpenStatus =>
                   /\ IsMapped(l)
                   /\ order_store_[l].broker_id = get_broker_id(id_mapper_, l)
            /\ order_store_[l].broker_id # None =>
                   /\ order_store_[l].broker_id < broker_count
                   /\ \A k \in LocalIds :
                          /\ order_store_[k] # None
                          /\ order_store_[k].broker_id = order_store_[l].broker_id
                          => k = l

\* An order still pending has something left to fill.
NothingIsOverfilled ==
    \A b \in Pending : \/ pending_orders_[b].cumulative_filled = 0
                       \/ pending_orders_[b].cumulative_filled < pending_orders_[b].order.quantity

\* The fills of every tracked order add up.
FillsAddUp ==
    \A l \in Mapped :
        order_store_[l].filled_quantity + InFlight(get_broker_id(id_mapper_, l))
            = Executed(get_broker_id(id_mapper_, l))

\* The journal speaks of no order that is still to come.
JournalIsBehind == \A e \in journal_ : e[2] # None => e[2] < id_generator_

TradeInv ==
    /\ LifeInv
    /\ GatewayInv
    /\ RowsAreLinked
    /\ LiveOrdersAreTracked
    /\ NothingIsOverfilled
    /\ ReportsArePlain
    /\ FillsAddUp
    /\ StreamNeverAhead
    /\ PositionMatchesStore
    /\ AuditTrail
    /\ JournalIsBehind

------------------------------------------------------------------------------
(* What a command does.  It closes the tracked orders `gone' and, if `new'   *)
(* is not None, opens an order under that id and the next broker id.         *)

RowsEffect(gone, new) ==
    \A l \in LocalIds :
        IF l \in gone
        THEN /\ order_store_'[l] # None
             /\ order_store_'[l].status \in {"CANCELLED", "REPLACED"}
             /\ order_store_'[l].order = order_store_[l].order
             /\ order_store_'[l].filled_quantity = order_store_[l].filled_quantity
             /\ order_store_'[l].broker_id = order_store_[l].broker_id
        ELSE IF l = id_generator_
        THEN /\ order_store_[l] = None
             /\ \/ new = None /\ order_store_'[l] = None
                \/ /\ order_store_'[l] # None
                   /\ order_store_'[l].filled_quantity = 0
                   /\ \/ /\ new = None
                         /\ order_store_'[l].status = "REJECTED"
                         /\ order_store_'[l].broker_id = None
                      \/ /\ new = l
                         /\ order_store_'[l].status = "SUBMITTED"
                         /\ order_store_'[l].broker_id = broker_count
        ELSE order_store_'[l] = order_store_[l]

MapEffect(gone, new) ==
    \A l \in LocalIds :
        get_broker_id(id_mapper_, l)' = IF l = new THEN broker_count
                                        ELSE IF l \in gone THEN None
                                        ELSE get_broker_id(id_mapper_, l)

PendingEffect(gone, new) ==
    \A b \in BrokerIds :
        pending_orders_'[b] =
            IF new # None /\ b = broker_count
            THEN [order |-> order_store_'[new].order, cumulative_filled |-> 0]
            ELSE IF \E l \in gone : get_broker_id(id_mapper_, l) = b THEN None
            ELSE pending_orders_[b]

\* The entries that tell how an order fared.
Story == {"ORDER_FILLED", "ORDER_PARTIALLY_FILLED", "ORDER_CANCELLED", "ORDER_REJECTED",
          "ORDER_SUBMITTED"}

JournalEffect(gone) ==
    /\ \A l \in LocalIds, e \in Story :
           order_store_'[l] # None =>
               (<<e, l>> \in journal_' <=>
                    \/ <<e, l>> \in journal_
                    \/ /\ l \in gone
                       /\ e = "ORDER_CANCELLED"
                       /\ order_store_'[l].status = "CANCELLED"
                    \/ /\ l = id_generator_
                       /\ e = IF order_store_'[l].status = "REJECTED" THEN "ORDER_REJECTED"
                                                                      ELSE "ORDER_SUBMITTED")
    /\ JournalIsBehind'

CommandEffect(gone, new) ==
    /\ gone \subseteq Mapped
    /\ new \in {None, id_generator_}
    /\ new # None => id_generator_ \in LocalIds /\ broker_count \in BrokerIds
    /\ broker_count' = IF new = None THEN broker_count ELSE broker_count + 1
    /\ RowsEffect(gone, new)
    /\ MapEffect(gone, new)
    /\ PendingEffect(gone, new)
    /\ JournalEffect(gone)
    /\ queue_ # <<>>
    /\ event.kind # "report"
    /\ queue_' = Tail(queue_)
    /\ UNCHANGED <<generated_fills_, reports_queue_, positions_, streamed>>

\* What the linked rows say of a tracked order.
LEMMA Linked ==
    ASSUME LifeInv, RowsAreLinked
    PROVE  /\ None \notin LocalIds /\ None \notin BrokerIds
           /\ id_generator_ \in Int /\ broker_count \in Int
           /\ \A l \in LocalIds : l \in Int /\ (l \in Mapped <=> IsMapped(l))
           /\ \A l \in LocalIds : get_broker_id(id_mapper_, l) \in BrokerIds \cup {None}
           /\ \A l \in Mapped : /\ l \in LocalIds
                                /\ l < id_generator_
                                /\ order_store_[l] # None
                                /\ order_store_[l] \in StoredOrder
                                /\ order_store_[l].status \in {"SUBMITTED", "PARTIALLY_FILLED"}
                                /\ order_store_[l].broker_id = get_broker_id(id_mapper_, l)
                                /\ get_broker_id(id_mapper_, l) \in BrokerIds
                                /\ get_broker_id(id_mapper_, l) < broker_count
                                /\ get_local_id(id_mapper_, get_broker_id(id_mapper_, l)) = l
           /\ \A l \in LocalIds : l >= id_generator_ =>
                                      order_store_[l] = None /\ l \notin Mapped
           /\ get_open_orders(order_store_) = Mapped
           /\ Reachable({}) = Mapped
<1>1. None \notin LocalIds /\ None \notin BrokerIds /\ \A l \in LocalIds : l \in Int
  BY OrderIdsAssumption DEF LocalIds, BrokerIds
<1>2. /\ id_generator_ \in Int /\ broker_count \in Int
      /\ id_mapper_ \in Mapper /\ order_store_ \in Table
  BY OrderIdsAssumption DEF LifeInv, TrackingInv, TypeOK
<1>3. \A l \in LocalIds : get_broker_id(id_mapper_, l) \in BrokerIds \cup {None}
  BY <1>2 DEF Mapper, get_broker_id
<1>4. \A l \in LocalIds : l \in Mapped <=> IsMapped(l)
  BY DEF Mapped
<1>5. ASSUME NEW l \in Mapped
      PROVE  /\ l \in LocalIds
             /\ l < id_generator_
             /\ order_store_[l] # None
             /\ order_store_[l] \in StoredOrder
             /\ order_store_[l].status \in {"SUBMITTED", "PARTIALLY_FILLED"}
             /\ order_store_[l].broker_id = get_broker_id(id_mapper_, l)
             /\ get_broker_id(id_mapper_, l) \in BrokerIds
             /\ get_broker_id(id_mapper_, l) < broker_count
             /\ get_local_id(id_mapper_, get_broker_id(id_mapper_, l)) = l
  <2>1. l \in LocalIds /\ IsMapped(l)
    BY DEF Mapped
  <2>2. get_broker_id(id_mapper_, l) \in BrokerIds
    BY <1>3, <2>1 DEF IsMapped
  <2>3. l < id_generator_ /\ get_broker_id(id_mapper_, l) < broker_count
    BY <2>1 DEF LifeInv, TrackingInv, IdsIssued
  <2>4. get_local_id(id_mapper_, get_broker_id(id_mapper_, l)) = l
    BY <2>1, <2>2 DEF LifeInv, TrackingInv, MapperInverse
  <2>5. /\ order_store_[l] # None
        /\ order_store_[l].status \in {"SUBMITTED", "PARTIALLY_FILLED"}
    BY DEF LifeInv, TrackingInv, MappedOrdersAreOpen
  <2>6. order_store_[l] \in StoredOrder
    BY <1>2, <2>1, <2>5 DEF Table
  <2>7. order_store_[l].broker_id = get_broker_id(id_mapper_, l)
    BY <2>1, <2>5 DEF RowsAreLinked, OpenStatus
  <2> QED
    BY <2>1, <2>2, <2>3, <2>4, <2>5, <2>6, <2>7
<1>6. \A l \in LocalIds : l >= id_generator_ => order_store_[l] = None /\ l \notin Mapped
  BY <1>1, <1>2, <1>4 DEF LifeInv, TrackingInv, IdsIssued
<1>7. get_open_orders(order_store_) = Mapped
  BY <1>4, <1>5 DEF get_open_orders, Stored, OpenStatus, RowsAreLinked
<1>8. Reachable({}) = Mapped
  BY <1>1, <1>5, <1>7 DEF Reachable
<1> QED
  BY <1>1, <1>2, <1>3, <1>4, <1>5, <1>6, <1>7, <1>8

\* A command that closes and opens nothing: it is refused, or ends before the
\* gateway has accepted anything.
LEMMA NothingOpened ==
    ASSUME TradeInv, NEW kind, kind # "report", Dispatch(kind), UNCHANGED gatewayVars,
           UNCHANGED <<id_mapper_, broker_count, positions_, streamed>>,
           RowsEffect({}, None), JournalEffect({})
    PROVE  CommandEffect({}, None)
<1>1. None \notin LocalIds
  BY Linked DEF TradeInv
<1>2. MapEffect({}, None)
  BY <1>1 DEF MapEffect
<1>3. PendingEffect({}, None)
  BY DEF PendingEffect, gatewayVars
<1> QED
  BY <1>2, <1>3 DEF CommandEffect, Dispatch, gatewayVars

LEMMA RefusedEffect ==
    ASSUME TradeInv, NEW kind, kind # "report", Refuse(kind), UNCHANGED gatewayVars
    PROVE  CommandEffect({}, None)
<1>1. RowsEffect({}, None)
  BY Linked DEF TradeInv, Refuse, RowsEffect
<1>2. JournalEffect({})
  BY Linked DEF TradeInv, Refuse, JournalEffect, JournalIsBehind
<1> QED
  BY <1>1, <1>2, NothingOpened DEF Refuse

\* No two rows have one broker id because the gateway's next one is new.
LEMMA NextBrokerIsFree ==
    ASSUME LifeInv, RowsAreLinked, NEW table \in Table, NEW local_id \in LocalIds,
           \A l \in LocalIds \ {local_id} :
               table[l] # None => /\ order_store_[l] # None
                                  /\ table[l].broker_id = order_store_[l].broker_id
    PROVE  BrokerIdFree(table, local_id, broker_count)
<1>1. broker_count \in Int
  BY Linked
<1> SUFFICES ASSUME NEW l \in Stored(table) \ {local_id}
             PROVE  table[l].broker_id # broker_count
  BY DEF BrokerIdFree
<1>2. l \in LocalIds /\ order_store_[l] # None /\ table[l].broker_id = order_store_[l].broker_id
  BY DEF Stored
<1>3. order_store_[l].broker_id # None => order_store_[l].broker_id < broker_count
  BY <1>2 DEF RowsAreLinked
<1>4. broker_count # None
  BY OrderIdsAssumption DEF LifeInv, TrackingInv, TypeOK
<1> QED
  BY <1>1, <1>2, <1>3, <1>4

\* Writing the first row of the fresh id cannot fail by itself.
LEMMA FreshRow ==
    ASSUME TradeInv, Dispatch("submit"), id_generator_ < MaxOrders
    PROVE  /\ id_generator_ \in LocalIds
           /\ order_store_[id_generator_] = None
           /\ PendingRow \in StoredOrder
           /\ PendingRow # None
           /\ PendingRow.order = event.signal
           /\ PendingRow.status = "PENDING_SUBMISSION"
           /\ PendingRow.broker_id = None
           /\ PendingRow.filled_quantity = 0
           /\ WithPendingRow \in Table
           /\ WithPendingRow[id_generator_] = PendingRow
           /\ \A l \in LocalIds \ {id_generator_} : WithPendingRow[l] = order_store_[l]
           /\ ~StoreOrderFails({})
<1>1. /\ id_generator_ \in LocalIds
      /\ PendingRow # None
      /\ WithPendingRow[id_generator_] = PendingRow
      /\ \A l \in LocalIds \ {id_generator_} : WithPendingRow[l] = order_store_[l]
  BY SubmitRows DEF TradeInv, LifeInv
<1>2. PendingRow \in StoredOrder /\ WithPendingRow \in Table
  BY SubmitContext DEF TradeInv, LifeInv, TrackingInv
<1>3. order_store_[id_generator_] = None
  BY <1>1, Linked DEF TradeInv
<1>4. /\ PendingRow.order = event.signal
      /\ PendingRow.status = "PENDING_SUBMISSION"
      /\ PendingRow.broker_id = None
      /\ PendingRow.filled_quantity = 0
  BY DEF PendingRow, NewRow
<1>5. ~StoreOrderFails({})
  BY <1>3, <1>4 DEF StoreOrderFails, CanStore, BrokerIdFree
<1> QED
  BY <1>1, <1>2, <1>3, <1>4, <1>5

\* The entries of a submission.
LEMMA SubmittingJournal ==
    ASSUME TradeInv, Dispatch("submit"), id_generator_ \in LocalIds,
           NEW e \in {"ORDER_REJECTED", "ORDER_SUBMITTED"},
           Submitting({<<e, id_generator_>>}),
           order_store_'[id_generator_] # None,
           e = IF order_store_'[id_generator_].status = "REJECTED" THEN "ORDER_REJECTED"
                                                                   ELSE "ORDER_SUBMITTED"
    PROVE  JournalEffect({})
<1>1. /\ journal_' = journal_ \cup {<<"ORDER_CREATED", id_generator_>>, <<e, id_generator_>>}
      /\ id_generator_' = id_generator_ + 1
  BY DEF Submitting, log, generate
<1>2. id_generator_ \in Int /\ None \notin LocalIds
  BY Linked DEF TradeInv
<1>3. JournalIsBehind'
  <2> SUFFICES ASSUME NEW x \in journal_', x[2] # None PROVE x[2] < id_generator_'
    BY DEF JournalIsBehind
  <2>1. CASE x \in journal_
    <3>1. x[2] < id_generator_ /\ x[2] \in LocalIds
      BY <2>1 DEF TradeInv, JournalIsBehind, LifeInv, TrackingInv, TypeOK
    <3>2. x[2] \in Int
      BY <3>1, Linked DEF TradeInv
    <3> QED
      BY <1>1, <1>2, <3>1, <3>2
  <2>2. CASE x \notin journal_
    <3>1. x[2] = id_generator_
      BY <1>1, <2>2
    <3> QED
      BY <1>1, <1>2, <3>1
  <2> QED
    BY <2>1, <2>2
<1>4. \A l \in LocalIds, s \in Story :
          <<s, l>> \in journal_' <=> <<s, l>> \in journal_ \/ (l = id_generator_ /\ s = e)
  BY <1>1 DEF Story
<1> QED
  BY <1>3, <1>4 DEF JournalEffect

LEMMA SubmitEffect ==
    ASSUME TradeInv, FaultyCalls = {}, NEW fail \in SUBSET SubmitFaults, PaperSubmit(fail)
    PROVE  CommandEffect({}, None) \/ CommandEffect({}, id_generator_)
<1> DEFINE o == id_generator_
<1>1. fail = {}
  BY DEF SubmitFaults
<1>2. ~SubmitNotStored(fail) /\ \A b : ~SubmitNotRecorded(fail, b)
  <2>1. ASSUME SubmitNotStored(fail) PROVE FALSE
    <3>1. Dispatch("submit") /\ id_generator_ < MaxOrders
      BY <2>1 DEF SubmitNotStored, Submitting
    <3> QED
      BY <1>1, <2>1, <3>1, FreshRow DEF SubmitNotStored
  <2> QED
    BY <1>1, <2>1 DEF SubmitNotRecorded
<1>3. CASE Dispatch("submit") /\ RecordRejection(fail) /\ UNCHANGED gatewayVars
  <2>1. /\ Submitting({<<"ORDER_REJECTED", o>>})
        /\ order_store_' = update_order_status(WithPendingRow, o, "REJECTED")
        /\ UNCHANGED <<id_mapper_, broker_count>>
    BY <1>1, <1>3 DEF RecordRejection, ErrorIf
  <2>2. o < MaxOrders /\ UNCHANGED <<positions_, streamed>>
    BY <2>1 DEF Submitting
  <2>3. /\ order_store_'[o] = [PendingRow EXCEPT !.status = "REJECTED"]
        /\ \A l \in LocalIds \ {o} : order_store_'[l] = order_store_[l]
    BY <1>3, <2>1, <2>2, FreshRow DEF update_order_status, update_order_statuses
  <2>4. /\ order_store_'[o] # None
        /\ order_store_'[o].status = "REJECTED"
        /\ order_store_'[o].filled_quantity = 0
        /\ order_store_'[o].broker_id = None
    BY <1>3, <2>2, <2>3, FreshRow, RestatusedRow DEF OrderStatus
  <2>5. RowsEffect({}, None)
    BY <1>3, <2>2, <2>3, <2>4, FreshRow DEF RowsEffect
  <2>6. JournalEffect({})
    BY <1>3, <2>1, <2>2, <2>4, FreshRow, SubmittingJournal
  <2> QED
    BY <1>3, <2>1, <2>2, <2>5, <2>6, NothingOpened
<1>4. ASSUME NEW b \in BrokerIds, SubmitAccepted(fail, b), submit_order(event.signal, b)
      PROVE  CommandEffect({}, o)
  <2> DEFINE submitted == update_order_status(WithPendingRow, o, "SUBMITTED")
  <2>1. Dispatch("submit") /\ o < MaxOrders
    BY <1>4 DEF SubmitAccepted, Submitting
  <2>2. /\ submitted[o] = [PendingRow EXCEPT !.status = "SUBMITTED"]
        /\ \A l \in LocalIds \ {o} : submitted[l] = order_store_[l]
        /\ submitted \in Table
    <3>1. submitted \in Table
      BY <2>1, FreshRow, StoreStatementsType DEF OrderStatus
    <3> QED
      BY <2>1, <3>1, FreshRow DEF update_order_status, update_order_statuses
  <2>3. /\ submitted[o] # None
        /\ submitted[o].status = "SUBMITTED"
        /\ submitted[o].order = event.signal
        /\ submitted[o].filled_quantity = 0
    <3> HIDE DEF submitted
    <3>1. PendingRow \in StoredOrder /\ "SUBMITTED" \in OrderStatus
      BY <2>1, FreshRow DEF OrderStatus
    <3>2. /\ [PendingRow EXCEPT !.status = "SUBMITTED"] # None
          /\ [PendingRow EXCEPT !.status = "SUBMITTED"].status = "SUBMITTED"
          /\ [PendingRow EXCEPT !.status = "SUBMITTED"].order = PendingRow.order
          /\ [PendingRow EXCEPT !.status = "SUBMITTED"].filled_quantity =
                 PendingRow.filled_quantity
      BY <3>1, RestatusedRow
    <3> QED
      BY <2>1, <2>2, <3>2, FreshRow
  <2>4. BrokerIdFree(submitted, o, broker_count)
    <3> HIDE DEF submitted
    <3>1. \A l \in LocalIds \ {o} :
              submitted[l] # None => /\ order_store_[l] # None
                                     /\ submitted[l].broker_id = order_store_[l].broker_id
      BY <2>2
    <3>2. o \in LocalIds
      BY <2>1, FreshRow
    <3> QED
      BY <2>2, <3>1, <3>2, NextBrokerIsFree DEF TradeInv
  <2>5. /\ b = broker_count
        /\ broker_count' = broker_count + 1
        /\ Submitting({<<"ORDER_SUBMITTED", o>>})
        /\ id_mapper_' = add_mapping(id_mapper_, o, b)
        /\ order_store_' = update_broker_id(submitted, o, b)
    BY <1>1, <1>4, <2>4 DEF SubmitAccepted, ErrorIf
  <2> HIDE DEF submitted
  <2>6. o \in LocalIds
    BY <2>1, FreshRow
  <2>7. /\ order_store_'[o] = [submitted[o] EXCEPT !.broker_id = b]
        /\ \A l \in LocalIds \ {o} : order_store_'[l] = order_store_[l]
    BY <2>2, <2>3, <2>5, <2>6 DEF update_broker_id
  <2>8. /\ order_store_'[o] # None
        /\ order_store_'[o].status = "SUBMITTED"
        /\ order_store_'[o].order = event.signal
        /\ order_store_'[o].filled_quantity = 0
        /\ order_store_'[o].broker_id = broker_count
    <3>1. submitted[o] \in StoredOrder
      BY <2>2, <2>3, <2>6 DEF Table
    <3>2. order_store_'[o] \in StoredOrder
      BY <2>7, <3>1 DEF StoredOrder
    <3> QED
      BY <2>3, <2>5, <2>7, <3>1, <3>2, NoneIsNotARow DEF StoredOrder
  <2>9. RowsEffect({}, o)
    BY <2>1, <2>7, <2>8, FreshRow DEF RowsEffect
  <2>10. JournalEffect({})
    BY <2>1, <2>5, <2>6, <2>8, SubmittingJournal
  <2>11. None \notin LocalIds
    BY Linked DEF TradeInv
  <2>12. MapEffect({}, o)
    <3>1. id_mapper_ \in Mapper
      BY DEF TradeInv, LifeInv, TrackingInv, TypeOK
    <3> QED
      BY <2>5, <2>6, <3>1 DEF MapEffect, add_mapping, get_broker_id, Mapper
  <2>13. PendingEffect({}, o)
    <3>1. pending_orders_ \in [BrokerIds -> SimulatedOrder \cup {None}]
      BY DEF TradeInv, GatewayInv, GatewayTypeOK
    <3>2. pending_orders_' = accept(pending_orders_, b, event.signal)
      BY <1>4 DEF submit_order
    <3> QED
      BY <2>5, <2>6, <2>8, <2>11, <3>1, <3>2 DEF PendingEffect, accept
  <2>14. UNCHANGED <<generated_fills_, reports_queue_, positions_, streamed>>
    BY <1>4, <2>5 DEF submit_order, KeepThreads, Submitting
  <2> QED
    BY <2>1, <2>5, <2>6, <2>9, <2>10, <2>11, <2>12, <2>13, <2>14 DEF CommandEffect, Dispatch
<1> QED
  BY <1>2, <1>3, <1>4 DEF PaperSubmit, SubmitRefusedByRisk, SubmitRejectedByGateway

LEMMA BehindKept ==
    ASSUME TradeInv, NEW entries, journal_' = journal_ \cup entries,
           id_generator_' \in {id_generator_, id_generator_ + 1},
           \A x \in entries : x[2] # None => x[2] < id_generator_'
    PROVE  JournalIsBehind'
<1> SUFFICES ASSUME NEW x \in journal_', x[2] # None PROVE x[2] < id_generator_'
  BY DEF JournalIsBehind
<1>1. CASE x \in journal_
  <2>1. x[2] < id_generator_ /\ x[2] \in LocalIds
    BY <1>1 DEF TradeInv, JournalIsBehind, LifeInv, TrackingInv, TypeOK
  <2>2. x[2] \in Int /\ id_generator_ \in Int
    BY <2>1, Linked DEF TradeInv
  <2> QED
    BY <2>1, <2>2
<1>2. CASE x \in entries
  BY <1>2
<1> QED
  BY <1>1, <1>2

\* The mapper after the orders of `gone' were forgotten.
LEMMA ForgottenEffect ==
    ASSUME TradeInv, NEW gone \in SUBSET Mapped,
           id_mapper_' = remove_mappings(id_mapper_, gone)
    PROVE  MapEffect(gone, None)
<1>1. None \notin LocalIds
  BY Linked DEF TradeInv
<1> QED
  BY <1>1 DEF MapEffect, remove_mappings, get_broker_id

\* A tracked order that a statement gives a final status.
LEMMA ClosedRow ==
    ASSUME TradeInv, NEW l \in Mapped, NEW s \in OrderStatus
    PROVE  LET table == update_order_status(order_store_, l, s)
           IN  /\ table \in Table
               /\ table[l] # None
               /\ table[l].status = s
               /\ table[l].order = order_store_[l].order
               /\ table[l].filled_quantity = order_store_[l].filled_quantity
               /\ table[l].broker_id = order_store_[l].broker_id
               /\ \A k \in LocalIds \ {l} : table[k] = order_store_[k]
<1> DEFINE table == update_order_status(order_store_, l, s)
<1>1. l \in LocalIds /\ order_store_[l] # None /\ order_store_[l] \in StoredOrder
  BY Linked DEF TradeInv
<1>2. /\ table[l] = [order_store_[l] EXCEPT !.status = s]
      /\ \A k \in LocalIds \ {l} : table[k] = order_store_[k]
  BY <1>1 DEF update_order_status, update_order_statuses
<1>3. table \in Table
  BY <1>1, StoreStatementsType DEF TradeInv, LifeInv, TrackingInv, TypeOK
<1> HIDE DEF table
<1>4. /\ table[l] # None
      /\ table[l].status = s
      /\ table[l].order = order_store_[l].order
      /\ table[l].filled_quantity = order_store_[l].filled_quantity
      /\ table[l].broker_id = order_store_[l].broker_id
  BY <1>1, <1>2, RestatusedRow
<1> QED
  BY <1>2, <1>3, <1>4 DEF table

LEMMA CancelEffect ==
    ASSUME TradeInv, FaultyCalls = {}, NEW fail \in SUBSET CancelFaults, PaperCancel(fail)
    PROVE  \E gone \in SUBSET Mapped : CommandEffect(gone, None)
<1> DEFINE l == event.order_id
<1>1. fail = {}
  BY DEF CancelFaults
<1>2. CASE CancelUnknown /\ UNCHANGED gatewayVars
  <2>1. CommandEffect({}, None)
    BY <1>2, RefusedEffect DEF CancelUnknown
  <2> QED
    BY <2>1
<1>3. CASE CancelDone(fail) /\ cancel_orders({get_broker_id(id_mapper_, l)})
  <2>1. Dispatch("cancel") /\ Cancelling({})
    BY <1>3 DEF CancelDone
  <2>2. l \in LocalIds /\ l \in Mapped
    <3>1. l \in LocalIds
      BY <2>1, EventType DEF CancelCommand, TradeInv, LifeInv, TrackingInv
    <3> QED
      BY <2>1, <3>1 DEF Cancelling, Mapped
  <2>3. /\ order_store_' = update_order_status(order_store_, l, "CANCELLED")
        /\ journal_' = journal_ \cup {<<"ORDER_CANCELLED", l>>}
        /\ id_mapper_' = remove_mappings(id_mapper_, {l})
        /\ UNCHANGED <<id_generator_, positions_, streamed, broker_count>>
    BY <1>3, <2>1 DEF CancelDone, Cancelling, log, remove_mapping
  <2>4. /\ None \notin LocalIds
        /\ l < id_generator_
        /\ \A k \in Mapped : k < id_generator_ /\ k \in LocalIds
        /\ \A k \in LocalIds : k >= id_generator_ => order_store_[k] = None
        /\ id_generator_ \in Int
    BY <2>2, Linked DEF TradeInv
  <2> HIDE DEF l
  <2>5. /\ order_store_'[l] # None
        /\ order_store_'[l].status = "CANCELLED"
        /\ order_store_'[l].order = order_store_[l].order
        /\ order_store_'[l].filled_quantity = order_store_[l].filled_quantity
        /\ order_store_'[l].broker_id = order_store_[l].broker_id
        /\ \A k \in LocalIds \ {l} : order_store_'[k] = order_store_[k]
    BY <2>2, <2>3, ClosedRow DEF OrderStatus
  <2>6. RowsEffect({l}, None)
    BY <2>4, <2>5 DEF RowsEffect
  <2>7. MapEffect({l}, None)
    BY <2>2, <2>3, ForgottenEffect
  <2>8. PendingEffect({l}, None)
    BY <1>3 DEF PendingEffect, cancel_orders, erase, l
  <2>9. JournalEffect({l})
    <3>1. JournalIsBehind'
      <4> DEFINE entries == {<<"ORDER_CANCELLED", l>>}
      <4>1. journal_' = journal_ \cup entries
        BY <2>3
      <4>2. \A x \in entries : x[2] # None => x[2] < id_generator_'
        BY <2>3, <2>4
      <4> HIDE DEF entries
      <4> QED
        BY <2>3, <4>1, <4>2, BehindKept
    <3>2. \A k \in LocalIds : order_store_'[k] # None => k # id_generator_
      BY <2>4, <2>5
    <3> QED
      BY <2>3, <2>5, <3>1, <3>2 DEF JournalEffect, Story
  <2>10. CommandEffect({l}, None)
    BY <1>3, <2>1, <2>2, <2>3, <2>6, <2>7, <2>8, <2>9
    DEF CommandEffect, Dispatch, cancel_orders, KeepThreads
  <2> QED
    BY <2>2, <2>10
<1>4. ~CancelNotRecorded(fail)
  BY <1>1 DEF CancelNotRecorded
<1> QED
  BY <1>2, <1>3, <1>4 DEF PaperCancel

\* The entries of a replacement, but for those of its order.
LEMMA ReplacingJournal ==
    ASSUME TradeInv, id_generator_ \in LocalIds,
           NEW e, Replacing({<<e, id_generator_>>})
    PROVE  /\ journal_' = journal_ \cup {<<"ORDER_REPLACED", id_generator_>>, <<e, id_generator_>>}
           /\ JournalIsBehind'
<1> DEFINE entries == {<<"ORDER_REPLACED", id_generator_>>, <<e, id_generator_>>}
<1>1. journal_' = journal_ \cup entries /\ id_generator_' = id_generator_ + 1
  BY DEF Replacing, log, generate
<1>2. \A x \in entries : x[2] # None => x[2] < id_generator_'
  BY <1>1, Linked DEF TradeInv
<1>3. JournalIsBehind'
  <2> HIDE DEF entries
  <2> QED
    BY <1>1, <1>2, BehindKept
<1> QED
  BY <1>1, <1>3

\* A replacement that the gateway accepts.
LEMMA ReplaceDoneEffect ==
    ASSUME TradeInv, NEW b \in BrokerIds, ReplaceDone({}, b),
           replace_order(get_broker_id(id_mapper_, event.order_id), event.signal, b)
    PROVE  CommandEffect({event.order_id}, id_generator_)
<1> DEFINE o == id_generator_
           l == event.order_id
           row == ReplacementRow(b)
<1>1. Dispatch("replace") /\ Replacing({<<"ORDER_SUBMITTED", o>>})
  BY DEF ReplaceDone
<1>2. o \in LocalIds /\ o \in Int /\ l \in LocalIds /\ l \in Mapped /\ event.signal \in Signals
  <2>1. l \in LocalIds /\ event.signal \in Signals
    BY <1>1, EventType DEF ReplaceCommand, TradeInv, LifeInv, TrackingInv
  <2>2. o < MaxOrders
    BY <1>1 DEF Replacing
  <2>3. o \in LocalIds /\ o \in Int
    BY <2>2, OrderIdsAssumption DEF LocalIds, TradeInv, LifeInv, TrackingInv, TypeOK
  <2> QED
    BY <1>1, <2>1, <2>3 DEF Replacing, Mapped
<1>3. /\ None \notin LocalIds
      /\ l # o
      /\ order_store_[o] = None
      /\ \A k \in Mapped : k # o
  BY <1>2, Linked DEF TradeInv
<1>4. /\ ReplacedTable \in Table
      /\ ReplacedTable[l] # None
      /\ ReplacedTable[l].status = "REPLACED"
      /\ ReplacedTable[l].order = order_store_[l].order
      /\ ReplacedTable[l].filled_quantity = order_store_[l].filled_quantity
      /\ ReplacedTable[l].broker_id = order_store_[l].broker_id
      /\ \A k \in LocalIds \ {l} : ReplacedTable[k] = order_store_[k]
  BY <1>2, ClosedRow DEF ReplacedTable, OrderStatus
<1>5. /\ row # None
      /\ row.status = "SUBMITTED"
      /\ row.order = event.signal
      /\ row.filled_quantity = 0
      /\ row.broker_id = b
  <2>1. row \in StoredOrder
    BY <1>2, NewRowType DEF ReplacementRow, OrderStatus
  <2> QED
    BY <2>1, NoneIsNotARow DEF ReplacementRow, NewRow
<1>6. /\ b = broker_count
      /\ broker_count' = broker_count + 1
      /\ id_mapper_' = add_mapping(remove_mappings(id_mapper_, {l}), o, b)
      /\ order_store_' = [ReplacedTable EXCEPT ![o] = row]
  BY DEF ReplaceDone, remove_mapping, store_order
<1>7. UNCHANGED <<positions_, streamed, generated_fills_, reports_queue_>>
  BY <1>1 DEF Replacing, replace_order, KeepThreads
<1> HIDE DEF l, row
<1>8. /\ order_store_'[o] = row
      /\ order_store_'[l] = ReplacedTable[l]
      /\ \A k \in LocalIds \ {l, o} : order_store_'[k] = order_store_[k]
  BY <1>2, <1>3, <1>4, <1>6 DEF Table
<1>9. RowsEffect({l}, o)
  BY <1>2, <1>3, <1>4, <1>5, <1>6, <1>8 DEF RowsEffect
<1>10. MapEffect({l}, o)
  <2>1. id_mapper_ \in Mapper
    BY DEF TradeInv, LifeInv, TrackingInv, TypeOK
  <2> QED
    BY <1>2, <1>3, <1>6, <2>1
    DEF MapEffect, add_mapping, remove_mappings, get_broker_id, Mapper
<1>11. PendingEffect({l}, o)
  <2>1. pending_orders_' = accept(erase(pending_orders_, {get_broker_id(id_mapper_, l)}), b,
                                  event.signal)
    BY DEF replace_order, l
  <2> QED
    BY <1>2, <1>3, <1>5, <1>6, <1>8, <2>1 DEF PendingEffect, accept, erase
<1>12. JournalEffect({l})
  <2>1. /\ journal_' = journal_ \cup {<<"ORDER_REPLACED", o>>, <<"ORDER_SUBMITTED", o>>}
        /\ JournalIsBehind'
    BY <1>1, <1>2, ReplacingJournal
  <2> QED
    BY <1>3, <1>4, <1>5, <1>8, <2>1 DEF JournalEffect, Story
<1>13. /\ queue_ # <<>> /\ event.kind # "report" /\ queue_' = Tail(queue_)
       /\ o # None /\ broker_count \in BrokerIds
  BY <1>1, <1>2, <1>3, <1>6 DEF Dispatch
<1>14. CommandEffect({l}, o)
  BY <1>2, <1>6, <1>7, <1>9, <1>10, <1>11, <1>12, <1>13 DEF CommandEffect
<1> QED
  BY <1>14 DEF l

LEMMA ReplaceEffect ==
    ASSUME TradeInv, FaultyCalls = {}, NEW fail \in SUBSET ReplaceFaults, PaperReplace(fail)
    PROVE  \E gone \in SUBSET Mapped, new \in {None, id_generator_} : CommandEffect(gone, new)
<1> DEFINE o == id_generator_
<1>1. fail = {}
  BY DEF ReplaceFaults
<1>2. CASE ReplaceUnknown /\ UNCHANGED gatewayVars
  <2>1. CommandEffect({}, None)
    BY <1>2, RefusedEffect DEF ReplaceUnknown
  <2> QED
    BY <2>1
<1>3. CASE ReplaceRejectedByGateway /\ UNCHANGED gatewayVars
  <2>1. Dispatch("replace") /\ Replacing({<<"ORDER_REJECTED", o>>})
        /\ UNCHANGED <<order_store_, id_mapper_, broker_count>>
    BY <1>3 DEF ReplaceRejectedByGateway
  <2>2. o < MaxOrders /\ UNCHANGED <<positions_, streamed>>
    BY <2>1 DEF Replacing
  <2>3. o \in LocalIds
    BY <2>2, OrderIdsAssumption DEF LocalIds, TradeInv, LifeInv, TrackingInv, TypeOK
  <2>4. order_store_[o] = None /\ None \notin LocalIds
    BY <2>3, Linked DEF TradeInv
  <2>5. RowsEffect({}, None)
    BY <2>1, <2>4 DEF RowsEffect
  <2>6. JournalEffect({})
    <3>1. /\ journal_' = journal_ \cup {<<"ORDER_REPLACED", o>>, <<"ORDER_REJECTED", o>>}
          /\ JournalIsBehind'
      BY <2>1, <2>3, ReplacingJournal
    <3>2. \A l \in LocalIds : order_store_'[l] # None => l # o
      BY <2>1, <2>4
    <3> QED
      BY <3>1, <3>2 DEF JournalEffect
  <2>7. CommandEffect({}, None)
    BY <1>3, <2>1, <2>2, <2>5, <2>6, NothingOpened
  <2> QED
    BY <2>7
<1>4. ASSUME NEW b \in BrokerIds, ReplaceDone(fail, b),
             replace_order(get_broker_id(id_mapper_, event.order_id), event.signal, b)
      PROVE  \E gone \in SUBSET Mapped, new \in {None, o} : CommandEffect(gone, new)
  <2>1. CommandEffect({event.order_id}, o)
    BY <1>1, <1>4, ReplaceDoneEffect
  <2>2. {event.order_id} \subseteq Mapped
    BY <2>1 DEF CommandEffect
  <2> QED
    BY <2>1, <2>2
<1>5. ASSUME NEW b \in BrokerIds, ReplaceNotRecorded(fail, b) PROVE FALSE
  <2>1. /\ Dispatch("replace") /\ StoreReplacementFails(fail, b) /\ b = broker_count
        /\ IsMapped(event.order_id) /\ o < MaxOrders
    BY <1>1, <1>5 DEF ReplaceNotRecorded, Replacing
  <2>2. event.order_id \in Mapped
    BY <2>1, EventType DEF ReplaceCommand, TradeInv, LifeInv, TrackingInv, Mapped
  <2>3. o \in LocalIds
    BY <2>1, OrderIdsAssumption DEF LocalIds, TradeInv, LifeInv, TrackingInv, TypeOK
  <2>4. order_store_[o] = None /\ event.order_id # o
    BY <2>2, <2>3, Linked DEF TradeInv
  <2>5. /\ ReplacedTable \in Table
        /\ ReplacedTable[event.order_id] # None
        /\ ReplacedTable[event.order_id].broker_id = order_store_[event.order_id].broker_id
        /\ order_store_[event.order_id] # None
        /\ \A k \in LocalIds \ {event.order_id} : ReplacedTable[k] = order_store_[k]
    <3>1. order_store_[event.order_id] # None
      BY <2>2, Linked DEF TradeInv
    <3> QED
      BY <2>2, <3>1, ClosedRow DEF ReplacedTable, OrderStatus
  <2>6. BrokerIdFree(ReplacedTable, o, broker_count)
    <3>1. \A k \in LocalIds \ {o} :
              ReplacedTable[k] # None => /\ order_store_[k] # None
                                         /\ ReplacedTable[k].broker_id = order_store_[k].broker_id
      BY <2>5
    <3> QED
      BY <2>3, <2>5, <3>1, NextBrokerIsFree DEF TradeInv
  <2>7. ReplacedTable[o] = None /\ ReplacementRow(b).broker_id = broker_count
    BY <2>1, <2>3, <2>4, <2>5 DEF ReplacementRow, NewRow
  <2> QED
    BY <1>1, <2>1, <2>6, <2>7 DEF StoreReplacementFails, CanStore
<1> QED
  BY <1>2, <1>3, <1>4, <1>5 DEF PaperReplace

\* The kill switch closes every tracked order.
LEMMA CancelAllEffect ==
    ASSUME TradeInv, FaultyCalls = {}, NEW fail \in SUBSET SweepFaults,
           NEW unrecorded \in SUBSET LocalIds, PaperCancelAll(fail, unrecorded)
    PROVE  CommandEffect(Mapped, None)
<1> DEFINE closed == Mapped
<1>1. fail = {} /\ unrecorded = {}
  BY DEF SweepFaults, PaperCancelAll, handle_cancel_all_command
<1>2. /\ None \notin LocalIds
      /\ closed \subseteq LocalIds
      /\ id_generator_ \in Int
      /\ \A k \in closed : k < id_generator_ /\ k \in Int
      /\ \A k \in LocalIds : k >= id_generator_ => order_store_[k] = None
      /\ Reachable({}) = closed
      /\ \A k \in closed : /\ order_store_[k] \in StoredOrder
                           /\ order_store_[k] # None
                           /\ order_store_[k].broker_id = get_broker_id(id_mapper_, k)
  BY Linked DEF TradeInv, Mapped
<1>3. /\ id_generator_ \notin closed
      /\ id_generator_ \in LocalIds => order_store_[id_generator_] = None
  BY <1>2
<1>4. /\ Dispatch("cancel_all")
      /\ order_store_' = update_order_statuses(order_store_, closed, "CANCELLED")
      /\ id_mapper_' = remove_mappings(id_mapper_, closed)
      /\ journal_' = journal_ \cup ({<<"KILL_SWITCH_ACTIVATED", None>>}
                                      \cup {<<"ORDER_CANCELLED", l>> : l \in closed})
      /\ UNCHANGED <<id_generator_, positions_, streamed, broker_count>>
      /\ pending_orders_' = erase(pending_orders_, {order_store_[l].broker_id : l \in closed})
      /\ KeepThreads
  <2>1. /\ Reachable({}) \ ({} \cup {}) = closed
        /\ {<<"ERROR_OCCURRED", l>> : l \in {} \cup {}} = {}
    BY <1>2
  <2> HIDE DEF closed
  <2> QED
    BY <1>1, <1>2, <2>1 DEF PaperCancelAll, handle_cancel_all_command, log, cancel_orders
<1> HIDE DEF closed
<1>5. /\ \A k \in closed : order_store_'[k] = [order_store_[k] EXCEPT !.status = "CANCELLED"]
      /\ \A k \in LocalIds \ closed : order_store_'[k] = order_store_[k]
  BY <1>2, <1>4 DEF update_order_statuses
<1>6. \A k \in closed : /\ order_store_'[k] # None
                        /\ order_store_'[k].status = "CANCELLED"
                        /\ order_store_'[k].order = order_store_[k].order
                        /\ order_store_'[k].filled_quantity = order_store_[k].filled_quantity
                        /\ order_store_'[k].broker_id = order_store_[k].broker_id
  <2> SUFFICES ASSUME NEW k \in closed
               PROVE  /\ order_store_'[k] # None
                      /\ order_store_'[k].status = "CANCELLED"
                      /\ order_store_'[k].order = order_store_[k].order
                      /\ order_store_'[k].filled_quantity = order_store_[k].filled_quantity
                      /\ order_store_'[k].broker_id = order_store_[k].broker_id
    OBVIOUS
  <2>1. order_store_[k] \in StoredOrder /\ "CANCELLED" \in OrderStatus
    BY <1>2 DEF OrderStatus
  <2>2. order_store_'[k] = [order_store_[k] EXCEPT !.status = "CANCELLED"]
    BY <1>2, <1>5
  <2> QED
    BY <2>1, <2>2, RestatusedRow
<1>7. RowsEffect(closed, None)
  BY <1>3, <1>5, <1>6 DEF RowsEffect
<1>8. MapEffect(closed, None)
  BY <1>4, ForgottenEffect DEF closed
<1>9. PendingEffect(closed, None)
  <2>1. \A b : b \in {order_store_[l].broker_id : l \in closed}
                   <=> \E l \in closed : get_broker_id(id_mapper_, l) = b
    BY <1>2
  <2> QED
    BY <1>4, <2>1 DEF PendingEffect, erase
<1>10. JournalEffect(closed)
  <2>1. JournalIsBehind'
    <3> DEFINE entries == {<<"KILL_SWITCH_ACTIVATED", None>>}
                              \cup {<<"ORDER_CANCELLED", l>> : l \in closed}
    <3>1. \A x \in entries : x[2] # None => x[2] < id_generator_'
      BY <1>2, <1>4
    <3>2. journal_' = journal_ \cup entries
      BY <1>4
    <3> HIDE DEF entries
    <3> QED
      BY <1>4, <3>1, <3>2, BehindKept
  <2>2. id_generator_ \in LocalIds => order_store_'[id_generator_] = None
    BY <1>3, <1>5
  <2>3. \A l \in LocalIds, e \in Story :
            <<e, l>> \in journal_' <=> \/ <<e, l>> \in journal_
                                       \/ l \in closed /\ e = "ORDER_CANCELLED"
    BY <1>2, <1>4 DEF Story
  <2> QED
    BY <1>6, <2>1, <2>2, <2>3 DEF JournalEffect
<1>11. CommandEffect(closed, None)
  BY <1>4, <1>7, <1>8, <1>9, <1>10 DEF CommandEffect, Dispatch, KeepThreads, closed
<1> QED
  BY <1>11 DEF closed

------------------------------------------------------------------------------
(* What a command keeps.                                                    *)

\* A row after a command is the row before it, a closed one or a fresh one.
LEMMA CommandRow ==
    ASSUME TradeInv, NEW gone, NEW new, CommandEffect(gone, new),
           NEW l \in LocalIds, order_store_'[l] # None
    PROVE  \/ /\ order_store_[l] # None /\ l # new /\ l # id_generator_
              /\ order_store_'[l].order = order_store_[l].order
              /\ order_store_'[l].filled_quantity = order_store_[l].filled_quantity
              /\ order_store_'[l].broker_id = order_store_[l].broker_id
              /\ \/ /\ l \in gone
                    /\ order_store_[l].status \in {"SUBMITTED", "PARTIALLY_FILLED"}
                    /\ order_store_'[l].status \in {"CANCELLED", "REPLACED"}
                    /\ get_broker_id(id_mapper_, l)' = None
                 \/ /\ l \notin gone
                    /\ order_store_'[l] = order_store_[l]
                    /\ get_broker_id(id_mapper_, l)' = get_broker_id(id_mapper_, l)
           \/ /\ order_store_[l] = None /\ l = id_generator_ /\ l \notin gone
              /\ order_store_'[l].filled_quantity = 0
              /\ \/ /\ l # new
                    /\ order_store_'[l].status = "REJECTED"
                    /\ order_store_'[l].broker_id = None
                    /\ get_broker_id(id_mapper_, l)' = None
                 \/ /\ l = new
                    /\ order_store_'[l].status = "SUBMITTED"
                    /\ order_store_'[l].broker_id = broker_count
                    /\ get_broker_id(id_mapper_, l)' = broker_count
<1>1. /\ gone \subseteq Mapped
      /\ new \in {None, id_generator_}
      /\ RowsEffect(gone, new)
      /\ MapEffect(gone, new)
  BY DEF CommandEffect
<1>2. None \notin LocalIds
  BY Linked DEF TradeInv
<1>3. /\ l \in Mapped => /\ order_store_[l] # None /\ l # id_generator_
                         /\ order_store_[l].status \in {"SUBMITTED", "PARTIALLY_FILLED"}
      /\ l = id_generator_ => order_store_[l] = None /\ get_broker_id(id_mapper_, l) = None
  BY Linked DEF TradeInv, IsMapped
<1>4. get_broker_id(id_mapper_, l)' = IF l = new THEN broker_count
                                      ELSE IF l \in gone THEN None
                                      ELSE get_broker_id(id_mapper_, l)
  BY <1>1 DEF MapEffect
<1>5. CASE l \in gone
  BY <1>1, <1>2, <1>3, <1>4, <1>5 DEF RowsEffect
<1>6. CASE l \notin gone /\ l = id_generator_
  BY <1>1, <1>2, <1>3, <1>4, <1>6 DEF RowsEffect
<1>7. CASE l \notin gone /\ l # id_generator_
  BY <1>1, <1>2, <1>3, <1>4, <1>7 DEF RowsEffect
<1> QED
  BY <1>5, <1>6, <1>7

LEMMA CommandLinks ==
    ASSUME TradeInv, NEW gone, NEW new, CommandEffect(gone, new)
    PROVE  RowsAreLinked'
<1> SUFFICES ASSUME NEW l \in LocalIds, order_store_'[l] # None
             PROVE  /\ order_store_'[l].status \in OpenStatus =>
                           /\ IsMapped(l)'
                           /\ order_store_'[l].broker_id = get_broker_id(id_mapper_, l)'
                    /\ order_store_'[l].broker_id # None =>
                           /\ order_store_'[l].broker_id < broker_count'
                           /\ \A k \in LocalIds :
                                  /\ order_store_'[k] # None
                                  /\ order_store_'[k].broker_id = order_store_'[l].broker_id
                                  => k = l
  BY DEF RowsAreLinked
<1>1. /\ broker_count \in Int /\ broker_count # None
      /\ broker_count' \in Int /\ broker_count <= broker_count'
      /\ new # None => broker_count < broker_count'
  <2>1. broker_count \in Int /\ broker_count # None
    BY OrderIdsAssumption DEF TradeInv, LifeInv, TrackingInv, TypeOK
  <2> QED
    BY <2>1 DEF CommandEffect
<1>2. None \notin LocalIds
  BY Linked DEF TradeInv
<1>3. ASSUME NEW k \in LocalIds, order_store_'[k] # None, order_store_'[k].broker_id # None
      PROVE  /\ order_store_[k] # None =>
                    /\ order_store_'[k].broker_id = order_store_[k].broker_id
                    /\ order_store_[k].broker_id < broker_count
                    /\ order_store_[k].broker_id \in Int
             /\ order_store_[k] = None =>
                    /\ order_store_'[k].broker_id = broker_count
                    /\ k = id_generator_ /\ k = new
  <2>1. order_store_[k] # None /\ order_store_[k].broker_id # None =>
            order_store_[k].broker_id < broker_count /\ order_store_[k].broker_id \in Int
    <3>1. order_store_[k] # None => order_store_[k].broker_id \in BrokerIds \cup {None}
      BY RowTypes DEF TradeInv, LifeInv, TrackingInv, TypeOK
    <3> QED
      BY <3>1 DEF TradeInv, RowsAreLinked, BrokerIds
  <2> QED
    BY <1>3, <2>1, CommandRow
<1>4. order_store_'[l].status \in OpenStatus =>
          /\ IsMapped(l)'
          /\ order_store_'[l].broker_id = get_broker_id(id_mapper_, l)'
  <2>1. order_store_[l] # None /\ order_store_[l].status \in OpenStatus =>
            /\ get_broker_id(id_mapper_, l) # None
            /\ order_store_[l].broker_id = get_broker_id(id_mapper_, l)
    BY DEF TradeInv, RowsAreLinked, IsMapped
  <2> QED
    BY <1>1, <2>1, CommandRow DEF IsMapped, OpenStatus
<1>5. ASSUME order_store_'[l].broker_id # None, NEW k \in LocalIds, order_store_'[k] # None,
             order_store_'[k].broker_id = order_store_'[l].broker_id
      PROVE  k = l
  <2>1. CASE order_store_[k] # None /\ order_store_[l] # None
    BY <1>3, <1>5, <2>1 DEF TradeInv, RowsAreLinked
  <2>2. CASE order_store_[k] = None \/ order_store_[l] = None
    BY <1>1, <1>3, <1>5, <2>2
  <2> QED
    BY <2>1, <2>2
<1> QED
  BY <1>1, <1>2, <1>3, <1>4, <1>5

\* An order pending at the gateway is a tracked one.
LEMMA PendingIsTracked ==
    ASSUME TradeInv, NEW b \in Pending
    PROVE  /\ get_local_id(id_mapper_, b) \in Mapped
           /\ get_broker_id(id_mapper_, get_local_id(id_mapper_, b)) = b
<1>1. b \in BrokerIds /\ id_mapper_ \in Mapper
  BY DEF Pending, TradeInv, LifeInv, TrackingInv, TypeOK
<1>2. get_local_id(id_mapper_, b) \in LocalIds
  BY <1>1 DEF TradeInv, LiveOrdersAreTracked, Mapper, get_local_id
<1>3. get_broker_id(id_mapper_, get_local_id(id_mapper_, b)) = b
  BY <1>1, <1>2 DEF TradeInv, LifeInv, TrackingInv, MapperInverse
<1>4. b # None
  BY <1>1, Linked DEF TradeInv
<1> QED
  BY <1>2, <1>3, <1>4 DEF Mapped, IsMapped

LEMMA CommandPending ==
    ASSUME TradeInv, LifeInv', NEW gone, NEW new, CommandEffect(gone, new)
    PROVE  LiveOrdersAreTracked' /\ NothingIsOverfilled'
<1>1. /\ gone \subseteq Mapped
      /\ new \in {None, id_generator_}
      /\ new # None => id_generator_ \in LocalIds /\ broker_count \in BrokerIds
      /\ RowsEffect(gone, new)
      /\ MapEffect(gone, new)
      /\ PendingEffect(gone, new)
  BY DEF CommandEffect
<1>2. None \notin LocalIds /\ None \notin BrokerIds
  BY Linked DEF TradeInv
<1>3. \A l \in LocalIds, b \in BrokerIds :
          get_broker_id(id_mapper_, l)' = b => get_local_id(id_mapper_, b)' = l
  BY DEF LifeInv, TrackingInv, MapperInverse
<1>4. ASSUME NEW b \in Pending'
      PROVE  /\ get_local_id(id_mapper_, b)' # None
             /\ order_store_'[get_local_id(id_mapper_, b)'].status \in OpenStatus
             /\ order_store_'[get_local_id(id_mapper_, b)'].broker_id = b
             /\ order_store_'[get_local_id(id_mapper_, b)'].order = pending_orders_'[b].order
             /\ \/ pending_orders_'[b].cumulative_filled = 0
                \/ pending_orders_'[b].cumulative_filled < pending_orders_'[b].order.quantity
  <2>1. b \in BrokerIds /\ pending_orders_'[b] # None
    BY <1>4 DEF Pending
  <2>2. pending_orders_'[b] =
            IF new # None /\ b = broker_count
            THEN [order |-> order_store_'[new].order, cumulative_filled |-> 0]
            ELSE IF \E l \in gone : get_broker_id(id_mapper_, l) = b THEN None
            ELSE pending_orders_[b]
    BY <1>1, <2>1 DEF PendingEffect
  <2>3. CASE new # None /\ b = broker_count
    <3>1. /\ new \in LocalIds /\ new = id_generator_
          /\ get_broker_id(id_mapper_, new)' = b
      BY <1>1, <2>3 DEF MapEffect
    <3>2. get_local_id(id_mapper_, b)' = new
      BY <1>3, <2>1, <3>1
    <3>3. /\ order_store_'[new].status = "SUBMITTED"
          /\ order_store_'[new].broker_id = broker_count
      <4>1. new \notin gone
        BY <1>1, <3>1, Linked DEF TradeInv
      <4> QED
        BY <1>1, <1>2, <3>1, <4>1 DEF RowsEffect
    <3>4. /\ pending_orders_'[b].order = order_store_'[new].order
          /\ pending_orders_'[b].cumulative_filled = 0
      BY <2>2, <2>3
    <3> QED
      BY <1>2, <2>3, <3>1, <3>2, <3>3, <3>4 DEF OpenStatus
  <2>4. CASE ~(new # None /\ b = broker_count)
    <3>1. /\ pending_orders_'[b] = pending_orders_[b]
          /\ ~ \E k \in gone : get_broker_id(id_mapper_, k) = b
          /\ b \in Pending
      BY <2>1, <2>2, <2>4 DEF Pending
    <3>2. PICK l \in Mapped : l = get_local_id(id_mapper_, b) /\ get_broker_id(id_mapper_, l) = b
      BY <3>1, PendingIsTracked
    <3>3. l \in LocalIds /\ l \notin gone /\ l # id_generator_ /\ l # None
      BY <1>2, <3>1, <3>2, Linked DEF TradeInv
    <3>4. order_store_'[l] = order_store_[l]
      BY <1>1, <3>3 DEF RowsEffect
    <3>5. get_broker_id(id_mapper_, l)' = b
      BY <1>1, <1>2, <3>2, <3>3 DEF MapEffect
    <3>6. get_local_id(id_mapper_, b)' = l
      BY <1>3, <2>1, <3>3, <3>5
    <3>7. /\ order_store_[l].status \in OpenStatus
          /\ order_store_[l].broker_id = b
          /\ order_store_[l].order = pending_orders_[b].order
          /\ \/ pending_orders_[b].cumulative_filled = 0
             \/ pending_orders_[b].cumulative_filled < pending_orders_[b].order.quantity
      BY <3>1, <3>2 DEF TradeInv, LiveOrdersAreTracked, NothingIsOverfilled
    <3> QED
      BY <3>1, <3>3, <3>4, <3>6, <3>7
  <2> QED
    BY <2>3, <2>4
<1> QED
  BY <1>4 DEF LiveOrdersAreTracked, NothingIsOverfilled

\* The three places a report can be in hold natural quantities, each of them at
\* least what any report there carries.
LEMMA InFlightParts ==
    ASSUME NEW b, NEW G \in SUBSET Reports, IsFiniteSet(G), NEW q \in Seq(Reports),
           NEW events \in Seq(Command \cup ReportEvent)
    PROVE  /\ Generated(b, G) \in Nat
           /\ Enqueued(b, q) \in Nat
           /\ Delivered(b, events) \in Nat
           /\ \A r \in G : r.broker_id = b => r.filled_quantity <= Generated(b, G)
           /\ \A i \in 1 .. Len(q) :
                  q[i].broker_id = b => q[i].filled_quantity <= Enqueued(b, q)
           /\ \A i \in 1 .. Len(events) :
                  /\ events[i].kind = "report"
                  /\ events[i].report.broker_id = b
                  => events[i].report.filled_quantity <= Delivered(b, events)
<1> DEFINE w == Share(b)
           v == EventShare(b)
           E == Command \cup ReportEvent
<1>1. /\ \A r \in Reports : w[r] \in Nat /\ (r.broker_id = b => w[r] = r.filled_quantity)
      /\ \A e \in E : /\ v[e] \in Nat
                      /\ e.kind = "report" => e.report \in Reports /\ v[e] = w[e.report]
  BY SharesNat DEF Share
<1>2. /\ Generated(b, G) = Sum(w, G)
      /\ Enqueued(b, q) = Tally(w, q)
      /\ Delivered(b, events) = Tally(v, events)
  BY GeneratedIs, EnqueuedIs, DeliveredIs
<1>3. \A i \in 1 .. Len(q) : q[i] \in Reports
  OBVIOUS
<1>4. \A i \in 1 .. Len(events) : events[i] \in E
  OBVIOUS
<1>5. events \in Seq(E)
  OBVIOUS
<1> HIDE DEF w, v, E
<1>6. Sum(w, G) \in Nat /\ \A r \in G : w[r] <= Sum(w, G)
  BY <1>1, SumNat
<1>7. Tally(w, q) \in Nat /\ \A i \in 1 .. Len(q) : w[q[i]] <= Tally(w, q)
  BY <1>1, TallyNat
<1>8. Tally(v, events) \in Nat /\ \A i \in 1 .. Len(events) : v[events[i]] <= Tally(v, events)
  BY <1>1, <1>5, TallyNat
<1>9. \A r \in G : r.broker_id = b => r.filled_quantity <= Generated(b, G)
  BY <1>1, <1>2, <1>6
<1>10. \A i \in 1 .. Len(q) : q[i].broker_id = b => q[i].filled_quantity <= Enqueued(b, q)
  BY <1>1, <1>2, <1>3, <1>7
<1>11. \A i \in 1 .. Len(events) :
           events[i].kind = "report" /\ events[i].report.broker_id = b
               => events[i].report.filled_quantity <= Delivered(b, events)
  BY <1>1, <1>2, <1>4, <1>8
<1> QED
  BY <1>2, <1>6, <1>7, <1>8, <1>9, <1>10, <1>11

\* An order without reports on their way has nothing in flight.
LEMMA NoReportsNoFlight ==
    ASSUME NEW b, NEW G \in SUBSET Reports, IsFiniteSet(G), NEW q \in Seq(Reports),
           NEW events \in Seq(Command \cup ReportEvent),
           \A r \in G : r.broker_id # b,
           \A i \in 1 .. Len(q) : q[i].broker_id # b,
           \A i \in 1 .. Len(events) :
               events[i].kind = "report" => events[i].report.broker_id # b
    PROVE  Generated(b, G) = 0 /\ Enqueued(b, q) = 0 /\ Delivered(b, events) = 0
<1> DEFINE w == Share(b)
           v == EventShare(b)
<1>1. \A r \in G : w[r] = 0
  BY DEF Share
<1>2. \A i \in 1 .. Len(q) : w[q[i]] = 0
  <2>1. \A i \in 1 .. Len(q) : q[i] \in Reports
    OBVIOUS
  <2> QED
    BY <2>1 DEF Share
<1>3. \A i \in 1 .. Len(events) : v[events[i]] = 0
  <2>1. \A i \in 1 .. Len(events) : events[i] \in Command \cup ReportEvent
    OBVIOUS
  <2>2. \A i \in 1 .. Len(events) : events[i].kind = "report" =>
            events[i].report \in Reports /\ v[events[i]] = w[events[i].report]
    BY <2>1, SharesNat
  <2>3. \A i \in 1 .. Len(events) : events[i].kind # "report" => v[events[i]] = 0
    BY <2>1, SharesNat
  <2> QED
    BY <2>2, <2>3 DEF Share
<1>4. /\ Generated(b, G) = Sum(w, G)
      /\ Enqueued(b, q) = Tally(w, q)
      /\ Delivered(b, events) = Tally(v, events)
  BY GeneratedIs, EnqueuedIs, DeliveredIs
<1> HIDE DEF w, v
<1>5. Sum(w, G) = 0
  BY <1>1, SumZero
<1>6. Tally(w, q) = 0
  BY <1>2, TallyZero
<1>7. Tally(v, events) = 0
  BY <1>3, TallyZero
<1> QED
  BY <1>4, <1>5, <1>6, <1>7

\* Handling a command leaves what is in flight as it is.
LEMMA DeliveredTail ==
    ASSUME NEW b, NEW events \in Seq(Command \cup ReportEvent), events # <<>>
    PROVE  Delivered(b, events) =
               EventShare(b)[Head(events)] + Delivered(b, Tail(events))
<1> DEFINE v == EventShare(b)
           E == Command \cup ReportEvent
<1>1. events \in Seq(E) /\ Tail(events) \in Seq(E) /\ \A e \in E : v[e] \in Nat
  BY SharesNat
<1>2. Delivered(b, events) = Tally(v, events)
  BY DeliveredIs
<1>3. Delivered(b, Tail(events)) = Tally(v, Tail(events))
  BY <1>1, DeliveredIs
<1>4. Tally(v, events) = v[Head(events)] + Tally(v, Tail(events))
  <2> HIDE DEF v, E
  <2> QED
    BY <1>1, TallyTail
<1> QED
  BY <1>2, <1>3, <1>4

LEMMA DeliveredAppend ==
    ASSUME NEW b, NEW events \in Seq(Command \cup ReportEvent),
           NEW e \in Command \cup ReportEvent
    PROVE  Delivered(b, Append(events, e)) = Delivered(b, events) + EventShare(b)[e]
<1> DEFINE v == EventShare(b)
           E == Command \cup ReportEvent
<1>1. events \in Seq(E) /\ e \in E /\ Append(events, e) \in Seq(E) /\ \A x \in E : v[x] \in Nat
  BY SharesNat
<1>2. Delivered(b, events) = Tally(v, events)
  BY DeliveredIs
<1>3. Delivered(b, Append(events, e)) = Tally(v, Append(events, e))
  BY <1>1, DeliveredIs
<1>4. Tally(v, Append(events, e)) = Tally(v, events) + v[e]
  <2> HIDE DEF v, E
  <2> QED
    BY <1>1, TallyAppend
<1> QED
  BY <1>2, <1>3, <1>4

LEMMA TradeTypes ==
    TypeOK /\ GatewayInv => /\ generated_fills_ \in SUBSET Reports
                            /\ IsFiniteSet(generated_fills_)
                            /\ reports_queue_ \in Seq(Reports)
                            /\ queue_ \in Seq(Command \cup ReportEvent)
BY DEF TypeOK, GatewayInv, GatewayTypeOK

LEMMA NothingInFlight ==
    ASSUME TradeInv, NEW b \in BrokerIds, b >= broker_count
    PROVE  InFlight(b) = 0
<1>1. \A r \in InTransit : r.broker_id < broker_count
  BY DEF TradeInv, ReportsArePlain, IsPlain
<1>2. broker_count \in Int /\ b \in Int
  BY Linked DEF TradeInv, BrokerIds
<1>3. \A r \in InTransit : r.broker_id # b
  BY <1>1, <1>2
<1>4. /\ \A r \in generated_fills_ : r.broker_id # b
      /\ \A i \in 1 .. Len(reports_queue_) : reports_queue_[i].broker_id # b
      /\ \A i \in 1 .. Len(queue_) : queue_[i].kind = "report" => queue_[i].report.broker_id # b
  BY <1>3 DEF InTransit
<1> QED
  BY <1>4, TradeTypes, NoReportsNoFlight DEF InFlight, TradeInv, LifeInv, TrackingInv

\* Handling an event, or nothing, puts no report on its way.
LEMMA TransitShrinks ==
    ASSUME TypeOK, queue_ # <<>>, queue_' = Tail(queue_),
           UNCHANGED <<generated_fills_, reports_queue_>>
    PROVE  InTransit' \subseteq InTransit
<1> SUFFICES ASSUME NEW r \in InTransit' PROVE r \in InTransit
  OBVIOUS
<1>1. queue_ \in Seq(Command \cup ReportEvent)
  BY DEF TypeOK
<1>2. \A i \in 1 .. Len(queue_') : i + 1 \in 1 .. Len(queue_) /\ queue_'[i] = queue_[i + 1]
  BY <1>1
<1>3. CASE r \in generated_fills_' \cup {reports_queue_'[i] : i \in 1 .. Len(reports_queue_')}
  BY <1>3 DEF InTransit
<1>4. ASSUME NEW i \in 1 .. Len(queue_'), queue_'[i].kind = "report", r = queue_'[i].report
      PROVE  r \in InTransit
  BY <1>2, <1>4 DEF InTransit
<1> QED
  BY <1>3, <1>4 DEF InTransit

\* The reports' types.
LEMMA TransitType ==
    ASSUME TypeOK, GatewayInv
    PROVE  \A r \in InTransit : r \in Reports /\ r.broker_id \in BrokerIds
                                    /\ r.broker_id \in Int /\ r.filled_quantity \in Nat
<1>1. \A i \in 1 .. Len(reports_queue_) : reports_queue_[i] \in Reports
  BY TradeTypes
<1>2. ASSUME NEW i \in 1 .. Len(queue_), queue_[i].kind = "report"
      PROVE  queue_[i].report \in Reports
  <2>1. queue_[i] \in Command \cup ReportEvent
    BY TradeTypes
  <2> QED
    BY <1>2, <2>1, SharesNat
<1>3. \A r \in InTransit : r \in Reports
  BY <1>1, <1>2, TradeTypes DEF InTransit
<1>4. \A r \in Reports : r.broker_id \in BrokerIds /\ r.filled_quantity \in Nat
  BY FillQuantityNat DEF Reports
<1>5. BrokerIds \subseteq Int
  BY DEF BrokerIds
<1> QED
  BY <1>3, <1>4, <1>5

LEMMA CommandReports ==
    ASSUME TradeInv, NEW gone, NEW new, CommandEffect(gone, new)
    PROVE  ReportsArePlain'
<1> SUFFICES ASSUME NEW r \in InTransit'
             PROVE  /\ r.status = "NONE"
                    /\ r.broker_id < broker_count'
                    /\ pending_orders_'[r.broker_id] # None => r.filled_quantity >= 1
                    /\ \A l \in LocalIds :
                           get_broker_id(id_mapper_, l)' = r.broker_id =>
                               /\ order_store_'[l].order.symbol = r.symbol
                               /\ order_store_'[l].order.side = r.side
  BY DEF ReportsArePlain, IsPlain
<1>1. r \in InTransit
  BY TransitShrinks DEF CommandEffect, TradeInv, LifeInv, TrackingInv
<1>2. r.broker_id \in BrokerIds /\ r.broker_id \in Int
  BY <1>1, TransitType DEF TradeInv, LifeInv, TrackingInv
<1>3. /\ r.status = "NONE"
      /\ r.broker_id < broker_count
      /\ pending_orders_[r.broker_id] # None => r.filled_quantity >= 1
      /\ \A l \in LocalIds :
             get_broker_id(id_mapper_, l) = r.broker_id =>
                 /\ order_store_[l].order.symbol = r.symbol
                 /\ order_store_[l].order.side = r.side
  BY <1>1 DEF TradeInv, ReportsArePlain, IsPlain
<1>4. /\ None \notin BrokerIds /\ broker_count \in Int /\ r.broker_id # broker_count
      /\ broker_count <= broker_count'
  BY <1>2, <1>3, Linked DEF TradeInv, CommandEffect
<1>5. r.broker_id < broker_count'
  BY <1>2, <1>3, <1>4 DEF CommandEffect
<1>6. pending_orders_'[r.broker_id] \in {None, pending_orders_[r.broker_id]}
  BY <1>2, <1>4 DEF CommandEffect, PendingEffect
<1>7. ASSUME NEW l \in LocalIds, get_broker_id(id_mapper_, l)' = r.broker_id
      PROVE  /\ order_store_'[l].order.symbol = r.symbol
             /\ order_store_'[l].order.side = r.side
  <2>1. l # new /\ l \notin gone /\ get_broker_id(id_mapper_, l) = r.broker_id
    BY <1>2, <1>4, <1>7 DEF CommandEffect, MapEffect
  <2>2. l # id_generator_
    BY <1>2, <1>4, <2>1, Linked DEF TradeInv, IsMapped
  <2>3. order_store_'[l] = order_store_[l]
    BY <2>1, <2>2 DEF CommandEffect, RowsEffect
  <2> QED
    BY <1>3, <2>1, <2>3
<1> QED
  BY <1>3, <1>5, <1>6, <1>7

LEMMA CommandFlight ==
    ASSUME TradeInv, NEW gone, NEW new, CommandEffect(gone, new), NEW b
    PROVE  Generated(b, generated_fills_') + Enqueued(b, reports_queue_') + Delivered(b, queue_')
               = InFlight(b)
<1>1. /\ queue_ \in Seq(Command \cup ReportEvent) /\ queue_ # <<>>
      /\ Head(queue_).kind # "report"
      /\ queue_' = Tail(queue_)
      /\ UNCHANGED <<generated_fills_, reports_queue_>>
  BY DEF CommandEffect, event, TradeInv, LifeInv, TrackingInv, TypeOK
<1>2. Head(queue_) \in Command \cup ReportEvent /\ Tail(queue_) \in Seq(Command \cup ReportEvent)
  BY <1>1
<1>3. EventShare(b)[Head(queue_)] = 0
  BY <1>1, <1>2, SharesNat
<1>4. Delivered(b, queue_) = EventShare(b)[Head(queue_)] + Delivered(b, Tail(queue_))
  BY <1>1, DeliveredTail
<1>5. Delivered(b, Tail(queue_)) \in Nat
  <2>1. {} \in SUBSET Reports /\ IsFiniteSet({}) /\ <<>> \in Seq(Reports)
    BY FS_EmptySet
  <2> QED
    BY <1>2, <2>1, InFlightParts
<1>6. Delivered(b, queue_') = Delivered(b, queue_)
  BY <1>1, <1>3, <1>4, <1>5
<1> QED
  BY <1>1, <1>6 DEF InFlight

LEMMA CommandFills ==
    ASSUME TradeInv, LifeInv', NEW gone, NEW new, CommandEffect(gone, new)
    PROVE  FillsAddUp'
<1>0. /\ gone \subseteq Mapped
      /\ new \in {None, id_generator_}
      /\ new # None => id_generator_ \in LocalIds /\ broker_count \in BrokerIds
      /\ RowsEffect(gone, new)
      /\ MapEffect(gone, new)
      /\ PendingEffect(gone, new)
  BY DEF CommandEffect
<1>1. None \notin LocalIds /\ None \notin BrokerIds
  BY Linked DEF TradeInv
<1>2. ASSUME NEW l \in LocalIds, NEW b \in BrokerIds, get_broker_id(id_mapper_, l)' = b
      PROVE  order_store_'[l].filled_quantity + InFlight(b) =
                 IF pending_orders_'[b] # None
                 THEN pending_orders_'[b].cumulative_filled
                 ELSE order_store_'[l].order.quantity
  <2>1. b # None
    BY <1>1
  <2>2. CASE l = new
    <3>1. l = id_generator_ /\ b = broker_count /\ l \notin gone
      BY <1>0, <1>1, <1>2, <2>2, Linked DEF MapEffect, TradeInv
    <3>2. order_store_'[l].filled_quantity = 0
      BY <1>0, <1>1, <2>2, <3>1 DEF RowsEffect
    <3>3. pending_orders_'[b] = [order |-> order_store_'[l].order, cumulative_filled |-> 0]
      BY <1>0, <1>1, <2>2, <3>1 DEF PendingEffect
    <3>4. pending_orders_'[b] # None /\ pending_orders_'[b].cumulative_filled = 0
      <4>1. order_store_'[l] # None /\ order_store_' \in Table
        BY <1>0, <1>1, <2>2, <3>1 DEF RowsEffect, LifeInv, TrackingInv, TypeOK
      <4>2. order_store_'[l].order \in Signals
        BY <4>1 DEF Table, StoredOrder
      <4>3. pending_orders_'[b] \in SimulatedOrder
        BY <3>3, <4>2 DEF SimulatedOrder
      <4> QED
        BY <3>3, <4>3, NoneIsNotPending
    <3>5. InFlight(b) = 0
      <4>1. b >= broker_count
        BY <3>1, Linked DEF TradeInv
      <4> QED
        BY <4>1, NothingInFlight
    <3> QED
      BY <3>2, <3>4, <3>5
  <2>3. CASE l # new
    <3>1. l \notin gone /\ get_broker_id(id_mapper_, l) = b
      BY <1>0, <1>2, <2>1, <2>3 DEF MapEffect
    <3>2. l \in Mapped
      BY <2>1, <3>1 DEF Mapped, IsMapped
    <3>3. l # id_generator_ /\ b # broker_count /\ get_local_id(id_mapper_, b) = l
      BY <3>1, <3>2, Linked DEF TradeInv
    <3>4. order_store_'[l] = order_store_[l]
      BY <1>0, <3>1, <3>3 DEF RowsEffect
    <3>5. \A k \in gone : get_broker_id(id_mapper_, k) # b
      BY <1>0, <3>1, <3>3, Linked DEF TradeInv
    <3>6. pending_orders_'[b] = pending_orders_[b]
      BY <1>0, <3>3, <3>5 DEF PendingEffect
    <3>7. order_store_[l].filled_quantity + InFlight(b) = Executed(b)
      BY <3>1, <3>2 DEF TradeInv, FillsAddUp
    <3> QED
      BY <3>3, <3>4, <3>6, <3>7 DEF Executed
  <2> QED
    BY <2>2, <2>3
<1> SUFFICES ASSUME NEW l \in LocalIds, NEW b \in BrokerIds, get_broker_id(id_mapper_, l)' = b
             PROVE  order_store_'[l].filled_quantity + InFlight(b)' = Executed(b)'
  <2>1. \A l \in Mapped' : l \in LocalIds /\ get_broker_id(id_mapper_, l)' \in BrokerIds
    BY DEF Mapped, IsMapped, LifeInv, TrackingInv, TypeOK, Mapper, get_broker_id
  <2> QED
    BY <2>1 DEF FillsAddUp
<1>3. InFlight(b)' = InFlight(b)
  BY CommandFlight DEF InFlight
<1>4. get_local_id(id_mapper_, b)' = l
  BY DEF LifeInv, TrackingInv, MapperInverse
<1> QED
  BY <1>2, <1>3, <1>4 DEF Executed

LEMMA CommandStream ==
    ASSUME TradeInv, NEW gone, NEW new, CommandEffect(gone, new)
    PROVE  StreamNeverAhead'
<1> SUFFICES ASSUME NEW b \in BrokerIds, streamed'[b] > 0
             PROVE  \E l \in Stored(order_store_)' :
                        /\ order_store_'[l].broker_id = b
                        /\ streamed'[b] <= order_store_'[l].filled_quantity
  BY DEF StreamNeverAhead
<1>1. streamed' = streamed
  BY DEF CommandEffect
<1>2. PICK l \in Stored(order_store_) : /\ order_store_[l].broker_id = b
                                        /\ streamed[b] <= order_store_[l].filled_quantity
  BY <1>1 DEF TradeInv, StreamNeverAhead
<1>3. l \in LocalIds /\ order_store_[l] # None
  BY DEF Stored
<1>4. order_store_'[l] # None
  BY <1>3 DEF CommandEffect, RowsEffect
<1>5. /\ order_store_'[l].broker_id = order_store_[l].broker_id
      /\ order_store_'[l].filled_quantity = order_store_[l].filled_quantity
  BY <1>3, <1>4, CommandRow
<1> QED
  BY <1>1, <1>2, <1>3, <1>4, <1>5 DEF Stored

LEMMA CommandPosition ==
    ASSUME TradeInv, LifeInv', NEW gone, NEW new, CommandEffect(gone, new)
    PROVE  PositionMatchesStore'
<1> SUFFICES ASSUME NEW s \in Symbols
             PROVE  positions_'[s].quantity = NetFilled(order_store_', s)
  BY DEF PositionMatchesStore
<1>1. order_store_ \in Table /\ order_store_' \in Table
  BY DEF TradeInv, LifeInv, TrackingInv, TypeOK
<1>2. \A l \in LocalIds :
          IF order_store_[l] = None
          THEN order_store_'[l] = None \/ order_store_'[l].filled_quantity = 0
          ELSE /\ order_store_'[l] # None
               /\ order_store_'[l].order = order_store_[l].order
               /\ order_store_'[l].filled_quantity = order_store_[l].filled_quantity
  <2> SUFFICES ASSUME NEW l \in LocalIds
               PROVE  IF order_store_[l] = None
                      THEN order_store_'[l] = None \/ order_store_'[l].filled_quantity = 0
                      ELSE /\ order_store_'[l] # None
                           /\ order_store_'[l].order = order_store_[l].order
                           /\ order_store_'[l].filled_quantity = order_store_[l].filled_quantity
    OBVIOUS
  <2>1. order_store_[l] # None => order_store_'[l] # None
    BY DEF CommandEffect, RowsEffect
  <2> QED
    BY <2>1, CommandRow
<1>3. NetFilled(order_store_', s) = NetFilled(order_store_, s)
  BY <1>1, <1>2, NetFilledKept
<1>4. positions_' = positions_ /\ positions_[s].quantity = NetFilled(order_store_, s)
  BY DEF CommandEffect, TradeInv, PositionMatchesStore
<1> QED
  BY <1>3, <1>4

LEMMA CommandAudit ==
    ASSUME TradeInv, NEW gone, NEW new, CommandEffect(gone, new)
    PROVE  AuditTrail'
<1> DEFINE Told(row, journal, l) ==
        /\ (row.status = "FILLED") = (<<"ORDER_FILLED", l>> \in journal)
        /\ (row.status = "CANCELLED") = (<<"ORDER_CANCELLED", l>> \in journal)
        /\ (row.status = "REJECTED") = (<<"ORDER_REJECTED", l>> \in journal)
        /\ (row.status \notin {"PENDING_SUBMISSION", "REJECTED"}) =
               (<<"ORDER_SUBMITTED", l>> \in journal)
        /\ row.filled_quantity > 0 =>
               \/ <<"ORDER_FILLED", l>> \in journal
               \/ <<"ORDER_PARTIALLY_FILLED", l>> \in journal
<1> SUFFICES ASSUME NEW l \in LocalIds, order_store_'[l] # None
             PROVE  Told(order_store_'[l], journal_', l)
  BY DEF AuditTrail, Stored
<1>1. order_store_[l] # None => Told(order_store_[l], journal_, l)
  BY DEF TradeInv, AuditTrail, Stored
<1>2. \A e \in Story :
          <<e, l>> \in journal_' <=>
              \/ <<e, l>> \in journal_
              \/ /\ l \in gone
                 /\ e = "ORDER_CANCELLED"
                 /\ order_store_'[l].status = "CANCELLED"
              \/ /\ l = id_generator_
                 /\ e = IF order_store_'[l].status = "REJECTED" THEN "ORDER_REJECTED"
                                                                ELSE "ORDER_SUBMITTED"
  BY DEF CommandEffect, JournalEffect
<1>3. l = id_generator_ => \A e : <<e, l>> \notin journal_
  BY Linked DEF TradeInv, JournalIsBehind
<1>4. CASE order_store_[l] # None
  BY <1>1, <1>2, <1>4, CommandRow DEF Story
<1>5. CASE order_store_[l] = None
  BY <1>2, <1>3, <1>5, CommandRow DEF Story
<1> QED
  BY <1>4, <1>5

\* A command keeps the books in order.
LEMMA CommandKeeps ==
    ASSUME TradeInv, LifeInv', GatewayInv', NEW gone, NEW new, CommandEffect(gone, new)
    PROVE  TradeInv'
BY CommandLinks, CommandPending, CommandReports, CommandFills, CommandStream, CommandPosition,
   CommandAudit DEF TradeInv, CommandEffect, JournalEffect

------------------------------------------------------------------------------
(* What a fill does and keeps.                                              *)

\* The dispatch thread takes report r.
Takes(r) ==
    /\ queue_ # <<>>
    /\ event.kind = "report"
    /\ r = event.report
    /\ queue_' = Tail(queue_)
    /\ UNCHANGED <<broker_count, id_generator_, generated_fills_, reports_queue_,
                   pending_orders_>>

LastOf(l, r) == fully_filled(order_store_[l], r.filled_quantity)

\* It is applied to the tracked order l.
FillEffect(r, l) ==
    /\ Takes(r)
    /\ l \in Mapped
    /\ get_broker_id(id_mapper_, l) = r.broker_id
    /\ order_store_'[l] # None
    /\ order_store_'[l].order = order_store_[l].order
    /\ order_store_'[l].broker_id = order_store_[l].broker_id
    /\ order_store_'[l].filled_quantity = order_store_[l].filled_quantity + r.filled_quantity
    /\ order_store_'[l].status = IF LastOf(l, r) THEN "FILLED" ELSE "PARTIALLY_FILLED"
    /\ \A k \in LocalIds \ {l} : order_store_'[k] = order_store_[k]
    /\ \A k \in LocalIds :
           get_broker_id(id_mapper_, k)' = IF k = l /\ LastOf(l, r) THEN None
                                           ELSE get_broker_id(id_mapper_, k)
    /\ journal_' = journal_ \cup {<<IF LastOf(l, r) THEN "ORDER_FILLED"
                                    ELSE "ORDER_PARTIALLY_FILLED", l>>}
    /\ positions_' = on_fill(positions_, r.symbol, r.filled_quantity, r.avg_fill_price, r.side)
    /\ streamed' \in {streamed, [streamed EXCEPT ![r.broker_id] = @ + r.filled_quantity]}

\* A report that no order answers to is dropped.
DropEffect(r) ==
    /\ Takes(r)
    /\ get_local_id(id_mapper_, r.broker_id) = None
    /\ UNCHANGED <<order_store_, id_mapper_, positions_, journal_, streamed>>

\* The report taken was on its way.
LEMMA TakenReport ==
    ASSUME TradeInv, NEW r, Takes(r)
    PROVE  /\ r \in InTransit
           /\ r \in Reports
           /\ r.filled_quantity \in Nat
           /\ r.broker_id \in BrokerIds
           /\ IsPlain(r)
           /\ InTransit' \subseteq InTransit
<1>1. queue_ \in Seq(Command \cup ReportEvent) /\ queue_ # <<>>
  BY DEF Takes, TradeInv, LifeInv, TrackingInv, TypeOK
<1>2. 1 \in 1 .. Len(queue_) /\ queue_[1] = event
  BY <1>1 DEF event
<1>3. r \in InTransit
  BY <1>2 DEF Takes, InTransit
<1> QED
  BY <1>3, TransitType, TransitShrinks
  DEF Takes, TradeInv, LifeInv, TrackingInv, ReportsArePlain

\* What was in flight of an order is what the report says and what remains.
LEMMA TakenFlight ==
    ASSUME TradeInv, NEW r, Takes(r), NEW b
    PROVE  LET rest == Generated(b, generated_fills_') + Enqueued(b, reports_queue_')
                           + Delivered(b, queue_')
           IN  /\ rest \in Nat
               /\ InFlight(b) = (IF r.broker_id = b THEN r.filled_quantity ELSE 0) + rest
<1>1. /\ queue_ \in Seq(Command \cup ReportEvent) /\ queue_ # <<>>
      /\ Head(queue_).kind = "report" /\ Head(queue_).report = r
      /\ queue_' = Tail(queue_)
      /\ UNCHANGED <<generated_fills_, reports_queue_>>
  BY DEF Takes, event, TradeInv, LifeInv, TrackingInv, TypeOK
<1>2. Head(queue_) \in Command \cup ReportEvent /\ Tail(queue_) \in Seq(Command \cup ReportEvent)
  BY <1>1
<1>3. r \in Reports /\ r.filled_quantity \in Nat
  BY TakenReport
<1>4. EventShare(b)[Head(queue_)] = IF r.broker_id = b THEN r.filled_quantity ELSE 0
  BY <1>1, <1>2, <1>3, SharesNat DEF Share
<1>5. Delivered(b, queue_) = EventShare(b)[Head(queue_)] + Delivered(b, Tail(queue_))
  BY <1>1, DeliveredTail
<1>6. /\ Generated(b, generated_fills_) \in Nat
      /\ Enqueued(b, reports_queue_) \in Nat
      /\ Delivered(b, Tail(queue_)) \in Nat
  BY <1>2, InFlightParts, TradeTypes DEF TradeInv, LifeInv, TrackingInv
<1> QED
  BY <1>1, <1>3, <1>4, <1>5, <1>6 DEF InFlight

LEMMA FillHasEffect ==
    ASSUME TradeInv, FaultyCalls = {}, NEW fail \in SUBSET FillFaults, PaperFill(fail)
    PROVE  \E r : DropEffect(r) \/ \E l \in LocalIds : FillEffect(r, l)
<1>1. fail = {}
  BY DEF FillFaults
<1>2. Dispatch("report") /\ UNCHANGED gatewayVars
  BY DEF PaperFill, handle_fill, FillUnknown, FillTerminal, FillNotApplied, FillApplied
<1>3. PICK r \in Reports : /\ r = event.report
                           /\ r.broker_id \in BrokerIds
                           /\ r.filled_quantity \in Nat
                           /\ r.avg_fill_price \in Nat
  BY <1>2, FillContext DEF fill, TradeInv, LifeInv, TrackingInv
<1>4. UNCHANGED <<broker_count, id_generator_>> => Takes(r)
  BY <1>2, <1>3 DEF Takes, Dispatch, gatewayVars
<1>5. CASE FillUnknown
  <2>1. DropEffect(r)
    BY <1>3, <1>4, <1>5 DEF FillUnknown, DropEffect, filled_local_id, fill
  <2> QED
    BY <2>1
<1>6. ASSUME filled_local_id # None
      PROVE  filled_local_id \in Mapped /\ get_broker_id(id_mapper_, filled_local_id) = r.broker_id
  <2>1. filled_local_id \in LocalIds /\ filled_local_id = get_local_id(id_mapper_, r.broker_id)
    BY <1>2, <1>3, <1>6, FillContext DEF TradeInv, LifeInv, TrackingInv, filled_local_id, fill
  <2>2. get_broker_id(id_mapper_, filled_local_id) = r.broker_id
    BY <1>3, <2>1 DEF TradeInv, LifeInv, TrackingInv, MapperInverse
  <2> QED
    BY <1>3, <2>1, <2>2, Linked DEF TradeInv, IsMapped
<1>7. ~FillTerminal(fail)
  <2>1. UNCHANGED <<broker_count, id_generator_>> => r.status = "NONE"
    BY <1>4, TakenReport DEF IsPlain
  <2> QED
    BY <1>3, <2>1 DEF FillTerminal, fill
<1>8. ~FillNotApplied(fail)
  BY <1>1, <1>6, Linked DEF FillNotApplied, GetOrderFails, TradeInv
<1>9. CASE FillApplied(fail)
  <2>1. PICK l \in LocalIds : l = filled_local_id
    BY <1>2, <1>9, FillContext DEF FillApplied, TradeInv, LifeInv, TrackingInv
  <2>2. l \in Mapped /\ get_broker_id(id_mapper_, l) = r.broker_id /\ l # None
    BY <1>6, <1>9, <2>1 DEF FillApplied
  <2>3. order_store_[l] \in StoredOrder /\ order_store_[l] # None /\ id_mapper_ \in Mapper
    BY <2>2, Linked DEF TradeInv, LifeInv, TrackingInv, TypeOK
  <2> DEFINE status == IF LastOf(l, r) THEN "FILLED" ELSE "PARTIALLY_FILLED"
             new == FilledRow(order_store_[l], r.filled_quantity, r.avg_fill_price, status)
  <2>4. /\ order_store_' = apply_fill(order_store_, l, r.filled_quantity, r.avg_fill_price, status)
        /\ positions_' = on_fill(positions_, r.symbol, r.filled_quantity, r.avg_fill_price, r.side)
        /\ journal_' = journal_ \cup {<<IF LastOf(l, r) THEN "ORDER_FILLED"
                                        ELSE "ORDER_PARTIALLY_FILLED", l>>}
        /\ id_mapper_' = IF LastOf(l, r) THEN remove_mapping(id_mapper_, l) ELSE id_mapper_
        /\ UNCHANGED <<broker_count, id_generator_>>
        /\ streamed' = IF fill_sink_
                       THEN [streamed EXCEPT ![r.broker_id] = @ + r.filled_quantity]
                       ELSE streamed
    BY <1>1, <1>3, <1>9, <2>1
    DEF FillApplied, fill, Persisted, LastOf, log, ErrorIf, NotifyFillSink
  <2>5. /\ order_store_'[l] = new
        /\ \A k \in LocalIds \ {l} : order_store_'[k] = order_store_[k]
    BY <2>3, <2>4 DEF apply_fill
  <2>6. new \in StoredOrder
    BY <1>3, <2>3, FilledRowType DEF OrderStatus
  <2>7. /\ new # None
        /\ new.order = order_store_[l].order
        /\ new.broker_id = order_store_[l].broker_id
        /\ new.filled_quantity = order_store_[l].filled_quantity + r.filled_quantity
        /\ new.status = status
    BY <2>3, <2>6, NoneIsNotARow DEF FilledRow, StoredOrder
  <2> HIDE DEF new, status
  <2>8. \A k \in LocalIds :
            get_broker_id(id_mapper_, k)' = IF k = l /\ LastOf(l, r) THEN None
                                            ELSE get_broker_id(id_mapper_, k)
    BY <2>3, <2>4 DEF get_broker_id, remove_mapping, remove_mappings
  <2>9. FillEffect(r, l)
    BY <1>4, <2>2, <2>4, <2>5, <2>7, <2>8 DEF FillEffect, status
  <2> QED
    BY <2>9
<1> QED
  BY <1>5, <1>7, <1>8, <1>9 DEF PaperFill, handle_fill

\* A fill that completes an order leaves nothing of it to execute.
LEMMA LastFillEndsIt ==
    ASSUME TradeInv, NEW r, NEW l \in LocalIds, FillEffect(r, l), LastOf(l, r)
    PROVE  r.broker_id \notin Pending
<1> SUFFICES ASSUME r.broker_id \in Pending PROVE FALSE
  OBVIOUS
<1>1. PICK b \in Pending : b = r.broker_id
  OBVIOUS
<1>2. /\ l \in Mapped /\ get_broker_id(id_mapper_, l) = b /\ Takes(r)
  BY <1>1 DEF FillEffect
<1>3. b \in BrokerIds /\ pending_orders_[b] # None /\ get_local_id(id_mapper_, b) = l
  BY <1>2, Linked DEF Pending, TradeInv
<1>4. /\ order_store_[l].order = pending_orders_[b].order
      /\ \/ pending_orders_[b].cumulative_filled = 0
         \/ pending_orders_[b].cumulative_filled < pending_orders_[b].order.quantity
  BY <1>3 DEF TradeInv, LiveOrdersAreTracked, NothingIsOverfilled
<1>5. r.filled_quantity >= 1 /\ r.filled_quantity \in Nat
  BY <1>1, <1>2, <1>3, TakenReport DEF IsPlain
<1>6. order_store_[l].filled_quantity + InFlight(b) = pending_orders_[b].cumulative_filled
  BY <1>2, <1>3 DEF TradeInv, FillsAddUp, Executed
<1>7. PICK rest \in Nat : InFlight(b) = r.filled_quantity + rest
  BY <1>1, <1>2, TakenFlight
<1>8. order_store_[l].filled_quantity \in Nat /\ order_store_[l].order.quantity \in Nat
  BY <1>2, RowTypes, Linked DEF TradeInv, LifeInv, TrackingInv, TypeOK
<1>9. order_store_[l].filled_quantity + r.filled_quantity >= order_store_[l].order.quantity
  BY DEF LastOf, fully_filled
<1> QED
  BY <1>4, <1>5, <1>6, <1>7, <1>8, <1>9

LEMMA FillLinks ==
    ASSUME TradeInv, NEW r, NEW l \in LocalIds, FillEffect(r, l)
    PROVE  RowsAreLinked'
<1>1. \A k \in LocalIds :
          order_store_'[k] # None =>
              /\ order_store_[k] # None
              /\ order_store_'[k].broker_id = order_store_[k].broker_id
              /\ order_store_'[k].status \in OpenStatus =>
                     /\ order_store_[k].status \in OpenStatus
                     /\ get_broker_id(id_mapper_, k)' = get_broker_id(id_mapper_, k)
  BY Linked DEF FillEffect, OpenStatus, TradeInv
<1>2. broker_count' = broker_count
  BY DEF FillEffect, Takes
<1> QED
  BY <1>1, <1>2 DEF TradeInv, RowsAreLinked, IsMapped

LEMMA FillPending ==
    ASSUME TradeInv, LifeInv', NEW r, NEW l \in LocalIds, FillEffect(r, l)
    PROVE  LiveOrdersAreTracked' /\ NothingIsOverfilled'
<1>1. pending_orders_' = pending_orders_
  BY DEF FillEffect, Takes
<1>2. NothingIsOverfilled'
  BY <1>1 DEF TradeInv, NothingIsOverfilled, Pending
<1>3. ASSUME NEW b \in Pending
      PROVE  /\ get_local_id(id_mapper_, b)' # None
             /\ order_store_'[get_local_id(id_mapper_, b)'].status \in OpenStatus
             /\ order_store_'[get_local_id(id_mapper_, b)'].broker_id = b
             /\ order_store_'[get_local_id(id_mapper_, b)'].order = pending_orders_[b].order
  <2>1. PICK k \in Mapped : k = get_local_id(id_mapper_, b) /\ get_broker_id(id_mapper_, k) = b
    BY PendingIsTracked
  <2>2. k \in LocalIds /\ k # None /\ b \in BrokerIds
    BY Linked DEF TradeInv, Mapped, Pending
  <2>3. /\ order_store_[k].status \in OpenStatus
        /\ order_store_[k].broker_id = b
        /\ order_store_[k].order = pending_orders_[b].order
    BY <2>1 DEF TradeInv, LiveOrdersAreTracked
  <2>4. ~(k = l /\ LastOf(l, r))
    BY <2>1, LastFillEndsIt DEF FillEffect
  <2>5. get_broker_id(id_mapper_, k)' = b
    BY <2>1, <2>2, <2>4 DEF FillEffect
  <2>6. get_local_id(id_mapper_, b)' = k
    BY <2>2, <2>5 DEF LifeInv, TrackingInv, MapperInverse
  <2>7. /\ order_store_'[k].status \in OpenStatus
        /\ order_store_'[k].broker_id = b
        /\ order_store_'[k].order = pending_orders_[b].order
    BY <2>2, <2>3, <2>4 DEF FillEffect, OpenStatus
  <2> QED
    BY <2>2, <2>6, <2>7
<1> QED
  BY <1>1, <1>2, <1>3 DEF LiveOrdersAreTracked, Pending

LEMMA FillReports ==
    ASSUME TradeInv, NEW r, NEW l \in LocalIds, FillEffect(r, l)
    PROVE  ReportsArePlain'
<1>1. InTransit' \subseteq InTransit /\ \A x \in InTransit : x.broker_id \in BrokerIds
  BY TakenReport, TransitType DEF FillEffect, TradeInv, LifeInv, TrackingInv
<1>2. UNCHANGED <<broker_count, pending_orders_>> /\ None \notin BrokerIds
  BY Linked DEF FillEffect, Takes, TradeInv
<1>3. \A k \in LocalIds :
          get_broker_id(id_mapper_, k)' \in BrokerIds =>
              /\ get_broker_id(id_mapper_, k)' = get_broker_id(id_mapper_, k)
              /\ order_store_'[k].order = order_store_[k].order
  BY <1>2 DEF FillEffect
<1> QED
  BY <1>1, <1>2, <1>3 DEF TradeInv, ReportsArePlain, IsPlain

LEMMA FillAddsUp ==
    ASSUME TradeInv, LifeInv', NEW r, NEW l \in LocalIds, FillEffect(r, l)
    PROVE  FillsAddUp'
<1> SUFFICES ASSUME NEW k \in LocalIds, NEW b \in BrokerIds, get_broker_id(id_mapper_, k)' = b
             PROVE  order_store_'[k].filled_quantity + InFlight(b)' = Executed(b)'
  <2>1. \A k \in Mapped' : k \in LocalIds /\ get_broker_id(id_mapper_, k)' \in BrokerIds
    BY DEF Mapped, IsMapped, LifeInv, TrackingInv, TypeOK, Mapper, get_broker_id
  <2> QED
    BY <2>1 DEF FillsAddUp
<1>1. None \notin LocalIds /\ None \notin BrokerIds
  BY Linked DEF TradeInv
<1>2. get_broker_id(id_mapper_, k) = b /\ k \in Mapped
  BY <1>1 DEF FillEffect, Mapped, IsMapped
<1>3. get_local_id(id_mapper_, b) = k /\ get_local_id(id_mapper_, b)' = k
  BY <1>2, Linked DEF TradeInv, LifeInv, TrackingInv, MapperInverse
<1>4. order_store_[k].filled_quantity + InFlight(b) = Executed(b)
  BY <1>2 DEF TradeInv, FillsAddUp
<1>5. Executed(b)' = Executed(b)
  <2>1. order_store_'[k].order = order_store_[k].order
    BY DEF FillEffect
  <2> QED
    BY <1>3, <2>1 DEF Executed, FillEffect, Takes
<1>6. /\ InFlight(b)' \in Nat
      /\ InFlight(b) = (IF r.broker_id = b THEN r.filled_quantity ELSE 0) + InFlight(b)'
  BY TakenFlight DEF InFlight, FillEffect
<1>7. r.broker_id = b <=> k = l
  BY <1>2, Linked DEF FillEffect, TradeInv
<1>8. order_store_'[k].filled_quantity =
          order_store_[k].filled_quantity + (IF r.broker_id = b THEN r.filled_quantity ELSE 0)
  <2>1. order_store_[k].filled_quantity \in Nat
    BY <1>2, RowTypes, Linked DEF TradeInv, LifeInv, TrackingInv, TypeOK
  <2> QED
    BY <1>7, <2>1 DEF FillEffect
<1>9. order_store_[k].filled_quantity \in Nat /\ r.filled_quantity \in Nat
  BY <1>2, RowTypes, Linked, TakenReport DEF TradeInv, LifeInv, TrackingInv, TypeOK, FillEffect
<1> QED
  BY <1>4, <1>5, <1>6, <1>8, <1>9

LEMMA FillStream ==
    ASSUME TradeInv, NEW r, NEW l \in LocalIds, FillEffect(r, l)
    PROVE  StreamNeverAhead'
<1> SUFFICES ASSUME NEW b \in BrokerIds, streamed'[b] > 0
             PROVE  \E k \in LocalIds : /\ order_store_'[k] # None
                                        /\ order_store_'[k].broker_id = b
                                        /\ streamed'[b] <= order_store_'[k].filled_quantity
  BY DEF StreamNeverAhead, Stored
<1>1. /\ streamed[b] \in Nat
      /\ r.broker_id \in BrokerIds /\ r.filled_quantity \in Nat
      /\ order_store_[l] # None
      /\ order_store_[l].broker_id = r.broker_id
      /\ order_store_[l].filled_quantity \in Nat
  <2>1. Takes(r) /\ l \in Mapped /\ get_broker_id(id_mapper_, l) = r.broker_id
    BY DEF FillEffect
  <2> QED
    BY <2>1, TakenReport, Linked, RowTypes DEF TradeInv, LifeInv, TrackingInv, TypeOK
<1>2. streamed[b] > 0 => \E k \in LocalIds : /\ order_store_[k] # None
                                             /\ order_store_[k].broker_id = b
                                             /\ streamed[b] <= order_store_[k].filled_quantity
  BY DEF TradeInv, StreamNeverAhead, Stored
<1>3. /\ order_store_'[l] # None
      /\ order_store_'[l].broker_id = order_store_[l].broker_id
      /\ order_store_'[l].filled_quantity = order_store_[l].filled_quantity + r.filled_quantity
      /\ \A k \in LocalIds \ {l} : order_store_'[k] = order_store_[k]
      /\ streamed' \in {streamed, [streamed EXCEPT ![r.broker_id] = @ + r.filled_quantity]}
  BY DEF FillEffect
<1>4. CASE b # r.broker_id
  <2>1. streamed'[b] = streamed[b]
    BY <1>1, <1>3, <1>4 DEF TradeInv, LifeInv, TrackingInv, TypeOK
  <2> QED
    BY <1>1, <1>2, <1>3, <1>4, <2>1
<1>5. CASE b = r.broker_id
  <2>1. streamed'[b] <= streamed[b] + r.filled_quantity
    <3>1. streamed \in [BrokerIds -> Nat]
      BY DEF TradeInv, LifeInv, TrackingInv, TypeOK
    <3> QED
      BY <1>1, <1>3, <1>5, <3>1
  <2>2. streamed[b] <= order_store_[l].filled_quantity
    <3>1. CASE streamed[b] > 0
      <4>1. PICK k \in LocalIds : /\ order_store_[k] # None
                                  /\ order_store_[k].broker_id = b
                                  /\ streamed[b] <= order_store_[k].filled_quantity
        BY <1>2, <3>1
      <4>2. b # None
        BY Linked DEF TradeInv
      <4>3. k = l
        BY <1>1, <1>5, <4>1, <4>2 DEF TradeInv, RowsAreLinked
      <4> QED
        BY <4>1, <4>3
    <3> QED
      BY <1>1, <3>1
  <2>3. streamed'[b] \in Nat
    <3>1. streamed \in [BrokerIds -> Nat]
      BY DEF TradeInv, LifeInv, TrackingInv, TypeOK
    <3> QED
      BY <1>1, <1>3, <1>5, <3>1
  <2>4. streamed'[b] <= order_store_'[l].filled_quantity
    BY <1>1, <1>3, <2>1, <2>2, <2>3
  <2> QED
    BY <1>1, <1>3, <1>5, <2>4
<1> QED
  BY <1>4, <1>5

LEMMA FillPosition ==
    ASSUME TradeInv, LifeInv', NEW r, NEW l \in LocalIds, FillEffect(r, l)
    PROVE  PositionMatchesStore'
<1> SUFFICES ASSUME NEW s \in Symbols
             PROVE  positions_'[s].quantity = NetFilled(order_store_', s)
  BY DEF PositionMatchesStore
<1>1. /\ order_store_ \in Table /\ order_store_' \in Table
      /\ positions_ \in [Symbols -> Position]
  BY DEF TradeInv, LifeInv, TrackingInv, TypeOK
<1>2. /\ Takes(r) /\ l \in Mapped
      /\ get_broker_id(id_mapper_, l) = r.broker_id
      /\ order_store_'[l] # None
      /\ order_store_'[l].order = order_store_[l].order
      /\ order_store_'[l].filled_quantity = order_store_[l].filled_quantity + r.filled_quantity
      /\ \A k \in LocalIds \ {l} : order_store_'[k] = order_store_[k]
  BY DEF FillEffect
<1>3. r.filled_quantity \in Nat /\ order_store_[l] # None
  BY <1>2, TakenReport, Linked DEF TradeInv
<1>4. /\ order_store_[l].order.symbol = r.symbol
      /\ order_store_[l].order.side = r.side
  BY <1>2, TakenReport DEF IsPlain
<1>5. /\ NetFilled(order_store_, s) \in Int
      /\ NetFilled(order_store_', s) =
             NetFilled(order_store_, s) + IF r.symbol = s
                                          THEN signed_fill(r.side, r.filled_quantity) ELSE 0
  BY <1>1, <1>2, <1>3, <1>4, NetFilledMoved
<1>6. positions_[s].quantity = NetFilled(order_store_, s)
  BY DEF TradeInv, PositionMatchesStore
<1>7. positions_' = on_fill(positions_, r.symbol, r.filled_quantity, r.avg_fill_price, r.side)
  BY DEF FillEffect
<1>8. CASE r.filled_quantity = 0
  <2>1. positions_' = positions_
    BY <1>7, <1>8 DEF on_fill
  <2> QED
    BY <1>5, <1>6, <1>8, <2>1 DEF signed_fill
<1>9. CASE r.filled_quantity # 0
  <2>1. positions_' = [positions_ EXCEPT ![r.symbol] =
            FilledPosition(@, r.filled_quantity, r.avg_fill_price, r.side)]
    BY <1>3, <1>7, <1>9 DEF on_fill
  <2>2. CASE r.symbol = s
    <3>1. positions_'[s].quantity =
              positions_[s].quantity + signed_fill(r.side, r.filled_quantity)
      BY <1>1, <2>1, <2>2 DEF FilledPosition
    <3> QED
      BY <1>5, <1>6, <2>2, <3>1
  <2>3. CASE r.symbol # s
    BY <1>1, <1>5, <1>6, <2>1, <2>3
  <2> QED
    BY <2>2, <2>3
<1> QED
  BY <1>3, <1>8, <1>9

LEMMA FillAudit ==
    ASSUME TradeInv, NEW r, NEW l \in LocalIds, FillEffect(r, l)
    PROVE  AuditTrail' /\ JournalIsBehind'
<1> DEFINE e == IF LastOf(l, r) THEN "ORDER_FILLED" ELSE "ORDER_PARTIALLY_FILLED"
           entries == {<<e, l>>}
<1>1. journal_' = journal_ \cup entries /\ id_generator_' = id_generator_
  BY DEF FillEffect, Takes
<1>2. /\ l < id_generator_
      /\ order_store_[l] # None
      /\ order_store_[l].status \in {"SUBMITTED", "PARTIALLY_FILLED"}
  BY Linked DEF FillEffect, TradeInv
<1>3. JournalIsBehind'
  <2>1. \A x \in entries : x[2] # None => x[2] < id_generator_'
    BY <1>1, <1>2
  <2> HIDE DEF entries
  <2> QED
    BY <1>1, <2>1, BehindKept
<1>4. \A k \in LocalIds \ {l} : order_store_'[k] = order_store_[k]
  BY DEF FillEffect
<1>5. /\ e \in {"ORDER_FILLED", "ORDER_PARTIALLY_FILLED"}
      /\ order_store_'[l].status = IF e = "ORDER_FILLED" THEN "FILLED" ELSE "PARTIALLY_FILLED"
  BY DEF FillEffect
<1> HIDE DEF e
<1>6. \A x, k : <<x, k>> \in journal_' <=> <<x, k>> \in journal_ \/ (x = e /\ k = l)
  BY <1>1
<1>7. AuditTrail'
  <2> SUFFICES ASSUME NEW k \in LocalIds, order_store_'[k] # None
               PROVE  /\ (order_store_'[k].status = "FILLED")
                             = (<<"ORDER_FILLED", k>> \in journal_')
                      /\ (order_store_'[k].status = "CANCELLED")
                             = (<<"ORDER_CANCELLED", k>> \in journal_')
                      /\ (order_store_'[k].status = "REJECTED")
                             = (<<"ORDER_REJECTED", k>> \in journal_')
                      /\ (order_store_'[k].status \notin {"PENDING_SUBMISSION", "REJECTED"})
                             = (<<"ORDER_SUBMITTED", k>> \in journal_')
                      /\ order_store_'[k].filled_quantity > 0 =>
                             \/ <<"ORDER_FILLED", k>> \in journal_'
                             \/ <<"ORDER_PARTIALLY_FILLED", k>> \in journal_'
    BY DEF AuditTrail, Stored
  <2>1. order_store_[k] # None
    BY <1>2, <1>4
  <2>2. /\ (order_store_[k].status = "FILLED") = (<<"ORDER_FILLED", k>> \in journal_)
        /\ (order_store_[k].status = "CANCELLED") = (<<"ORDER_CANCELLED", k>> \in journal_)
        /\ (order_store_[k].status = "REJECTED") = (<<"ORDER_REJECTED", k>> \in journal_)
        /\ (order_store_[k].status \notin {"PENDING_SUBMISSION", "REJECTED"})
               = (<<"ORDER_SUBMITTED", k>> \in journal_)
        /\ order_store_[k].filled_quantity > 0 =>
               \/ <<"ORDER_FILLED", k>> \in journal_
               \/ <<"ORDER_PARTIALLY_FILLED", k>> \in journal_
    BY <2>1 DEF TradeInv, AuditTrail, Stored
  <2>3. CASE k # l
    BY <1>4, <1>6, <2>2, <2>3
  <2>4. CASE k = l
    BY <1>2, <1>5, <1>6, <2>2, <2>4
  <2> QED
    BY <2>3, <2>4
<1> QED
  BY <1>3, <1>7

LEMMA FillKeeps ==
    ASSUME TradeInv, LifeInv', GatewayInv', NEW r, NEW l \in LocalIds, FillEffect(r, l)
    PROVE  TradeInv'
BY FillLinks, FillPending, FillReports, FillAddsUp, FillStream, FillPosition, FillAudit
   DEF TradeInv

\* A dropped report was of no tracked order.
LEMMA DropKeeps ==
    ASSUME TradeInv, LifeInv', GatewayInv', NEW r, DropEffect(r)
    PROVE  TradeInv'
<1>1. /\ Takes(r)
      /\ UNCHANGED <<order_store_, id_mapper_, positions_, journal_, streamed, broker_count,
                     id_generator_, pending_orders_>>
  BY DEF DropEffect, Takes
<1>2. ReportsArePlain'
  BY <1>1, TakenReport DEF TradeInv, ReportsArePlain, IsPlain
<1>3. FillsAddUp'
  <2> SUFFICES ASSUME NEW l \in Mapped, NEW b \in BrokerIds, b = get_broker_id(id_mapper_, l)
               PROVE  InFlight(b)' = InFlight(b)
    <3>1. Mapped' = Mapped /\ \A l \in Mapped : get_broker_id(id_mapper_, l) \in BrokerIds
      BY <1>1, Linked DEF Mapped, IsMapped, TradeInv
    <3>2. \A b : Executed(b)' = Executed(b)
      BY <1>1 DEF Executed
    <3> QED
      BY <1>1, <3>1, <3>2 DEF TradeInv, FillsAddUp
  <2>1. r.broker_id # b
    BY Linked DEF DropEffect, TradeInv
  <2> QED
    BY <1>1, <2>1, TakenFlight DEF InFlight
<1> QED
  BY <1>1, <1>2, <1>3
  DEF TradeInv, RowsAreLinked, LiveOrdersAreTracked, NothingIsOverfilled, StreamNeverAhead,
      PositionMatchesStore, AuditTrail, JournalIsBehind, IsMapped, Pending

------------------------------------------------------------------------------
(* What the other threads keep.                                             *)

\* A step that moves reports along, or none, and touches nothing else.
LEMMA MovingReports ==
    ASSUME TradeInv, LifeInv', GatewayInv',
           UNCHANGED <<order_store_, id_mapper_, positions_, journal_, streamed, broker_count,
                       id_generator_, pending_orders_>>,
           InTransit' \subseteq InTransit,
           \A b \in BrokerIds : InFlight(b) =
               Generated(b, generated_fills_') + Enqueued(b, reports_queue_')
                   + Delivered(b, queue_')
    PROVE  TradeInv'
<1>1. ReportsArePlain'
  BY DEF TradeInv, ReportsArePlain, IsPlain
<1>2. FillsAddUp'
  <2> SUFFICES ASSUME NEW l \in Mapped, NEW b \in BrokerIds, b = get_broker_id(id_mapper_, l)
               PROVE  InFlight(b)' = InFlight(b)
    <3>1. Mapped' = Mapped /\ \A l \in Mapped : get_broker_id(id_mapper_, l) \in BrokerIds
      BY Linked DEF Mapped, IsMapped, TradeInv
    <3>2. \A b : Executed(b)' = Executed(b)
      BY DEF Executed
    <3> QED
      BY <3>1, <3>2 DEF TradeInv, FillsAddUp
  <2> QED
    BY DEF InFlight
<1> QED
  BY <1>1, <1>2
  DEF TradeInv, RowsAreLinked, LiveOrdersAreTracked, NothingIsOverfilled, StreamNeverAhead,
      PositionMatchesStore, AuditTrail, JournalIsBehind, IsMapped, Pending

LEMMA NothingMoves ==
    ASSUME TradeInv, LifeInv', GatewayInv',
           UNCHANGED <<order_store_, id_mapper_, positions_, journal_, streamed, broker_count,
                       id_generator_, pending_orders_, generated_fills_, reports_queue_, queue_>>
    PROVE  TradeInv'
<1>1. InTransit' = InTransit
  BY DEF InTransit
<1>2. \A b \in BrokerIds : InFlight(b) =
          Generated(b, generated_fills_') + Enqueued(b, reports_queue_') + Delivered(b, queue_')
  BY DEF InFlight
<1> QED
  BY <1>1, <1>2, MovingReports

\* An event joins the queue.
LEMMA QueueGrows ==
    ASSUME TypeOK, NEW e \in Command \cup ReportEvent, queue_' = Append(queue_, e)
    PROVE  {queue_'[i].report : i \in {j \in 1 .. Len(queue_') : queue_'[j].kind = "report"}}
               \subseteq {queue_[i].report : i \in {j \in 1 .. Len(queue_) :
                                                      queue_[j].kind = "report"}}
                             \cup (IF e.kind = "report" THEN {e.report} ELSE {})
<1> SUFFICES ASSUME NEW i \in 1 .. Len(queue_'), queue_'[i].kind = "report"
             PROVE  \/ \E j \in 1 .. Len(queue_) : /\ queue_[j].kind = "report"
                                                   /\ queue_'[i].report = queue_[j].report
                    \/ e.kind = "report" /\ queue_'[i].report = e.report
  OBVIOUS
<1>1. queue_ \in Seq(Command \cup ReportEvent)
  BY DEF TypeOK
<1>2. CASE i = Len(queue_) + 1
  <2>1. queue_'[i] = e
    BY <1>1, <1>2
  <2> QED
    BY <2>1
<1>3. CASE i # Len(queue_) + 1
  <2>1. i \in 1 .. Len(queue_) /\ queue_'[i] = queue_[i]
    BY <1>1, <1>3
  <2> QED
    BY <2>1
<1> QED
  BY <1>2, <1>3

LEMMA ClientAppends ==
    ASSUME PaperClient
    PROVE  queue_' = queue_ \/ \E e \in Command : queue_' = Append(queue_, e)
<1>1. ASSUME NEW cmd \in Command, process_signal(cmd)
      PROVE  \E e \in Command : queue_' = Append(queue_, e)
  BY <1>1 DEF process_signal, enqueue
<1>2. /\ \A c \in Clients, signal \in Signals :
             [kind |-> "submit", client |-> c, signal |-> signal] \in Command
      /\ \A c \in Clients, l \in LocalIds :
             [kind |-> "cancel", client |-> c, order_id |-> l] \in Command
      /\ \A c \in Clients, l \in LocalIds, signal \in Signals :
             [kind |-> "replace", client |-> c, order_id |-> l, signal |-> signal] \in Command
      /\ \A c \in Clients : [kind |-> "cancel_all", client |-> c] \in Command
  BY DEF Command, SubmitCommand, CancelCommand, ReplaceCommand, CancelAllCommand
<1> QED
  BY <1>1, <1>2 DEF PaperClient, ClientStep, SubmitSignal, CancelSignal, ReplaceSignal,
                    cancel_all, set_fill_sink, clear_fill_sink, SwitchFillSink

LEMMA ClientKeeps ==
    ASSUME TradeInv, LifeInv', GatewayInv', PaperClient
    PROVE  TradeInv'
<1>1. UNCHANGED <<order_store_, id_mapper_, positions_, journal_, streamed, broker_count,
                  id_generator_, pending_orders_, generated_fills_, reports_queue_>>
  BY DEF PaperClient, ClientStep, SubmitSignal, CancelSignal, ReplaceSignal, cancel_all,
         process_signal, set_fill_sink, clear_fill_sink, SwitchFillSink, gatewayVars
<1>2. CASE queue_' = queue_
  BY <1>1, <1>2, NothingMoves
<1>3. ASSUME NEW e \in Command, queue_' = Append(queue_, e)
      PROVE  TradeInv'
  <2>1. e.kind # "report" /\ e \in Command \cup ReportEvent
    BY DEF Command, SubmitCommand, CancelCommand, ReplaceCommand, CancelAllCommand
  <2>2. InTransit' \subseteq InTransit
    BY <1>1, <1>3, <2>1, QueueGrows DEF InTransit, TradeInv, LifeInv, TrackingInv
  <2>3. \A b \in BrokerIds : Delivered(b, queue_') = Delivered(b, queue_)
    <3> SUFFICES ASSUME NEW b \in BrokerIds
                 PROVE  Delivered(b, queue_') = Delivered(b, queue_)
      OBVIOUS
    <3>1. EventShare(b)[e] = 0
      BY <2>1, SharesNat
    <3>2. Delivered(b, Append(queue_, e)) = Delivered(b, queue_) + EventShare(b)[e]
      BY <2>1, DeliveredAppend, TradeTypes DEF TradeInv, LifeInv, TrackingInv
    <3>3. Delivered(b, queue_) \in Nat
      BY InFlightParts, TradeTypes DEF TradeInv, LifeInv, TrackingInv
    <3> QED
      BY <1>3, <3>1, <3>2, <3>3
  <2>4. \A b \in BrokerIds : InFlight(b) =
            Generated(b, generated_fills_') + Enqueued(b, reports_queue_')
                + Delivered(b, queue_')
    BY <1>1, <2>3 DEF InFlight
  <2> QED
    BY <1>1, <2>2, <2>4, MovingReports
<1> QED
  BY <1>2, <1>3, ClientAppends

\* Reports between the simulation, the gateway's queue and the engine's.
LEMMA GeneratedRemove ==
    ASSUME NEW b, NEW G \in SUBSET Reports, IsFiniteSet(G), NEW r \in G
    PROVE  Generated(b, G) = Share(b)[r] + Generated(b, G \ {r})
<1> DEFINE w == Share(b)
           R == G \ {r}
<1>1. R \in SUBSET Reports /\ IsFiniteSet(R) /\ \A x \in G : w[x] \in Int
  BY SharesNat, FS_RemoveElement
<1>2. Generated(b, G) = Sum(w, G)
  BY GeneratedIs
<1>3. Generated(b, R) = Sum(w, R)
  BY <1>1, GeneratedIs
<1>4. Sum(w, G) = w[r] + Sum(w, G \ {r})
  <2> HIDE DEF w, R
  <2> QED
    BY <1>1, SumRemove
<1> QED
  BY <1>2, <1>3, <1>4

LEMMA EnqueuedMoves ==
    ASSUME NEW b, NEW q \in Seq(Reports)
    PROVE  /\ \A r \in Reports : Enqueued(b, Append(q, r)) = Enqueued(b, q) + Share(b)[r]
           /\ q # <<>> => Enqueued(b, q) = Share(b)[Head(q)] + Enqueued(b, Tail(q))
<1> DEFINE w == Share(b)
<1>1. \A r \in Reports : w[r] \in Nat
  BY SharesNat
<1>2. \A p \in Seq(Reports) : Enqueued(b, p) = Tally(w, p)
  BY EnqueuedIs
<1> HIDE DEF w
<1>3. ASSUME NEW r \in Reports
      PROVE  Enqueued(b, Append(q, r)) = Enqueued(b, q) + w[r]
  <2>1. Tally(w, Append(q, r)) = Tally(w, q) + w[r]
    BY <1>1, TallyAppend
  <2>2. Append(q, r) \in Seq(Reports)
    OBVIOUS
  <2> QED
    BY <1>2, <2>1, <2>2
<1>4. ASSUME q # <<>>
      PROVE  Enqueued(b, q) = w[Head(q)] + Enqueued(b, Tail(q))
  <2>1. Tally(w, q) = w[Head(q)] + Tally(w, Tail(q))
    BY <1>1, <1>4, TallyTail
  <2>2. Tail(q) \in Seq(Reports)
    BY <1>4
  <2> QED
    BY <1>2, <2>1, <2>2
<1> QED
  BY <1>3, <1>4 DEF w

LEMMA EnqueueKeeps ==
    ASSUME TradeInv, LifeInv', GatewayInv', EnqueueFill
    PROVE  TradeInv'
<1>1. PICK r \in generated_fills_ : enqueue_report(r)
  BY DEF EnqueueFill
<1>2. /\ reports_queue_' = Append(reports_queue_, r)
      /\ generated_fills_' = generated_fills_ \ {r}
      /\ UNCHANGED <<order_store_, id_mapper_, positions_, journal_, streamed, broker_count,
                     id_generator_, pending_orders_, queue_>>
  BY <1>1 DEF EnqueueFill, enqueue_report, omVars
<1>3. /\ generated_fills_ \in SUBSET Reports /\ IsFiniteSet(generated_fills_)
      /\ reports_queue_ \in Seq(Reports) /\ r \in Reports
      /\ queue_ \in Seq(Command \cup ReportEvent)
  BY TradeTypes DEF TradeInv, LifeInv, TrackingInv
<1>4. InTransit' \subseteq InTransit
  <2>1. \A i \in 1 .. Len(reports_queue_') :
            \/ i \in 1 .. Len(reports_queue_) /\ reports_queue_'[i] = reports_queue_[i]
            \/ reports_queue_'[i] = r
    BY <1>2, <1>3
  <2> QED
    BY <1>2, <2>1 DEF InTransit
<1>5. ASSUME NEW b \in BrokerIds
      PROVE  InFlight(b) = Generated(b, generated_fills_') + Enqueued(b, reports_queue_')
                               + Delivered(b, queue_')
  <2>1. Generated(b, generated_fills_) = Share(b)[r] + Generated(b, generated_fills_ \ {r})
    BY <1>3, GeneratedRemove
  <2>2. Enqueued(b, Append(reports_queue_, r)) = Enqueued(b, reports_queue_) + Share(b)[r]
    BY <1>3, EnqueuedMoves
  <2>3. /\ Generated(b, generated_fills_ \ {r}) \in Nat
        /\ Enqueued(b, reports_queue_) \in Nat
        /\ Delivered(b, queue_) \in Nat
        /\ Share(b)[r] \in Nat
    <3>1. generated_fills_ \ {r} \in SUBSET Reports /\ IsFiniteSet(generated_fills_ \ {r})
      BY <1>3, FS_RemoveElement
    <3> QED
      BY <1>3, <3>1, InFlightParts, SharesNat
  <2> QED
    BY <1>2, <2>1, <2>2, <2>3 DEF InFlight
<1> QED
  BY <1>2, <1>4, <1>5, MovingReports

LEMMA DeliverKeeps ==
    ASSUME TradeInv, LifeInv', GatewayInv', DeliverReport
    PROVE  TradeInv'
<1>1. PICK r \in Reports : PopReport(r) /\ GatewayReport(r)
  BY DEF DeliverReport
<1> DEFINE e == [kind |-> "report", report |-> r]
<1>2. /\ reports_queue_ # <<>> /\ r = Head(reports_queue_)
      /\ reports_queue_' = Tail(reports_queue_)
      /\ queue_' = Append(queue_, e)
      /\ UNCHANGED <<order_store_, id_mapper_, positions_, journal_, streamed, broker_count,
                     id_generator_, pending_orders_, generated_fills_>>
  BY <1>1 DEF PopReport, GatewayReport, enqueue
<1>3. /\ generated_fills_ \in SUBSET Reports /\ IsFiniteSet(generated_fills_)
      /\ reports_queue_ \in Seq(Reports)
      /\ queue_ \in Seq(Command \cup ReportEvent)
      /\ e \in Command \cup ReportEvent /\ e.kind = "report" /\ e.report = r
  BY TradeTypes DEF TradeInv, LifeInv, TrackingInv, ReportEvent
<1> HIDE DEF e
<1>4. InTransit' \subseteq InTransit
  <2>1. \A i \in 1 .. Len(reports_queue_') :
            i + 1 \in 1 .. Len(reports_queue_) /\ reports_queue_'[i] = reports_queue_[i + 1]
    BY <1>2, <1>3
  <2>2. r \in {reports_queue_[i] : i \in 1 .. Len(reports_queue_)}
    <3>1. 1 \in 1 .. Len(reports_queue_) /\ r = reports_queue_[1]
      BY <1>2, <1>3
    <3> QED
      BY <3>1
  <2>3. {queue_'[i].report : i \in {j \in 1 .. Len(queue_') : queue_'[j].kind = "report"}}
            \subseteq {queue_[i].report : i \in {j \in 1 .. Len(queue_) :
                                                   queue_[j].kind = "report"}} \cup {r}
    BY <1>2, <1>3, QueueGrows DEF TradeInv, LifeInv, TrackingInv
  <2>4. {reports_queue_'[i] : i \in 1 .. Len(reports_queue_')}
            \subseteq {reports_queue_[i] : i \in 1 .. Len(reports_queue_)}
    BY <2>1
  <2> QED
    BY <1>2, <2>2, <2>3, <2>4 DEF InTransit
<1>5. ASSUME NEW b \in BrokerIds
      PROVE  InFlight(b) = Generated(b, generated_fills_') + Enqueued(b, reports_queue_')
                               + Delivered(b, queue_')
  <2>1. Enqueued(b, reports_queue_) = Share(b)[r] + Enqueued(b, Tail(reports_queue_))
    BY <1>2, <1>3, EnqueuedMoves
  <2>2. Delivered(b, Append(queue_, e)) = Delivered(b, queue_) + Share(b)[r]
    BY <1>3, DeliveredAppend, SharesNat
  <2>3. /\ Generated(b, generated_fills_) \in Nat
        /\ Enqueued(b, Tail(reports_queue_)) \in Nat
        /\ Delivered(b, queue_) \in Nat
        /\ Share(b)[r] \in Nat
    <3>1. Tail(reports_queue_) \in Seq(Reports)
      BY <1>2, <1>3
    <3> QED
      BY <1>3, <3>1, InFlightParts, SharesNat
  <2> QED
    BY <1>2, <2>1, <2>2, <2>3 DEF InFlight
<1> QED
  BY <1>2, <1>4, <1>5, MovingReports

\* A pass makes at most one report of an order.
LEMMA OneReport ==
    ASSUME NEW b, NEW G \in SUBSET Reports, IsFiniteSet(G)
    PROVE  /\ (\A x \in G : x.broker_id # b) => Generated(b, G) = 0
           /\ \A r \in G : r.broker_id = b /\ (\A x \in G \ {r} : x.broker_id # b)
                               => Generated(b, G) = r.filled_quantity
<1>1. ASSUME NEW H \in SUBSET Reports, IsFiniteSet(H), \A x \in H : x.broker_id # b
      PROVE  Generated(b, H) = 0
  <2> DEFINE w == Share(b)
  <2>1. \A x \in H : w[x] = 0
    BY <1>1 DEF Share
  <2>2. Generated(b, H) = Sum(w, H)
    BY <1>1, GeneratedIs
  <2> HIDE DEF w
  <2> QED
    BY <1>1, <2>1, <2>2, SumZero
<1>2. ASSUME NEW r \in G, r.broker_id = b, \A x \in G \ {r} : x.broker_id # b
      PROVE  Generated(b, G) = r.filled_quantity
  <2>1. G \ {r} \in SUBSET Reports /\ IsFiniteSet(G \ {r})
    BY FS_RemoveElement
  <2>2. Generated(b, G \ {r}) = 0
    BY <1>1, <1>2, <2>1
  <2>3. Generated(b, G) = Share(b)[r] + Generated(b, G \ {r})
    BY GeneratedRemove
  <2>4. Share(b)[r] = r.filled_quantity /\ Share(b)[r] \in Nat
    BY <1>2, SharesNat DEF Share
  <2> QED
    BY <2>2, <2>3, <2>4
<1> QED
  BY <1>1, <1>2

\* What a pass draws for an order: no more than remains of it, and all of that
\* or something but not nothing.
LEMMA DrawnQuantity ==
    ASSUME NEW rem \in Int, NEW n \in fill_quantities(rem)
    PROVE  n <= rem /\ (n < rem => n >= 1)
BY DEF fill_quantities

LEMMA PassKeeps ==
    ASSUME TradeInv, LifeInv', GatewayInv', SimulationPass, UNCHANGED omVars
    PROVE  TradeInv'
<1>1. PICK filled \in SUBSET Pending : \E fills \in [filled -> FillQuantity \X Prices] :
          simulate_fills(fills)
  BY DEF SimulationPass
<1>2. PICK fills \in [filled -> FillQuantity \X Prices] : simulate_fills(fills)
  BY <1>1
<1> DEFINE qty(b) == fills[b][1]
           report(b) == PlainFill(b, fills[b][1], fills[b][2])
<1>3. /\ DOMAIN fills = filled
      /\ generated_fills_ = {}
      /\ generated_fills_' = {report(b) : b \in filled}
      /\ UNCHANGED <<reports_queue_, queue_, order_store_, id_mapper_, positions_, journal_,
                     streamed, broker_count, id_generator_>>
  BY <1>2 DEF simulate_fills, TradeInv, GatewayInv, omVars
<1>4. \A b \in filled :
          /\ b \in Pending /\ b \in BrokerIds
          /\ qty(b) \in Nat
          /\ pending_orders_[b] \in SimulatedOrder
          /\ pending_orders_[b].order.quantity \in Nat
          /\ pending_orders_[b].cumulative_filled \in Nat
          /\ remaining(b) \in Int
          /\ qty(b) <= remaining(b)
          /\ qty(b) < remaining(b) => qty(b) >= 1
          /\ report(b) \in Reports
  BY <1>2, PassEffect, DrawnQuantity DEF TradeInv, LifeInv, TrackingInv
<1>5. \A b \in filled : /\ report(b).broker_id = b
                        /\ report(b).filled_quantity = qty(b)
                        /\ report(b).status = "NONE"
                        /\ report(b).symbol = pending_orders_[b].order.symbol
                        /\ report(b).side = pending_orders_[b].order.side
  BY DEF PlainFill
<1>6. \A b \in BrokerIds :
          pending_orders_'[b] = IF b \in filled THEN AfterFill(b, qty(b)) ELSE pending_orders_[b]
  BY <1>2, <1>3 DEF simulate_fills
<1> HIDE DEF report, qty
<1>7. ASSUME NEW b \in filled
      PROVE  IF qty(b) = remaining(b)
             THEN pending_orders_'[b] = None
             ELSE /\ qty(b) < remaining(b)
                  /\ pending_orders_'[b] # None
                  /\ pending_orders_'[b].order = pending_orders_[b].order
                  /\ pending_orders_'[b].cumulative_filled =
                         pending_orders_[b].cumulative_filled + qty(b)
  <2>1. /\ b \in BrokerIds /\ qty(b) \in Nat /\ remaining(b) \in Int /\ qty(b) <= remaining(b)
        /\ pending_orders_[b] \in SimulatedOrder
        /\ pending_orders_[b].cumulative_filled + qty(b) \in Nat
    BY <1>4
  <2>2. pending_orders_'[b] = AfterFill(b, qty(b))
    BY <1>6, <2>1
  <2>3. CASE qty(b) = remaining(b)
    BY <2>1, <2>2, <2>3 DEF AfterFill
  <2>4. CASE qty(b) # remaining(b)
    <3>1. pending_orders_'[b] = [pending_orders_[b] EXCEPT !.cumulative_filled = @ + qty(b)]
      BY <2>1, <2>2, <2>4 DEF AfterFill
    <3>2. pending_orders_'[b] \in SimulatedOrder
      BY <2>1, <3>1 DEF SimulatedOrder
    <3> QED
      BY <2>1, <2>4, <3>1, <3>2, NoneIsNotPending DEF SimulatedOrder
  <2> QED
    BY <2>3, <2>4
<1>8. \A b \in Pending' : /\ b \in Pending
                          /\ pending_orders_'[b].order = pending_orders_[b].order
  BY <1>4, <1>6, <1>7 DEF Pending
<1>9. LiveOrdersAreTracked'
  BY <1>3, <1>8 DEF TradeInv, LiveOrdersAreTracked
<1>10. NothingIsOverfilled'
  <2> SUFFICES ASSUME NEW b \in Pending'
               PROVE  \/ pending_orders_'[b].cumulative_filled = 0
                      \/ pending_orders_'[b].cumulative_filled < pending_orders_'[b].order.quantity
    BY DEF NothingIsOverfilled
  <2>1. b \in BrokerIds /\ b \in Pending
    BY <1>8 DEF Pending
  <2>2. CASE b \in filled
    BY <1>4, <1>7, <1>8, <2>1, <2>2 DEF remaining, Pending
  <2>3. CASE b \notin filled
    BY <1>6, <2>1, <2>3 DEF TradeInv, NothingIsOverfilled
  <2> QED
    BY <2>2, <2>3
<1>11. ReportsArePlain'
  <2> SUFFICES ASSUME NEW r \in InTransit'
               PROVE  /\ r.status = "NONE"
                      /\ r.broker_id < broker_count
                      /\ pending_orders_'[r.broker_id] # None => r.filled_quantity >= 1
                      /\ \A l \in LocalIds :
                             get_broker_id(id_mapper_, l) = r.broker_id =>
                                 /\ order_store_[l].order.symbol = r.symbol
                                 /\ order_store_[l].order.side = r.side
    BY <1>3 DEF ReportsArePlain, IsPlain
  <2>1. ASSUME NEW b \in filled, r = report(b)
        PROVE  /\ r.broker_id < broker_count
               /\ pending_orders_'[r.broker_id] # None => r.filled_quantity >= 1
               /\ \A l \in LocalIds :
                      get_broker_id(id_mapper_, l) = r.broker_id =>
                          /\ order_store_[l].order.symbol = r.symbol
                          /\ order_store_[l].order.side = r.side
    <3>1. b \in Pending /\ b \in BrokerIds /\ r.broker_id = b
      BY <1>4, <1>5, <2>1
    <3>2. PICK k \in Mapped : k = get_local_id(id_mapper_, b) /\ get_broker_id(id_mapper_, k) = b
      BY <3>1, PendingIsTracked
    <3>3. b < broker_count
      BY <3>2, Linked DEF TradeInv
    <3>4. order_store_[k].order = pending_orders_[b].order
      BY <3>1, <3>2 DEF TradeInv, LiveOrdersAreTracked
    <3>5. \A l \in LocalIds : get_broker_id(id_mapper_, l) = b => l = k
      BY <3>1, <3>2 DEF TradeInv, LifeInv, TrackingInv, MapperInverse
    <3>6. pending_orders_'[b] # None => r.filled_quantity >= 1
      BY <1>4, <1>5, <1>7, <2>1
    <3> QED
      BY <1>5, <2>1, <3>1, <3>3, <3>4, <3>5, <3>6
  <2>2. CASE r \in InTransit
    <3>1. IsPlain(r) /\ r.broker_id \in BrokerIds
      BY <2>2, TransitType DEF TradeInv, ReportsArePlain, LifeInv, TrackingInv
    <3>2. pending_orders_'[r.broker_id] # None => pending_orders_[r.broker_id] # None
      BY <1>8, <3>1 DEF Pending
    <3> QED
      BY <3>1, <3>2 DEF IsPlain
  <2>3. CASE r \notin InTransit
    <3>1. PICK b \in filled : r = report(b)
      BY <1>3, <2>3 DEF InTransit
    <3> QED
      BY <1>5, <2>1, <3>1
  <2> QED
    BY <2>2, <2>3
<1>12. \A b \in BrokerIds :
           Generated(b, generated_fills_') = IF b \in filled THEN qty(b) ELSE 0
  <2> SUFFICES ASSUME NEW b \in BrokerIds
               PROVE  Generated(b, generated_fills_') = IF b \in filled THEN qty(b) ELSE 0
    OBVIOUS
  <2>1. generated_fills_' \in SUBSET Reports /\ IsFiniteSet(generated_fills_')
    BY DEF GatewayInv, GatewayTypeOK
  <2>2. CASE b \in filled
    <3>1. report(b) \in generated_fills_'
      BY <1>3, <2>2
    <3>2. \A x \in generated_fills_' \ {report(b)} : x.broker_id # b
      BY <1>3, <1>5
    <3>3. report(b).broker_id = b /\ report(b).filled_quantity = qty(b)
      BY <1>5, <2>2
    <3> QED
      BY <2>1, <2>2, <3>1, <3>2, <3>3, OneReport
  <2>3. CASE b \notin filled
    <3>1. \A x \in generated_fills_' : x.broker_id # b
      BY <1>3, <1>5, <2>3
    <3> QED
      BY <2>1, <2>3, <3>1, OneReport
  <2> QED
    BY <2>2, <2>3
<1>13. FillsAddUp'
  <2> SUFFICES ASSUME NEW l \in Mapped, NEW b \in BrokerIds, b = get_broker_id(id_mapper_, l)
               PROVE  order_store_[l].filled_quantity + InFlight(b)' = Executed(b)'
    <3>1. Mapped' = Mapped /\ \A l \in Mapped : get_broker_id(id_mapper_, l) \in BrokerIds
      BY <1>3, Linked DEF Mapped, IsMapped, TradeInv
    <3> QED
      BY <1>3, <3>1 DEF FillsAddUp
  <2>1. get_local_id(id_mapper_, b) = l
    BY Linked DEF TradeInv
  <2>2. order_store_[l].filled_quantity + InFlight(b) = Executed(b)
    BY DEF TradeInv, FillsAddUp
  <2>3. /\ Generated(b, generated_fills_) = 0
        /\ InFlight(b) = Enqueued(b, reports_queue_) + Delivered(b, queue_)
        /\ InFlight(b)' = (IF b \in filled THEN qty(b) ELSE 0) + InFlight(b)
        /\ InFlight(b) \in Nat
    <3>1. /\ {} \in SUBSET Reports /\ IsFiniteSet({})
      BY FS_EmptySet
    <3>2. Generated(b, generated_fills_) = 0
      BY <1>3, <3>1, OneReport
    <3>3. Enqueued(b, reports_queue_) \in Nat /\ Delivered(b, queue_) \in Nat
      BY InFlightParts, TradeTypes DEF TradeInv, LifeInv, TrackingInv
    <3>4. b \in filled => qty(b) \in Nat
      BY <1>4
    <3> QED
      BY <1>3, <1>12, <3>2, <3>3, <3>4 DEF InFlight
  <2>4. CASE b \notin filled
    <3>1. pending_orders_'[b] = pending_orders_[b]
      BY <1>6, <2>4
    <3>2. Executed(b)' = Executed(b)
      BY <1>3, <3>1 DEF Executed
    <3> QED
      BY <2>2, <2>3, <2>4, <3>2
  <2>5. CASE b \in filled
    <3>1. /\ pending_orders_[b] # None
          /\ order_store_[l].order = pending_orders_[b].order
      BY <1>4, <2>1, <2>5 DEF TradeInv, LiveOrdersAreTracked, Pending
    <3>2. order_store_[l].filled_quantity + InFlight(b) = pending_orders_[b].cumulative_filled
      BY <2>2, <3>1 DEF Executed
    <3>3. Executed(b)' = pending_orders_[b].cumulative_filled + qty(b)
      <4>1. CASE qty(b) = remaining(b)
        <5>1. Executed(b)' = pending_orders_[b].order.quantity
          BY <1>3, <1>7, <2>1, <2>5, <3>1, <4>1 DEF Executed
        <5> QED
          BY <1>4, <2>5, <4>1, <5>1 DEF remaining
      <4>2. CASE qty(b) # remaining(b)
        BY <1>7, <2>5, <4>2 DEF Executed
      <4> QED
        BY <4>1, <4>2
    <3>4. order_store_[l].filled_quantity \in Nat
      BY RowTypes, Linked DEF TradeInv, LifeInv, TrackingInv, TypeOK
    <3> QED
      BY <1>4, <2>3, <2>5, <3>2, <3>3, <3>4
  <2> QED
    BY <2>4, <2>5
<1> QED
  BY <1>3, <1>9, <1>10, <1>11, <1>13
  DEF TradeInv, RowsAreLinked, StreamNeverAhead, PositionMatchesStore, AuditTrail,
      JournalIsBehind, IsMapped

------------------------------------------------------------------------------
(* The theorems about trading while the store does not fail.                *)

\* A step of the dispatch thread.
LEMMA DispatchKeeps ==
    ASSUME TradeInv, LifeInv', GatewayInv', FaultyCalls = {}, DispatchThread
    PROVE  TradeInv'
<1>1. ASSUME NEW fail \in SUBSET SubmitFaults, PaperSubmit(fail)
      PROVE  TradeInv'
  BY <1>1, SubmitEffect, CommandKeeps
<1>2. ASSUME NEW fail \in SUBSET CancelFaults, PaperCancel(fail)
      PROVE  TradeInv'
  BY <1>2, CancelEffect, CommandKeeps
<1>3. ASSUME NEW fail \in SUBSET ReplaceFaults, PaperReplace(fail)
      PROVE  TradeInv'
  BY <1>3, ReplaceEffect, CommandKeeps
<1>4. ASSUME NEW fail \in SUBSET SweepFaults, NEW unrecorded \in SUBSET LocalIds,
             PaperCancelAll(fail, unrecorded)
      PROVE  TradeInv'
  BY <1>4, CancelAllEffect, CommandKeeps
<1>5. ASSUME NEW fail \in SUBSET FillFaults, PaperFill(fail)
      PROVE  TradeInv'
  <2>1. PICK r : DropEffect(r) \/ \E l \in LocalIds : FillEffect(r, l)
    BY <1>5, FillHasEffect
  <2> QED
    BY <2>1, DropKeeps, FillKeeps
<1>6. CASE LeaveLoop /\ UNCHANGED gatewayVars
  BY <1>6, NothingMoves DEF LeaveLoop, Enters, gatewayVars
<1> QED
  BY <1>1, <1>2, <1>3, <1>4, <1>5, <1>6 DEF DispatchThread

LEMMA NextTrade ==
    ASSUME FaultyCalls = {}
    PROVE  TradeInv /\ LifeInv' /\ GatewayInv' /\ [PaperNext]_vars => TradeInv'
<1> SUFFICES ASSUME TradeInv, LifeInv', GatewayInv', [PaperNext]_vars PROVE TradeInv'
  OBVIOUS
<1>1. CASE DispatchThread
  BY <1>1, DispatchKeeps
<1>2. CASE PaperClient
  BY <1>2, ClientKeeps
<1>3. CASE Simulate
  <2>1. CASE CheckRunning
    BY <1>3, <2>1, NothingMoves DEF Simulate, CheckRunning, omVars
  <2> QED
    BY <1>3, <2>1, PassKeeps DEF Simulate
<1>4. CASE EnqueueFill
  BY <1>4, EnqueueKeeps
<1>5. CASE DeliverReport
  BY <1>5, DeliverKeeps
<1>6. CASE StopGateway
  BY <1>6, NothingMoves DEF StopGateway, Destroy, Enters, stop
<1>7. CASE StopDispatcher
  BY <1>7, NothingMoves DEF StopDispatcher, stop_dispatcher, omVars
<1>8. CASE DispatcherLoop
  BY <1>8, NothingMoves DEF DispatcherLoop, NothingToDo, Wait, DispatcherExit, omVars
<1>9. CASE GatewayJoined
  BY <1>9, NothingMoves DEF GatewayJoined, GatewayStopped, Enters, gatewayVars
<1>10. CASE UNCHANGED vars \/ Hung \/ (Destroyed /\ UNCHANGED gatewayVars)
  BY <1>10, NothingMoves DEF vars, Hung, Destroyed, omVars, gatewayVars
<1> QED
  BY <1>1, <1>2, <1>3, <1>4, <1>5, <1>6, <1>7, <1>8, <1>9, <1>10 DEF PaperNext

LEMMA InitTrade == PaperInit /\ LifeInv /\ GatewayInv => TradeInv
<1> SUFFICES ASSUME PaperInit, LifeInv, GatewayInv PROVE TradeInv
  OBVIOUS
<1>1. /\ \A l \in LocalIds : order_store_[l] = None
      /\ \A l \in LocalIds : get_broker_id(id_mapper_, l) = None
      /\ \A b \in BrokerIds : pending_orders_[b] = None /\ streamed[b] = 0
      /\ \A s \in Symbols : positions_[s].quantity = 0
      /\ queue_ = <<>> /\ reports_queue_ = <<>> /\ generated_fills_ = {} /\ journal_ = {}
  BY DEF PaperInit, Init, GatewayInit, EmptyTable, EmptyMapper, get_broker_id, FlatPosition
<1>2. Mapped = {} /\ Pending = {} /\ Stored(order_store_) = {} /\ InTransit = {}
  BY <1>1 DEF Mapped, IsMapped, Pending, Stored, InTransit
<1>3. PositionMatchesStore
  <2> SUFFICES ASSUME NEW s \in Symbols PROVE NetFilled(order_store_, s) = 0
    BY <1>1 DEF PositionMatchesStore
  <2> DEFINE w == Net(order_store_, s)
  <2>1. \A l \in LocalIds : w[l] = 0
    BY <1>1 DEF Net
  <2>2. NetFilled(order_store_, s) = Sum(w, LocalIds)
    BY NetFilledIs DEF LifeInv, TrackingInv, TypeOK
  <2> HIDE DEF w
  <2> QED
    BY <2>1, <2>2, SumZero, IdsFinite
<1> QED
  BY <1>1, <1>2, <1>3
  DEF TradeInv, RowsAreLinked, LiveOrdersAreTracked, NothingIsOverfilled, ReportsArePlain,
      FillsAddUp, StreamNeverAhead, AuditTrail, JournalIsBehind

LEMMA TradeInvariant ==
    ASSUME FaultyCalls = {}
    PROVE  PaperSpec => []TradeInv
BY InitTrade, NextTrade, PaperLives, GatewayInvariant, PTL DEF PaperSpec

\* As long as no store call fails, an order the gateway can still execute is one
\* the engine tracks, on the same terms, in an open row that has its broker id:
\* no handler forgets an order before the gateway is done with it.
THEOREM LiveOrdersStayTracked ==
    ASSUME FaultyCalls = {}
    PROVE  PaperSpec => []LiveOrdersAreTracked
BY TradeInvariant, PTL DEF TradeInv

\* As long as no store call fails, what the store has recorded of a tracked order
\* and what is on its way through the simulation, the gateway's queue and the
\* engine's add up to what the gateway executed; and no stream is ahead of the
\* store.  (PaperGateway::simulate_fills, GatewayDispatchBase, handle_fill.)
THEOREM NoFillIsLostOrRepeated ==
    ASSUME FaultyCalls = {}
    PROVE  PaperSpec => []FillsAreConserved
<1>1. TradeInv => FillsAreConserved
  BY DEF TradeInv, FillsAddUp, FillsAreConserved
<1> QED
  BY <1>1, TradeInvariant, PTL

\* As long as no store call fails, the position PositionKeeper holds in memory is
\* the signed sum of what the rows have been filled by.
THEOREM PositionsFollowTheStore ==
    ASSUME FaultyCalls = {}
    PROVE  PaperSpec => []PositionMatchesStore
BY TradeInvariant, PTL DEF TradeInv

\* As long as no store call fails, the journal tells of every order what its row
\* does: that it was submitted, that it was filled in part, and how it ended.
THEOREM JournalTellsEveryFate ==
    ASSUME FaultyCalls = {}
    PROVE  PaperSpec => []AuditTrail
BY TradeInvariant, PTL DEF TradeInv

\* Only the kill switch's handler handles a cancel_all command.
LEMMA HandlesCancelAll ==
    ASSUME TypeOK, Handles("cancel_all"), [PaperNext]_vars
    PROVE  \E fail \in SUBSET SweepFaults, unrecorded \in SUBSET LocalIds :
               PaperCancelAll(fail, unrecorded)
<1>1. /\ queue_ # <<>> /\ event.kind = "cancel_all"
      /\ queue_' # queue_
      /\ \A e : queue_' # Append(queue_, e)
  BY DEF Handles, TypeOK
<1>2. CASE DispatchThread
  <2>1. \A fail : ~PaperSubmit(fail)
    BY <1>1 DEF PaperSubmit, SubmitNotStored, SubmitRefusedByRisk, SubmitRejectedByGateway,
                SubmitNotRecorded, SubmitAccepted, Dispatch
  <2>2. \A fail : ~PaperCancel(fail)
    BY <1>1 DEF PaperCancel, CancelUnknown, Refuse, CancelNotRecorded, CancelDone, Dispatch
  <2>3. \A fail : ~PaperReplace(fail)
    BY <1>1 DEF PaperReplace, ReplaceUnknown, Refuse, ReplaceRejectedByGateway,
                ReplaceNotRecorded, ReplaceDone, Dispatch
  <2>4. \A fail : ~PaperFill(fail)
    BY <1>1 DEF PaperFill, handle_fill, FillUnknown, FillTerminal, FillNotApplied, FillApplied,
                Dispatch
  <2>5. ~LeaveLoop
    BY <1>1 DEF LeaveLoop
  <2> QED
    BY <1>2, <2>1, <2>2, <2>3, <2>4, <2>5 DEF DispatchThread
<1>3. ~PaperClient
  BY <1>1, ClientAppends
<1>4. ~DeliverReport
  BY <1>1 DEF DeliverReport, GatewayReport, enqueue
<1>5. CASE \/ Simulate \/ EnqueueFill \/ StopDispatcher \/ DispatcherLoop \/ Hung
           \/ UNCHANGED vars \/ Destroyed
  BY <1>1, <1>5 DEF Simulate, EnqueueFill, StopDispatcher, DispatcherLoop, Hung, Destroyed,
                    vars, omVars
<1>6. CASE StopGateway \/ GatewayJoined
  BY <1>1, <1>6 DEF StopGateway, Destroy, GatewayJoined, GatewayStopped, Enters
<1> QED
  BY <1>2, <1>3, <1>4, <1>5, <1>6 DEF PaperNext

\* Closing every tracked order leaves none alive anywhere.
LEMMA NothingLeftAlive ==
    ASSUME TradeInv, CommandEffect(Mapped, None)
    PROVE  Pending' = {} /\ Mapped' = {} /\ get_open_orders(order_store_') = {}
<1>1. /\ RowsEffect(Mapped, None)
      /\ MapEffect(Mapped, None)
      /\ PendingEffect(Mapped, None)
  BY DEF CommandEffect
<1>2. /\ None \notin LocalIds /\ None \notin BrokerIds
      /\ get_open_orders(order_store_) = Mapped
      /\ \A l \in LocalIds : l \in Mapped <=> IsMapped(l)
  BY Linked DEF TradeInv
<1>3. Mapped' = {}
  BY <1>1, <1>2 DEF MapEffect, Mapped, IsMapped
<1>4. get_open_orders(order_store_') = {}
  <2> SUFFICES ASSUME NEW l \in LocalIds, order_store_'[l] # None
               PROVE  order_store_'[l].status \notin OpenStatus
    BY DEF get_open_orders, Stored
  <2>1. CASE l \in Mapped
    BY <1>1, <2>1 DEF RowsEffect, OpenStatus
  <2>2. CASE l \notin Mapped
    <3>1. order_store_[l] # None => order_store_[l].status \notin OpenStatus
      BY <1>2, <2>2 DEF get_open_orders, Stored
    <3> QED
      BY <1>1, <1>2, <2>2, <3>1 DEF RowsEffect, OpenStatus
  <2> QED
    BY <2>1, <2>2
<1>5. Pending' = {}
  <2> SUFFICES ASSUME NEW b \in BrokerIds PROVE pending_orders_'[b] = None
    BY DEF Pending
  <2>1. pending_orders_[b] # None => \E l \in Mapped : get_broker_id(id_mapper_, l) = b
    BY PendingIsTracked DEF Pending
  <2> QED
    BY <1>1, <2>1 DEF PendingEffect
<1> QED
  BY <1>3, <1>4, <1>5

\* As long as no store call fails, the step in which the dispatch thread handles
\* a cancel_all command leaves no order pending at the gateway, none tracked and
\* none open in the store.  (OrderManager::handle_cancel_all_command.)
THEOREM KillSwitchLeavesNothingAlive ==
    ASSUME FaultyCalls = {}
    PROVE  PaperSpec => KillSwitchCancelsAll
<1>1. TradeInv /\ [PaperNext]_vars =>
          [Handles("cancel_all") => /\ Pending' = {}
                                    /\ Mapped' = {}
                                    /\ get_open_orders(order_store_') = {}]_vars
  <2> SUFFICES ASSUME TradeInv, [PaperNext]_vars, Handles("cancel_all")
               PROVE  Pending' = {} /\ Mapped' = {} /\ get_open_orders(order_store_') = {}
    OBVIOUS
  <2>1. CommandEffect(Mapped, None)
    BY HandlesCancelAll, CancelAllEffect DEF TradeInv, LifeInv, TrackingInv
  <2> QED
    BY <2>1, NothingLeftAlive
<1> QED
  BY <1>1, TradeInvariant, PTL DEF PaperSpec, KillSwitchCancelsAll
==============================================================================
