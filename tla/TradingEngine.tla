---------------------------- MODULE TradingEngine ----------------------------
(***************************************************************************)
(* The engine that owns the order managers: registration of strategies,    *)
(* the RPCs that look a manager up and use it, the kill switch that        *)
(* destroys managers, the market-data feed that pushes to them, and the    *)
(* shutdown of Run().                                                      *)
(*                                                                         *)
(* An order manager is reduced to what the engine sees of it: its queue,   *)
(* whether its destructor has begun or ended, its market-data sink, and    *)
(* whether an order of it can still execute (module OrderManager has the   *)
(* handlers).  A section under a shared lock, or one that keeps an         *)
(* exclusive lock and waits for nothing, is one step.                      *)
(***************************************************************************)
EXTENDS Naturals, Sequences, FiniteSets

CONSTANTS
    None,         \* no manager, no thread, no sink
    Strategies,   \* the strategy ids clients use
    Threads,      \* the threads of the gRPC server
    MaxManagers,  \* how many order managers are ever created
    MaxDepth      \* MAX_MARKETDATA_QUEUE_DEPTH

ASSUME EngineAssumption ==
    /\ MaxManagers \in Nat
    /\ MaxDepth \in Nat
    /\ "main" \notin Threads
    /\ None \notin Threads \cup {"main"} \cup Nat

Managers == 1 .. MaxManagers

\* The thread of Run() calls the managers too.
Callers == Threads \cup {"main"}

VARIABLES
    managers_,     \* managers_[s]: the manager a strategy id owns, or None
    managers_mu_,  \* the thread that holds the lock exclusively, or None
    running_,      \* cleared by HALT_ALL and by the signal thread
    run,           \* how far Run() and the destructor of the engine are
    call,          \* call[c]: what caller c is doing
    life,          \* life[m]: unborn, alive; its destructor has begun: stopping, or
                   \* hung in the stop of the gateway; the dispatch thread has ended:
                   \* reading (a thread of the gateway has not), dead
    queue_,        \* queue_[m]: the events of manager m
    live,          \* live[m]: an order of m can still execute at the venue
    sink,          \* sink[m]: the thread whose writer m calls, or None
    subs,          \* the managers the feed pushes to
    feed,          \* the thread of the feed: absent, running, stopped
    crashed,       \* the process died of an access to a destroyed manager
    left           \* history: managers with a live order that no cancel_all reaches:
                   \* one has left it, or it comes of a signal of the kind "raced"

engineVars == <<managers_, managers_mu_, running_, run, call, life, queue_,
                live, sink, subs, feed, crashed, left>>

Registered == {managers_[s] : s \in Strategies} \ {None}

Idle == [pc |-> "idle", kind |-> "none", strategy |-> None, om |-> None,
         to_cancel |-> {}, to_destroy |-> {}]

EngineInit ==
    /\ managers_ = [s \in Strategies |-> None]
    /\ managers_mu_ = None
    /\ running_ = TRUE
    /\ run = "serving"
    /\ call = [c \in Callers |-> Idle]
    /\ life = [m \in Managers |-> "unborn"]
    /\ queue_ = [m \in Managers |-> <<>>]
    /\ live = [m \in Managers |-> FALSE]
    /\ sink = [m \in Managers |-> None]
    /\ subs = {}
    /\ feed = "absent"
    /\ crashed = FALSE
    /\ left = {}

\* A free thread of a server that still accepts calls.
Free(t) == run = "serving" /\ call[t] = Idle

\* The dispatch thread of m may take an event from its queue.
Served(m) == life[m] \in {"alive", "stopping", "hung"}

\* The dispatch thread of m has ended: its members are being destroyed, or have been.
Gone(m) == life[m] \in {"reading", "dead"}

\* The destructor of m waits for a thread of the gateway that nothing has told to end.
Stuck(m) == life[m] \in {"hung", "reading"}

\* Faulty: the kill switch goes ahead of the commands that wait.
push_Ahead(c, m, kind) ==
    queue_' = [queue_ EXCEPT ![m] = IF kind = "cancel_all"
                                    THEN <<[kind |-> kind, from |-> c]>> \o @
                                    ELSE Append(@, [kind |-> kind, from |-> c])]

\* OrderManager::enqueue of a command that caller c waits for.
push(c, m, kind) ==
    queue_' = [queue_ EXCEPT ![m] = Append(@, [kind |-> kind, from |-> c])]

------------------------------------------------------------------------------
(* RegisterStrategy, under the exclusive lock.  The client may be told of an *)
(* error after the manager was emplaced and, perhaps, after the feed was     *)
(* started or some subscriptions were made (an unsupported feed, a period    *)
(* that does not parse): the strategy exists all the same.                   *)

\* create_strategy, once the gateway exists.
create_strategy(s, starts, subscribes) ==
    /\ subscribes => starts
    /\ \E m \in Managers :
          /\ life[m] = "unborn"
          /\ \A k \in Managers : k < m => life[k] # "unborn"
          /\ managers_' = [managers_ EXCEPT ![s] = m]
          /\ life' = [life EXCEPT ![m] = "alive"]
          /\ subs' = IF subscribes THEN subs \cup {m} ELSE subs
          /\ feed' = IF starts THEN "running" ELSE feed
    /\ UNCHANGED <<running_, run, queue_, live, sink, crashed, left>>

\* The gateway takes no time to make: the paper gateway, or an adapter that is
\* already there (EngineAdapters has the other case).
RegisterStrategy(t, s, starts, subscribes) ==
    /\ Free(t)
    /\ managers_mu_ = None
    /\ managers_[s] = None
    /\ create_strategy(s, starts, subscribes)
    /\ UNCHANGED <<managers_mu_, call>>

------------------------------------------------------------------------------
(* SubmitSignal, CancelOrder, ReplaceOrder and SetupMarketDataStream: the   *)
(* manager is looked up under the shared lock and used after it.            *)

Find(t, s, kind) ==
    /\ Free(t)
    /\ managers_mu_ = None
    /\ managers_[s] # None
    /\ call' = [call EXCEPT ![t] = [Idle EXCEPT !.pc = "found", !.kind = kind,
                                    !.strategy = s, !.om = managers_[s]]]
    /\ UNCHANGED <<managers_, managers_mu_, running_, run, life, queue_, live,
                   sink, subs, feed, crashed, left>>

\* The kill switch has taken the lock and manager m is among those it destroys.
BeingKilled(m) ==
    managers_mu_ # None /\ m \in call[managers_mu_].to_destroy

\* process_signal pushes the command and waits for its future.  A signal to a manager
\* that is being killed is of the kind "raced": history, it is handled as any other.
process_signal(t) ==
    LET m == call[t].om IN
    /\ call[t].pc = "found"
    /\ call[t].kind = "signal"
    /\ ~Gone(m)
    /\ push(t, m, IF BeingKilled(m) THEN "raced" ELSE "signal")
    /\ call' = [call EXCEPT ![t].pc = "waiting"]
    /\ UNCHANGED <<managers_, managers_mu_, running_, run, life, live, sink,
                   subs, feed, crashed, left>>

set_market_data_sinks(t) ==
    LET m == call[t].om IN
    /\ call[t].pc = "found"
    /\ call[t].kind = "stream"
    /\ ~Gone(m)
    /\ sink' = [sink EXCEPT ![m] = t]
    /\ call' = [call EXCEPT ![t] = [@ EXCEPT !.pc = "streaming", !.om = None]]
    /\ UNCHANGED <<managers_, managers_mu_, running_, run, life, queue_, live,
                   subs, feed, crashed, left>>

\* The manager is gone: the call may fail on a broken promise, wait for ever for
\* an event that was pushed into freed memory, or take the process down.
UseAfterDestruction(t) ==
    /\ call[t].pc = "found"
    /\ Gone(call[t].om)
    /\ \/ call' = [call EXCEPT ![t] = Idle] /\ UNCHANGED crashed
       \/ call' = [call EXCEPT ![t].pc = "hung"] /\ UNCHANGED crashed
       \/ crashed' = TRUE /\ UNCHANGED call
    /\ UNCHANGED <<managers_, managers_mu_, running_, run, life, queue_, live,
                   sink, subs, feed, left>>

\* Faulty: the lookup does not take managers_mu_.
ClearMarketDataStream_Unlocked(t) ==
    LET m == managers_[call[t].strategy] IN
    /\ call[t].pc = "streaming"
    /\ sink' = [k \in Managers |-> IF k = m THEN None ELSE sink[k]]
    /\ call' = [call EXCEPT ![t] = Idle]
    /\ UNCHANGED <<managers_, managers_mu_, running_, run, life, queue_, live,
                   subs, feed, crashed, left>>

\* The end of StreamMarketData: the client is gone, a write failed, or the
\* server shut down.  It clears the sink of whatever manager the id has now.
ClearMarketDataStream(t) ==
    LET m == managers_[call[t].strategy] IN
    /\ call[t].pc = "streaming"
    /\ managers_mu_ = None
    /\ sink' = [k \in Managers |-> IF k = m THEN None ELSE sink[k]]
    /\ call' = [call EXCEPT ![t] = Idle]
    /\ UNCHANGED <<managers_, managers_mu_, running_, run, life, queue_, live,
                   subs, feed, crashed, left>>

------------------------------------------------------------------------------
(* ActivateKillSwitch: stop_strategy and halt_all hold the exclusive lock   *)
(* from the lookup until the managers are destroyed.                        *)

Kill(t, kind, targets) ==
    /\ Free(t)
    /\ managers_mu_ = None
    /\ managers_mu_' = t
    /\ call' = [call EXCEPT ![t] = [Idle EXCEPT !.pc = "sweeping", !.kind = kind,
                                    !.to_cancel = targets, !.to_destroy = targets]]
    /\ UNCHANGED <<managers_, running_, run, life, queue_, live, sink, subs,
                   feed, crashed, left>>

stop_strategy(t, s) == managers_[s] # None /\ Kill(t, "stop", {managers_[s]})

halt_all(t) == Kill(t, "halt", Registered)

\* cancel_all of the next manager: pushed, then waited for.
CancelNext(c) ==
    /\ call[c].pc = "sweeping"
    /\ call[c].om = None
    /\ \E m \in call[c].to_cancel :
          /\ push(c, m, "cancel_all")
          /\ call' = [call EXCEPT ![c] = [@ EXCEPT !.pc = "waiting", !.om = m]]
    /\ UNCHANGED <<managers_, managers_mu_, running_, run, life, live, sink,
                   subs, feed, crashed, left>>

\* Faulty: unregister_manager is not called.
Cancelled_StaysSubscribed(c) ==
    /\ call[c].pc = "answered"
    /\ call' = [call EXCEPT ![c] = [@ EXCEPT !.pc = "sweeping", !.om = None,
                                          !.to_cancel = call[c].to_cancel \ {call[c].om}]]
    /\ UNCHANGED <<managers_, managers_mu_, running_, run, life, queue_, live,
                   sink, subs, feed, crashed, left>>

\* cancel_all has returned.  The kill switch unregisters the manager from the
\* feed; Run() does not.
Cancelled(c) ==
    LET m == call[c].om IN
    /\ call[c].pc = "answered"
    /\ call' = [call EXCEPT ![c] = [@ EXCEPT !.pc = "sweeping", !.om = None,
                                          !.to_cancel = call[c].to_cancel \ {m}]]
    /\ subs' = IF call[c].kind = "run" THEN subs ELSE subs \ {m}
    /\ UNCHANGED <<managers_, managers_mu_, running_, run, life, queue_, live,
                   sink, feed, crashed, left>>

\* managers_.erase, managers_.clear, or the destructor of managers_: the destructor
\* of the manager calls gateway_->stop(), which joins a dispatcher, or cancels a
\* stream without joining its thread.  The dispatcher may not hear of its stop
\* (PaperGateway): the call does not return...
BeginDestruction(c) ==
    /\ call[c].pc = "sweeping"
    /\ call[c].om = None
    /\ call[c].to_cancel = {}
    /\ \E m \in call[c].to_destroy, l \in {"stopping", "hung"} :
          /\ life' = [life EXCEPT ![m] = l]
          /\ managers_' = [s \in Strategies |->
                              IF managers_[s] = m THEN None ELSE managers_[s]]
          /\ call' = [call EXCEPT ![c].om = m]
    /\ UNCHANGED <<managers_mu_, running_, run, queue_, live, sink, subs, feed,
                   crashed, left>>

\* ... and has destroyed the members, when LeaveLoop is over.
EndDestruction(c) ==
    LET m == call[c].om IN
    /\ call[c].pc = "sweeping"
    /\ m # None
    /\ life[m] = "dead"
    /\ sink' = [sink EXCEPT ![m] = None]
    /\ call' = [call EXCEPT ![c] = [@ EXCEPT !.om = None, !.to_destroy = call[c].to_destroy \ {m}]]
    /\ UNCHANGED <<managers_, managers_mu_, running_, run, life, queue_, live, subs,
                   feed, crashed, left>>

Swept(c) ==
    /\ call[c].pc = "sweeping"
    /\ call[c].om = None
    /\ call[c].to_cancel = {}
    /\ call[c].to_destroy = {}

\* Faulty: stop_strategy returns with the lock held.
Unlock_Kept(t) ==
    /\ Swept(t)
    /\ managers_mu_' = IF call[t].kind = "halt" THEN None ELSE managers_mu_
    /\ call' = [call EXCEPT ![t] = IF @.kind = "halt"
                                   THEN [Idle EXCEPT !.pc = "halting"]
                                   ELSE Idle]
    /\ UNCHANGED <<managers_, running_, run, life, queue_, live, sink, subs,
                   feed, crashed, left>>

\* The lock is released; HALT_ALL has still to stop Run().
Unlock(t) ==
    /\ Swept(t)
    /\ managers_mu_' = None
    /\ call' = [call EXCEPT ![t] = IF @.kind = "halt"
                                   THEN [Idle EXCEPT !.pc = "halting"]
                                   ELSE Idle]
    /\ UNCHANGED <<managers_, running_, run, life, queue_, live, sink, subs,
                   feed, crashed, left>>

StopRunning(t) ==
    /\ call[t].pc = "halting"
    /\ running_' = FALSE
    /\ call' = [call EXCEPT ![t] = Idle]
    /\ UNCHANGED <<managers_, managers_mu_, run, life, queue_, live, sink, subs,
                   feed, crashed, left>>

------------------------------------------------------------------------------
(* The dispatch thread of a manager.                                        *)

\* What handling an event may do to the orders of a manager that can execute.
\* A signal submits, cancels or replaces an order, or is refused.  A cancel_all
\* leaves the orders without a broker id, and those whose cancellation fails.
Effects(kind, l) ==
    CASE kind \in {"signal", "raced"} -> BOOLEAN
      [] kind = "cancel_all"          -> {l, FALSE}
      [] kind = "data"                -> {l}

\* The future of the command is set: an RPC returns, a sweep goes on.
Answered(e) ==
    CASE e.kind \in {"signal", "raced"} -> [call EXCEPT ![e.from] = Idle]
      [] e.kind = "cancel_all"          -> [call EXCEPT ![e.from].pc = "answered"]
      [] e.kind = "data"                -> call

Dispatch(m) ==
    LET e == Head(queue_[m]) IN
    /\ Served(m)
    /\ queue_[m] # <<>>
    /\ queue_' = [queue_ EXCEPT ![m] = Tail(@)]
    /\ \E l \in Effects(e.kind, live[m]) :
          /\ live' = [live EXCEPT ![m] = l]
          /\ left' = CASE ~l -> left \ {m}
                       [] l /\ e.kind \in {"raced", "cancel_all"} -> left \cup {m}
                       [] OTHER -> left
    /\ call' = Answered(e)
    /\ UNCHANGED <<managers_, managers_mu_, running_, run, life, sink, subs,
                   feed, crashed>>

\* Faulty: the thread ends when the stop is requested.
LeaveLoop_Early(m) ==
    /\ life[m] = "stopping"
    /\ \E l \in {"dead", "reading"} : life' = [life EXCEPT ![m] = l]
    /\ UNCHANGED <<managers_, managers_mu_, running_, run, call, queue_, live,
                   sink, subs, feed, crashed, left>>

\* The queue is drained before the thread ends.  The destructor has joined it when
\* it destroys the gateway, whose destructor joins the thread of a stream: it reads
\* on if the stop came before its new context (StreamThread).
LeaveLoop(m) ==
    /\ life[m] = "stopping"
    /\ queue_[m] = <<>>
    /\ \E l \in {"dead", "reading"} : life' = [life EXCEPT ![m] = l]
    /\ UNCHANGED <<managers_, managers_mu_, running_, run, call, queue_, live,
                   sink, subs, feed, crashed, left>>

\* The adapter ends the stream, and its thread sees the stop.
StreamEnds(m) ==
    /\ life[m] = "reading"
    /\ life' = [life EXCEPT ![m] = "dead"]
    /\ UNCHANGED <<managers_, managers_mu_, running_, run, call, queue_, live,
                   sink, subs, feed, crashed, left>>

------------------------------------------------------------------------------
(* The feed's thread: on_tick and on_bar, under the shared lock of the      *)
(* registry, offer the event to every subscriber (try_push).                *)

on_tick ==
    /\ feed = "running"
    /\ queue_' = [m \in Managers |->
                     IF m \in subs /\ Len(queue_[m]) < MaxDepth
                     THEN Append(queue_[m], [kind |-> "data", from |-> None])
                     ELSE queue_[m]]
    /\ UNCHANGED <<managers_, managers_mu_, running_, run, call, life, live,
                   sink, subs, feed, crashed, left>>

------------------------------------------------------------------------------
(* Run(), and the destruction of the engine after it.                       *)

\* SIGINT or SIGTERM.
signal_handler ==
    /\ running_
    /\ running_' = FALSE
    /\ UNCHANGED <<managers_, managers_mu_, run, call, life, queue_, live, sink,
                   subs, feed, crashed, left>>

\* The wait on run_cv_ is over and Shutdown of the server is called: no call is
\* accepted any more, and streams are cancelled.
BeginShutdown ==
    /\ run = "serving"
    /\ ~running_
    /\ run' = "shutdown"
    /\ UNCHANGED <<managers_, managers_mu_, running_, call, life, queue_, live,
                   sink, subs, feed, crashed, left>>

\* Faulty: Run() does not wait for the handlers.
cancel_all_Early ==
    /\ run = "shutdown"
    /\ run' = "cancelling"
    /\ call' = [call EXCEPT !["main"] = [Idle EXCEPT !.pc = "sweeping", !.kind = "run",
                                         !.to_cancel = Registered]]
    /\ UNCHANGED <<managers_, managers_mu_, running_, life, queue_, live, sink,
                   subs, feed, crashed, left>>

\* Shutdown returns when every handler has returned; cancel_all takes no lock.
cancel_all ==
    /\ run = "shutdown"
    /\ \A t \in Threads : call[t] = Idle
    /\ run' = "cancelling"
    /\ call' = [call EXCEPT !["main"] = [Idle EXCEPT !.pc = "sweeping", !.kind = "run",
                                         !.to_cancel = Registered]]
    /\ UNCHANGED <<managers_, managers_mu_, running_, life, queue_, live, sink,
                   subs, feed, crashed, left>>

\* stop_all joins the thread of the feed; Run() returns and the members of the
\* engine are destroyed, managers_ first.
stop_all ==
    /\ run = "cancelling"
    /\ Swept("main")
    /\ run' = "destroying"
    /\ feed' = IF feed = "running" THEN "stopped" ELSE feed
    /\ call' = [call EXCEPT !["main"].to_destroy = Registered]
    /\ UNCHANGED <<managers_, managers_mu_, running_, life, queue_, live, sink,
                   subs, crashed, left>>

Destroyed ==
    /\ run = "destroying"
    /\ Swept("main")
    /\ run' = "ended"
    /\ call' = [call EXCEPT !["main"] = Idle]
    /\ UNCHANGED <<managers_, managers_mu_, running_, life, queue_, live, sink,
                   subs, feed, crashed, left>>

------------------------------------------------------------------------------

Arrival(t) ==
    \/ \E s \in Strategies, starts, subscribes \in BOOLEAN :
           RegisterStrategy(t, s, starts, subscribes)
    \/ \E s \in Strategies, k \in {"signal", "stream"} : Find(t, s, k)
    \/ \E s \in Strategies : stop_strategy(t, s)
    \/ halt_all(t)

Sweep(c) == CancelNext(c) \/ Cancelled(c) \/ BeginDestruction(c) \/ EndDestruction(c)

\* What a call that has begun does next.
Proceed(t) ==
    \/ process_signal(t)
    \/ set_market_data_sinks(t)
    \/ UseAfterDestruction(t)
    \/ Sweep(t)
    \/ Unlock(t)
    \/ StopRunning(t)

DispatchThread(m) == Dispatch(m) \/ LeaveLoop(m)

RunThread == BeginShutdown \/ cancel_all \/ Sweep("main") \/ stop_all \/ Destroyed

\* Nothing happens after a crash, and nothing is left to do after the end.
EngineNext ==
    /\ ~crashed
    /\ \/ \E t \in Threads : Arrival(t) \/ Proceed(t) \/ ClearMarketDataStream(t)
       \/ \E m \in Managers : DispatchThread(m) \/ StreamEnds(m)
       \/ on_tick
       \/ signal_handler
       \/ RunThread

EngineSpec == EngineInit /\ [][EngineNext]_engineVars

\* The threads run on, and a call of a gateway that the dispatch thread makes
\* returns (an RPC to an adapter has no deadline).  Calls, signals and market data
\* need not come, nor the end of a stream of fills that was not cancelled; a stream
\* to a client lasts as long as it wants, but not past the shutdown of the server.
ThreadGoesOn(t) == Proceed(t) \/ (run # "serving" /\ ClearMarketDataStream(t))

EngineFairness ==
    /\ \A t \in Threads : WF_engineVars(~crashed /\ ThreadGoesOn(t))
    /\ \A m \in Managers : WF_engineVars(~crashed /\ DispatchThread(m))
    /\ WF_engineVars(~crashed /\ RunThread)

EngineFairSpec == EngineSpec /\ EngineFairness

------------------------------------------------------------------------------
(* Properties.                                                              *)

Calls ==
    [pc : {"idle", "found", "waiting", "answered", "streaming", "sweeping",
           "halting", "hung", "pinging"},
     kind : {"none", "signal", "stream", "stop", "halt", "run"},
     strategy : Strategies \cup {None},
     om : Managers \cup {None},
     to_cancel : SUBSET Managers,
     to_destroy : SUBSET Managers]

QueueEvents ==
    [kind : {"signal", "raced", "cancel_all", "data"}, from : Callers \cup {None}]

\* Every variable has a value the program can give it.
EngineTypeOK ==
    /\ managers_ \in [Strategies -> Managers \cup {None}]
    /\ managers_mu_ \in Threads \cup {None}
    /\ running_ \in BOOLEAN
    /\ run \in {"serving", "shutdown", "cancelling", "destroying", "ended"}
    /\ call \in [Callers -> Calls]
    /\ life \in [Managers -> {"unborn", "alive", "stopping", "hung", "reading", "dead"}]
    /\ queue_ \in [Managers -> Seq(QueueEvents)]
    /\ live \in [Managers -> BOOLEAN]
    /\ sink \in [Managers -> Threads \cup {None}]
    /\ subs \subseteq Managers
    /\ feed \in {"absent", "running", "stopped"}
    /\ crashed \in BOOLEAN
    /\ left \subseteq Managers

\* As long as the thread of the feed runs, the raw pointers it pushes through
\* (bar_subs_, tick_subs_) are those of managers whose destructor has not begun:
\* the kill switch unregisters before it erases, and Run() joins the feed before
\* managers_ is destroyed. This is about a feed whose stop() joins its thread, as that
\* of SimulatedFeed does; that of GrpcMarketDataFeed does not.
FeedReachesLiveManagers ==
    feed = "running" => \A m \in subs : life[m] = "alive"

\* A strategy that was stopped has no order that can still execute, but for two
\* kinds: those its cancel_all has left (it holds no broker id of them, or the venue
\* did not accept the cancellation: the manager is destroyed all the same), and those
\* of calls that already had the manager when the kill switch took the lock.
KilledStrategiesLeaveNothingLive ==
    \A m \in Managers : Gone(m) /\ live[m] => m \in left

\* A manager whose dispatch thread may still run calls the writer of a stream
\* only while the stream's call is in progress: also while the manager drains
\* its queue in its destructor, and also when the strategy id has meanwhile been
\* given to another manager.
WritersAreAlive ==
    \A m \in Managers :
        Served(m) /\ sink[m] # None => call[sink[m]].pc = "streaming"

\* When Run() has cancelled, no order of a remaining manager can execute and none
\* comes, strategies registered while HALT_ALL was under way included: but for the
\* orders that the cancel_all of Run() or of a kill switch has left, and those of calls
\* that raced with a kill switch.
NothingLiveAfterRun ==
    run \in {"destroying", "ended"} =>
        \A m \in Managers : live[m] => m \in left

\* Every call that has its manager returns, and the kill switch releases the lock,
\* unless the call met a destroyed manager or waits, with the lock, for a thread of
\* the gateway of the manager it destroys.
EveryCallReturns ==
    \A t \in Threads :
        call[t].pc \notin {"idle", "streaming", "hung"}
            ~> \/ call[t].pc \in {"idle", "streaming", "hung"}
               \/ call[t].pc = "sweeping" /\ call[t].om # None /\ Stuck(call[t].om)
               \/ crashed

\* Once running_ is FALSE, Run() returns and the engine is destroyed, unless a call
\* met a destroyed manager or a destructor waits for a thread of its gateway.
RunEnds ==
    ~running_ ~> \/ run = "ended"
                 \/ crashed
                 \/ \E m \in Managers : Stuck(m)
                 \/ \E t \in Threads : call[t].pc = "hung"

\* "managers_ is read by many gRPC threads concurrently and written only by
\* RegisterStrategy": a manager that an RPC has found exists when it is used.
FoundManagersExist ==
    \A t \in Threads : call[t].pc = "found" => life[call[t].om] = "alive"
==============================================================================
