--------------------------- MODULE EngineAdapters ----------------------------
(***************************************************************************)
(* The TradingEngine with the AdapterManager it owns: strategies that need *)
(* an adapter process wait, under managers_mu_, until the process spawned  *)
(* for their venue and account answers a Ping, for at most 30 seconds; the *)
(* destructor of the engine stops the adapters last.                       *)
(*                                                                         *)
(* One venue and account.  A strategy whose adapter is in processes_       *)
(* already is registered by RegisterStrategy.                              *)
(***************************************************************************)
EXTENDS TradingEngine

CONSTANT PaperToo  \* whether some strategies trade through the paper gateway

ASSUME PaperAssumption == PaperToo \in BOOLEAN

VARIABLE adapter  \* the entry of processes_: absent, running or stopped

adapterEngineVars == <<engineVars, adapter>>

EngineAdaptersInit ==
    /\ EngineInit
    /\ adapter = "absent"

\* get_or_create finds no entry and spawns a process.
spawn(t, s) ==
    /\ Free(t)
    /\ managers_mu_ = None
    /\ managers_[s] = None
    /\ \E m \in Managers : life[m] = "unborn"
    /\ adapter = "absent"
    /\ managers_mu_' = t
    /\ call' = [call EXCEPT ![t] = [Idle EXCEPT !.pc = "pinging", !.strategy = s]]
    /\ UNCHANGED <<managers_, running_, run, life, queue_, live, sink, subs, feed, crashed,
                   left, adapter>>

\* RegisterStrategy returns, and releases the lock.
Return(t) == call' = [call EXCEPT ![t] = Idle] /\ managers_mu_' = None

\* A Ping is answered in time.
AdapterReady(t) ==
    /\ call[t].pc = "pinging"
    /\ adapter' = "running"
    /\ \E starts, subscribes \in BOOLEAN :
           create_strategy(call[t].strategy, starts, subscribes)
    /\ Return(t)

\* 30 seconds have passed: the registration fails.  The process is not in
\* processes_: it stays, nothing stops it, and the next registration spawns another.
\* If it is the feed that needs the adapter, the manager has been emplaced, under the
\* lock, and stays: the exception is not caught, and the strategy has no market data.
AdapterNotReady(t) ==
    /\ call[t].pc = "pinging"
    /\ \/ UNCHANGED <<managers_, running_, run, life, queue_, live, sink, subs, feed,
                      crashed, left>>
       \/ create_strategy(call[t].strategy, FALSE, FALSE)
    /\ Return(t)
    /\ UNCHANGED adapter

\* Faulty: adapter_manager_ is declared after managers_.
StopAdapters_Early ==
    /\ run = "destroying"
    /\ adapter = "running"
    /\ adapter' = "stopped"
    /\ UNCHANGED engineVars

\* ~AdapterManager: terminate, wait five seconds, kill.
StopAdapters ==
    /\ run = "ended"
    /\ adapter = "running"
    /\ adapter' = "stopped"
    /\ UNCHANGED engineVars

AwaitAdapter(t) == AdapterReady(t) \/ AdapterNotReady(t)

\* A strategy that needs an adapter cannot be registered before there is one.
EngineStep ==
    /\ EngineNext
    /\ adapter = "absent" /\ ~PaperToo =>
           \A m \in Managers : life[m] = "unborn" => life'[m] = "unborn"
    /\ UNCHANGED adapter

EngineAdaptersNext ==
    \/ EngineStep
    \/ /\ ~crashed
       /\ \/ \E t \in Threads, s \in Strategies : spawn(t, s)
          \/ \E t \in Threads : AwaitAdapter(t)
          \/ StopAdapters

EngineAdaptersSpec == EngineAdaptersInit /\ [][EngineAdaptersNext]_adapterEngineVars

\* As EngineFairness; wait_for_ready has its deadline, and the destructor runs on.
EngineAdaptersFairSpec ==
    /\ EngineAdaptersSpec
    /\ \A t \in Threads :
          WF_adapterEngineVars(/\ ~crashed
                               /\ \/ ThreadGoesOn(t) /\ UNCHANGED adapter
                                  \/ AwaitAdapter(t))
    /\ \A m \in Managers :
          WF_adapterEngineVars(~crashed /\ DispatchThread(m) /\ UNCHANGED adapter)
    /\ WF_adapterEngineVars(/\ ~crashed
                            /\ \/ RunThread /\ UNCHANGED adapter
                               \/ StopAdapters)

------------------------------------------------------------------------------
(* Properties.                                                              *)

\* "its destructor sends SIGTERM to adapters, which must happen after the feed
\* and order manager threads have stopped": when an adapter is stopped, every
\* manager is gone, the feed has been joined, and no call is in progress.
AdaptersOutliveTheirUsers ==
    adapter = "stopped" =>
        /\ \A m \in Managers : life[m] \in {"unborn", "dead"}
        /\ feed # "running"
        /\ \A t \in Threads : call[t] = Idle
==============================================================================
