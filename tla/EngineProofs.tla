---------------------------- MODULE EngineProofs -----------------------------
(***************************************************************************)
(* Proofs about TradingEngine and EngineAdapters, for any strategies, any  *)
(* number of server threads and of order managers and any depth of queues. *)
(***************************************************************************)
EXTENDS EngineAdapters, TLAPS

LEMMA IdleType == Idle \in Calls
  BY DEF Idle, Calls

\* The initial state has the right types.
LEMMA TypeInit == EngineInit => EngineTypeOK
  <1> SUFFICES ASSUME EngineInit PROVE EngineTypeOK
    OBVIOUS
  <1> USE DEF EngineInit
  <1>1. /\ managers_ \in [Strategies -> Managers \cup {None}]
        /\ managers_mu_ \in Threads \cup {None}
        /\ run \in {"serving", "shutdown", "cancelling", "destroying", "ended"}
        /\ life \in [Managers -> {"unborn", "alive", "stopping", "hung", "reading", "dead"}]
        /\ sink \in [Managers -> Threads \cup {None}]
        /\ subs \subseteq Managers
        /\ feed \in {"absent", "running", "stopped"}
        /\ left \subseteq Managers
    OBVIOUS
  <1>2. call \in [Callers -> Calls]
    BY IdleType
  <1>3. queue_ \in [Managers -> Seq(QueueEvents)]
    OBVIOUS
  <1>4. live \in [Managers -> BOOLEAN] /\ running_ \in BOOLEAN /\ crashed \in BOOLEAN
    OBVIOUS
  <1> QED BY <1>1, <1>2, <1>3, <1>4 DEF EngineTypeOK

\* The managers of the map are managers.
LEMMA RegisteredType == EngineTypeOK => Registered \subseteq Managers
  BY DEF EngineTypeOK, Registered

\* The parts of a caller's record.
LEMMA CallFields ==
    ASSUME NEW r \in Calls
    PROVE  /\ r.om \in Managers \cup {None}
           /\ r.to_cancel \subseteq Managers
           /\ r.to_destroy \subseteq Managers
           /\ r.strategy \in Strategies \cup {None}
  BY DEF Calls

\* The records a step may replace a caller's record by.
LEMMA CallUpdates ==
    ASSUME NEW r \in Calls, NEW m \in Managers \cup {None}, NEW S \in SUBSET Managers,
           NEW s \in Strategies \cup {None},
           NEW p \in {"idle", "found", "waiting", "answered", "streaming", "sweeping",
                      "halting", "hung", "pinging"},
           NEW k \in {"none", "signal", "stream", "stop", "halt", "run"}
    PROVE  /\ [r EXCEPT !.pc = p] \in Calls
           /\ [r EXCEPT !.om = m] \in Calls
           /\ [r EXCEPT !.to_destroy = S] \in Calls
           /\ [r EXCEPT !.pc = p, !.om = m] \in Calls
           /\ [r EXCEPT !.pc = p, !.strategy = s] \in Calls
           /\ [r EXCEPT !.pc = p, !.kind = k, !.strategy = s, !.om = m] \in Calls
           /\ [r EXCEPT !.pc = p, !.kind = k, !.to_cancel = S] \in Calls
           /\ [r EXCEPT !.pc = p, !.kind = k, !.to_cancel = S, !.to_destroy = S] \in Calls
           /\ [r EXCEPT !.pc = p, !.om = m, !.to_cancel = r.to_cancel \ {r.om}] \in Calls
           /\ [r EXCEPT !.om = m, !.to_destroy = r.to_destroy \ {r.om}] \in Calls
  <1>1. [r EXCEPT !.pc = p] \in Calls
    BY DEF Calls
  <1>2. [r EXCEPT !.om = m] \in Calls
    BY DEF Calls
  <1>3. [r EXCEPT !.to_destroy = S] \in Calls
    BY DEF Calls
  <1>4. [r EXCEPT !.pc = p, !.om = m] \in Calls
    BY DEF Calls
  <1>5. [r EXCEPT !.pc = p, !.kind = k, !.strategy = s, !.om = m] \in Calls
    BY DEF Calls
  <1>6. [r EXCEPT !.pc = p, !.kind = k, !.to_cancel = S] \in Calls
    BY DEF Calls
  <1>7. [r EXCEPT !.pc = p, !.kind = k, !.to_cancel = S, !.to_destroy = S] \in Calls
    BY DEF Calls
  <1>8. [r EXCEPT !.pc = p, !.om = m, !.to_cancel = r.to_cancel \ {r.om}] \in Calls
    BY DEF Calls
  <1>9. [r EXCEPT !.om = m, !.to_destroy = r.to_destroy \ {r.om}] \in Calls
    BY DEF Calls
  <1>10. [r EXCEPT !.pc = p, !.strategy = s] \in Calls
    BY DEF Calls
  <1> QED BY <1>1, <1>2, <1>3, <1>4, <1>5, <1>6, <1>7, <1>8, <1>9, <1>10

\* What push does to a queue.
LEMMA PushType ==
    ASSUME NEW q \in [Managers -> Seq(QueueEvents)], NEW m, NEW e \in QueueEvents
    PROVE  [q EXCEPT ![m] = Append(@, e)] \in [Managers -> Seq(QueueEvents)]
  <1>1. CASE m \in Managers
    <2>1. Append(q[m], e) \in Seq(QueueEvents)
      BY <1>1
    <2> QED BY <2>1
  <1>2. CASE m \notin Managers
    BY <1>2
  <1> QED BY <1>1, <1>2

\* Every step keeps the types.
LEMMA TypeStep == EngineTypeOK /\ [EngineNext]_engineVars => EngineTypeOK'
  <1> SUFFICES ASSUME EngineTypeOK, [EngineNext]_engineVars PROVE EngineTypeOK'
    OBVIOUS
  <1> USE DEF EngineTypeOK
  <1>0. /\ "main" \in Callers
        /\ \A t \in Threads : t \in Callers
        /\ \A c \in Callers : call[c] \in Calls
        /\ Idle \in Calls
    BY IdleType DEF Callers
  <1>1. ASSUME NEW t \in Threads, Arrival(t) PROVE EngineTypeOK'
    <2>1. ASSUME NEW s \in Strategies, NEW a \in BOOLEAN, NEW b \in BOOLEAN,
                 RegisterStrategy(t, s, a, b) PROVE EngineTypeOK'
      BY <2>1 DEF RegisterStrategy, create_strategy
    <2>2. ASSUME NEW s \in Strategies, NEW k \in {"signal", "stream"}, Find(t, s, k)
          PROVE EngineTypeOK'
      <3>1. call' \in [Callers -> Calls]
        BY ZenonT(40), <1>0, <2>2, CallUpdates DEF Find
      <3> QED BY <2>2, <3>1 DEF Find
    <2>3. ASSUME NEW targets \in SUBSET Managers, NEW k \in {"stop", "halt"},
                 Kill(t, k, targets) PROVE EngineTypeOK'
      <3>1. call' \in [Callers -> Calls]
        BY ZenonT(40), <1>0, <2>3, CallUpdates DEF Kill
      <3> QED BY <2>3, <3>1 DEF Kill
    <2>4. ASSUME NEW s \in Strategies, stop_strategy(t, s) PROVE EngineTypeOK'
      <3>1. {managers_[s]} \in SUBSET Managers /\ Kill(t, "stop", {managers_[s]})
        BY <2>4 DEF stop_strategy
      <3> QED BY <2>3, <3>1
    <2>5. CASE halt_all(t)
      <3>1. Registered \in SUBSET Managers /\ Kill(t, "halt", Registered)
        BY <2>5, RegisteredType DEF halt_all
      <3> QED BY <2>3, <3>1
    <2> QED BY <1>1, <2>1, <2>2, <2>4, <2>5 DEF Arrival
  <1>2. ASSUME NEW c \in Callers, Sweep(c) PROVE EngineTypeOK'
    <2>1. CASE CancelNext(c)
      <3>1. PICK m \in call[c].to_cancel :
               /\ push(c, m, "cancel_all")
               /\ call' = [call EXCEPT ![c] = [@ EXCEPT !.pc = "waiting", !.om = m]]
        BY <2>1 DEF CancelNext
      <3>2. m \in Managers
        BY <1>0, CallFields
      <3>3. call' \in [Callers -> Calls]
        BY <1>0, <3>1, <3>2, CallUpdates
      <3>4. queue_' \in [Managers -> Seq(QueueEvents)]
        <4>1. [kind |-> "cancel_all", from |-> c] \in QueueEvents
          BY DEF QueueEvents
        <4> QED BY <3>1, <4>1, PushType DEF push
      <3> QED BY <2>1, <3>3, <3>4 DEF CancelNext
    <2>2. CASE Cancelled(c)
      <3>1. call' \in [Callers -> Calls]
        <4>1. [call[c] EXCEPT !.pc = "sweeping", !.om = None,
                              !.to_cancel = call[c].to_cancel \ {call[c].om}] \in Calls
          BY <1>0, CallUpdates
        <4>2. call' = [call EXCEPT ![c] = [call[c] EXCEPT !.pc = "sweeping", !.om = None,
                                           !.to_cancel = call[c].to_cancel \ {call[c].om}]]
          BY <2>2 DEF Cancelled
        <4> QED BY <4>1, <4>2
      <3> QED BY <2>2, <3>1 DEF Cancelled
    <2>3. CASE BeginDestruction(c)
      <3>1. PICK m \in call[c].to_destroy, l \in {"stopping", "hung"} :
               /\ life' = [life EXCEPT ![m] = l]
               /\ managers_' = [s \in Strategies |->
                                   IF managers_[s] = m THEN None ELSE managers_[s]]
               /\ call' = [call EXCEPT ![c].om = m]
        BY <2>3 DEF BeginDestruction
      <3>2. m \in Managers
        BY <1>0, CallFields
      <3>3. call' \in [Callers -> Calls]
        BY <1>0, <3>1, <3>2, CallUpdates
      <3> QED BY <2>3, <3>1, <3>2, <3>3 DEF BeginDestruction
    <2>4. CASE EndDestruction(c)
      <3>1. call' \in [Callers -> Calls]
        <4>1. [call[c] EXCEPT !.om = None, !.to_destroy = call[c].to_destroy \ {call[c].om}] \in Calls
          BY <1>0, CallUpdates
        <4>2. call' = [call EXCEPT ![c] = [call[c] EXCEPT !.om = None,
                                           !.to_destroy = call[c].to_destroy \ {call[c].om}]]
          BY <2>4 DEF EndDestruction
        <4> QED BY <4>1, <4>2
      <3> QED BY <2>4, <3>1 DEF EndDestruction
    <2> QED BY <1>2, <2>1, <2>2, <2>3, <2>4, SMTT(30) DEF Sweep
  <1>3. ASSUME NEW t \in Threads, Proceed(t) PROVE EngineTypeOK'
    <2>1. CASE process_signal(t)
      <3>1. call' \in [Callers -> Calls]
        <4>1. call' = [call EXCEPT ![t] = [call[t] EXCEPT !.pc = "waiting"]]
          BY <2>1 DEF process_signal
        <4>2. [call[t] EXCEPT !.pc = "waiting"] \in Calls
          BY <1>0, CallUpdates
        <4> QED BY <1>0, <4>1, <4>2
      <3>2. \A k \in {"signal", "raced"} : [kind |-> k, from |-> t] \in QueueEvents
        BY <1>0 DEF QueueEvents
      <3>3. PICK k \in {"signal", "raced"} : push(t, call[t].om, k)
        BY <2>1 DEF process_signal
      <3>4. queue_' \in [Managers -> Seq(QueueEvents)]
        BY <3>2, <3>3, PushType DEF push
      <3> QED BY <2>1, <3>1, <3>4 DEF process_signal
    <2>2. CASE set_market_data_sinks(t)
      <3>1. call' \in [Callers -> Calls]
        BY <1>0, <2>2, CallUpdates DEF set_market_data_sinks
      <3> QED BY <2>2, <3>1 DEF set_market_data_sinks
    <2>3. CASE UseAfterDestruction(t)
      <3>1. call' \in [Callers -> Calls]
        <4>1. [call[t] EXCEPT !.pc = "hung"] \in Calls
          BY <1>0, CallUpdates
        <4> QED BY <1>0, <2>3, <4>1 DEF UseAfterDestruction
      <3>2. crashed' \in BOOLEAN
        BY <2>3 DEF UseAfterDestruction
      <3> QED BY <2>3, <3>1, <3>2 DEF UseAfterDestruction
    <2>4. CASE Unlock(t)
      <3>1. call' \in [Callers -> Calls]
        BY <1>0, <2>4, CallUpdates DEF Unlock
      <3> QED BY <2>4, <3>1 DEF Unlock
    <2>5. CASE StopRunning(t)
      BY <1>0, <2>5 DEF StopRunning
    <2> QED BY <1>0, <1>2, <1>3, <2>1, <2>2, <2>3, <2>4, <2>5 DEF Proceed
  <1>4. ASSUME NEW t \in Threads, ClearMarketDataStream(t) PROVE EngineTypeOK'
    BY <1>0, <1>4 DEF ClearMarketDataStream
  <1>5. ASSUME NEW m \in Managers, DispatchThread(m) PROVE EngineTypeOK'
    <2>1. CASE Dispatch(m)
      <3> DEFINE e == Head(queue_[m])
      <3>1. e \in QueueEvents /\ Tail(queue_[m]) \in Seq(QueueEvents)
        BY <2>1 DEF Dispatch
      <3>2. e.kind \in {"signal", "raced", "cancel_all", "data"}
        BY <3>1 DEF QueueEvents
      <3> HIDE DEF e
      <3>3. PICK l \in Effects(e.kind, live[m]) :
               /\ live' = [live EXCEPT ![m] = l]
               /\ left' = CASE ~l -> left \ {m}
                            [] l /\ e.kind \in {"raced", "cancel_all"} -> left \cup {m}
                            [] OTHER -> left
        BY <2>1 DEF Dispatch, e
      <3>8. call' = Answered(e)
        BY <2>1 DEF Dispatch, e
      <3>4. call' \in [Callers -> Calls]
        <4>1. CASE e.kind \in {"signal", "raced"}
          <5>1. call' = [call EXCEPT ![e.from] = Idle]
            BY <3>8, <4>1 DEF Answered
          <5> QED BY <1>0, <5>1
        <4>2. CASE e.kind = "cancel_all"
          <5>1. call' = [call EXCEPT ![e.from] = [call[e.from] EXCEPT !.pc = "answered"]]
            BY <3>8, <4>2 DEF Answered
          <5>2. \A r \in Calls : [r EXCEPT !.pc = "answered"] \in Calls
            BY <1>0, CallUpdates
          <5> QED BY <1>0, <5>1, <5>2
        <4>3. CASE e.kind = "data"
          BY <1>0, <3>8, <4>3 DEF Answered
        <4> QED BY <3>2, <4>1, <4>2, <4>3
      <3>5. Effects(e.kind, live[m]) \subseteq BOOLEAN
        BY <3>2 DEF Effects
      <3>6. live' \in [Managers -> BOOLEAN]
        BY <3>3, <3>5
      <3>7. queue_' \in [Managers -> Seq(QueueEvents)]
        BY <2>1, <3>1 DEF Dispatch
      <3>9. left' \subseteq Managers
        BY <3>3
      <3> QED BY <2>1, <3>4, <3>6, <3>7, <3>9 DEF Dispatch
    <2>2. CASE LeaveLoop(m)
      BY <2>2 DEF LeaveLoop
    <2> QED BY <1>5, <2>1, <2>2 DEF DispatchThread
  <1>10. ASSUME NEW m \in Managers, StreamEnds(m) PROVE EngineTypeOK'
    BY <1>10 DEF StreamEnds
  <1>6. CASE on_tick
    <2>1. [kind |-> "data", from |-> None] \in QueueEvents
      BY DEF QueueEvents
    <2>2. queue_' \in [Managers -> Seq(QueueEvents)]
      BY <1>6, <2>1 DEF on_tick
    <2> QED BY <1>6, <2>2 DEF on_tick
  <1>7. CASE signal_handler
    BY <1>7 DEF signal_handler
  <1>8. CASE RunThread
    <2>1. CASE BeginShutdown
      BY <2>1 DEF BeginShutdown
    <2>2. CASE cancel_all
      <3>1. call' \in [Callers -> Calls]
        BY <1>0, <2>2, RegisteredType, CallUpdates DEF cancel_all
      <3> QED BY <2>2, <3>1 DEF cancel_all
    <2>3. CASE stop_all
      <3>1. call' \in [Callers -> Calls]
        BY <1>0, <2>3, RegisteredType, CallUpdates DEF stop_all
      <3> QED BY <2>3, <3>1 DEF stop_all
    <2>4. CASE Destroyed
      BY <1>0, <2>4 DEF Destroyed
    <2> QED BY <1>0, <1>2, <1>8, <2>1, <2>2, <2>3, <2>4 DEF RunThread
  <1>9. CASE UNCHANGED engineVars
    BY <1>9 DEF engineVars
  <1> QED BY <1>1, <1>3, <1>4, <1>5, <1>6, <1>7, <1>8, <1>9, <1>10 DEF EngineNext

(* Type correctness: every variable keeps a value the program can give it. *)
THEOREM EngineTypeCorrect == EngineSpec => []EngineTypeOK
  BY TypeInit, TypeStep, PTL DEF EngineSpec

------------------------------------------------------------------------------
(* The feed only reaches managers that exist.  A subscription is removed     *)
(* between the cancellation of a manager and its destruction, so a manager   *)
(* that is to be destroyed and no more to be cancelled has none.             *)

Unsubscribed ==
    \A t \in Threads : \A m \in call[t].to_destroy :
        m \in call[t].to_cancel \/ m \notin subs

\* Only managers that were created are in the map or marked for destruction.
Created ==
    /\ \A t \in Threads : \A m \in call[t].to_destroy : life[m] # "unborn"
    /\ \A s \in Strategies : managers_[s] # None => life[managers_[s]] # "unborn"

\* RPCs are not Run(), and Run() destroys managers only when the feed is stopped.
RunIsLast ==
    /\ \A t \in Threads : call[t].kind # "run"
    /\ call["main"].to_destroy # {} => run \in {"destroying", "ended"}
    /\ run \in {"destroying", "ended"} => feed # "running"

\* Until Run() has stopped the feed, started or not, its subscribers exist.
SubscribersExist ==
    run \notin {"destroying", "ended"} => \A m \in subs : life[m] = "alive"

FeedInv == EngineTypeOK /\ SubscribersExist /\ Unsubscribed /\ Created /\ RunIsLast

LEMMA FeedInit == EngineInit => FeedInv
  <1> SUFFICES ASSUME EngineInit PROVE FeedInv
    OBVIOUS
  <1>1. "main" \in Callers /\ \A t \in Threads : t \in Callers
    BY DEF Callers
  <1>2. SubscribersExist
    BY DEF EngineInit, SubscribersExist
  <1>3. Unsubscribed /\ Created
    BY <1>1 DEF EngineInit, Unsubscribed, Created, Idle
  <1>4. RunIsLast
    BY <1>1, EngineAssumption DEF EngineInit, RunIsLast, Idle
  <1> QED BY <1>2, <1>3, <1>4, TypeInit DEF FeedInv

LEMMA FeedStep == FeedInv /\ [EngineNext]_engineVars => FeedInv'
  <1> SUFFICES ASSUME FeedInv, [EngineNext]_engineVars PROVE FeedInv'
    OBVIOUS
  <1>0. /\ "main" \in Callers /\ "main" \notin Threads
        /\ \A t \in Threads : t \in Callers
        /\ \A c \in Callers : call[c] \in Calls
        /\ EngineTypeOK
        /\ EngineTypeOK'
    BY EngineAssumption, TypeStep DEF Callers, FeedInv, EngineTypeOK
  <1> DEFINE Rest == SubscribersExist /\ Unsubscribed /\ Created /\ RunIsLast
  <1>00. SUFFICES Rest'
    BY <1>0 DEF FeedInv
  <1>01. Rest
    BY DEF FeedInv
  <1> USE DEF SubscribersExist, Unsubscribed, Created, RunIsLast
  <1>1. ASSUME NEW t \in Threads, Arrival(t) PROVE Rest'
    <2>1. ASSUME NEW s \in Strategies, NEW a \in BOOLEAN, NEW b \in BOOLEAN,
                 RegisterStrategy(t, s, a, b) PROVE Rest'
      <3>1. PICK m \in Managers :
               /\ life[m] = "unborn"
               /\ managers_' = [managers_ EXCEPT ![s] = m]
               /\ life' = [life EXCEPT ![m] = "alive"]
               /\ subs' = IF b THEN subs \cup {m} ELSE subs
               /\ feed' = IF a THEN "running" ELSE feed
        BY <2>1 DEF RegisterStrategy, create_strategy
      <3>2. /\ run = "serving" /\ run' = run /\ call' = call
        BY <2>1 DEF RegisterStrategy, create_strategy, Free
      <3>3. /\ \A k \in Managers : k # m => life'[k] = life[k]
            /\ life'[m] = "alive"
            /\ \A k \in subs' : k \in Managers /\ (k = m \/ k \in subs)
        BY <1>0, <3>1 DEF EngineTypeOK
      <3>4. \A u \in Threads : call[u].to_destroy \subseteq Managers \ {m}
        BY <1>0, <1>01, <3>1, CallFields
      <3>5. SubscribersExist'
        BY <1>01, <3>2, <3>3
      <3>6. Unsubscribed'
        BY <1>01, <3>2, <3>3, <3>4
      <3>7. Created'
        BY <1>0, <1>01, <3>1, <3>2, <3>3, <3>4 DEF EngineTypeOK
      <3>8. RunIsLast'
        BY <1>01, <3>2
      <3> QED BY <3>5, <3>6, <3>7, <3>8
    <2>2. ASSUME NEW s \in Strategies, NEW k \in {"signal", "stream"}, Find(t, s, k)
          PROVE Rest'
      BY <1>0, <1>01, <2>2 DEF Find, Idle, EngineTypeOK
    <2>3. ASSUME NEW targets \in SUBSET Managers, NEW k \in {"stop", "halt"},
                 \A m \in targets : life[m] # "unborn",
                 Kill(t, k, targets) PROVE Rest'
      BY <1>0, <1>01, <2>3 DEF Kill, Idle, EngineTypeOK
    <2>4. ASSUME NEW s \in Strategies, stop_strategy(t, s) PROVE Rest'
      <3>1. /\ {managers_[s]} \in SUBSET Managers
            /\ life[managers_[s]] # "unborn"
            /\ Kill(t, "stop", {managers_[s]})
        BY <1>0, <1>01, <2>4 DEF stop_strategy, EngineTypeOK
      <3> QED BY <2>3, <3>1
    <2>5. CASE halt_all(t)
      <3>1. /\ Registered \in SUBSET Managers
            /\ \A m \in Registered : life[m] # "unborn"
            /\ Kill(t, "halt", Registered)
        BY <1>0, <1>01, <2>5, RegisteredType DEF halt_all, Registered
      <3> QED BY <2>3, <3>1
    <2> QED BY <1>1, <2>1, <2>2, <2>4, <2>5 DEF Arrival
  <1>2. ASSUME NEW c \in Callers, Sweep(c) PROVE Rest'
    <2>1. CASE CancelNext(c)
      BY <1>0, <1>01, <2>1 DEF CancelNext, EngineTypeOK, Calls
    <2>2. CASE Cancelled(c)
      BY <1>0, <1>01, <2>2 DEF Cancelled, EngineTypeOK, Calls
    <2>3. CASE BeginDestruction(c)
      <3>1. PICK m \in call[c].to_destroy, l \in {"stopping", "hung"} :
               /\ life' = [life EXCEPT ![m] = l]
               /\ managers_' = [s \in Strategies |->
                                   IF managers_[s] = m THEN None ELSE managers_[s]]
               /\ call' = [call EXCEPT ![c].om = m]
        BY <2>3 DEF BeginDestruction
      <3>2. call[c].to_cancel = {} /\ UNCHANGED <<subs, feed, run>>
        BY <2>3 DEF BeginDestruction
      <3>3. run \notin {"destroying", "ended"} => m \notin subs
        BY <1>0, <1>01, <3>1, <3>2 DEF Callers
      <3> QED BY <1>0, <1>01, <3>1, <3>2, <3>3 DEF EngineTypeOK, Calls
    <2>4. CASE EndDestruction(c)
      BY <1>0, <1>01, <2>4 DEF EndDestruction, EngineTypeOK, Calls
    <2> QED BY <1>2, <2>1, <2>2, <2>3, <2>4 DEF Sweep
  <1>3. ASSUME NEW t \in Threads, Proceed(t) PROVE Rest'
    <2>1. CASE process_signal(t)
      BY <1>0, <1>01, <2>1 DEF process_signal, EngineTypeOK, Calls
    <2>2. CASE set_market_data_sinks(t)
      BY <1>0, <1>01, <2>2 DEF set_market_data_sinks, EngineTypeOK, Calls
    <2>3. CASE UseAfterDestruction(t)
      <3>1. UNCHANGED <<managers_, life, subs, feed, run>>
        BY <2>3 DEF UseAfterDestruction
      <3>2. \A c \in Callers : call'[c] \in {call[c], Idle, [call[c] EXCEPT !.pc = "hung"]}
        BY <1>0, <2>3 DEF UseAfterDestruction, EngineTypeOK
      <3>3. \A c \in Callers : /\ call'[c].to_destroy \subseteq call[c].to_destroy
                                /\ \/ call'[c].to_destroy = {}
                                   \/ call'[c].to_cancel = call[c].to_cancel
                                /\ call'[c].kind \in {"none", call[c].kind}
        <4> TAKE c \in Callers
        <4>1. CASE call'[c] = call[c]
          BY <4>1
        <4>2. CASE call'[c] = Idle
          BY <4>2 DEF Idle
        <4>3. CASE call'[c] = [call[c] EXCEPT !.pc = "hung"]
          BY <1>0, <4>3 DEF Calls
        <4> QED BY <3>2, <4>1, <4>2, <4>3
      <3> QED BY <1>0, <1>01, <3>1, <3>3
    <2>4. CASE Unlock(t)
      BY <1>0, <1>01, <2>4 DEF Unlock, Idle, EngineTypeOK, Calls
    <2>5. CASE StopRunning(t)
      BY <1>0, <1>01, <2>5 DEF StopRunning, Idle, EngineTypeOK
    <2> QED BY <1>0, <1>2, <1>3, <2>1, <2>2, <2>3, <2>4, <2>5 DEF Proceed
  <1>4. ASSUME NEW t \in Threads, ClearMarketDataStream(t) PROVE Rest'
    BY <1>0, <1>01, <1>4 DEF ClearMarketDataStream, Idle, EngineTypeOK
  <1>5. ASSUME NEW m \in Managers, DispatchThread(m) PROVE Rest'
    <2>1. CASE Dispatch(m)
      <3> DEFINE e == Head(queue_[m])
      <3>1. call' = Answered(e) /\ UNCHANGED <<managers_, life, subs, feed, run>>
        BY <2>1 DEF Dispatch
      <3>2. e.kind \in {"signal", "raced", "cancel_all", "data"}
        <4>1. queue_[m] \in Seq(QueueEvents) /\ queue_[m] # <<>>
          BY <1>0, <2>1 DEF Dispatch, EngineTypeOK
        <4>2. e \in QueueEvents
          BY <4>1
        <4> QED BY <4>2 DEF QueueEvents
      <3> HIDE DEF e
      <3>3. \A c \in Callers : call'[c] \in {call[c], Idle, [call[c] EXCEPT !.pc = "answered"]}
        BY <1>0, <3>1, <3>2 DEF Answered, EngineTypeOK
      <3>4. \A c \in Callers : /\ call'[c].to_destroy \subseteq call[c].to_destroy
                                /\ \/ call'[c].to_destroy = {}
                                   \/ call'[c].to_cancel = call[c].to_cancel
                                /\ call'[c].kind \in {"none", call[c].kind}
        <4> TAKE c \in Callers
        <4>1. CASE call'[c] = call[c]
          BY <4>1
        <4>2. CASE call'[c] = Idle
          BY <4>2 DEF Idle
        <4>3. CASE call'[c] = [call[c] EXCEPT !.pc = "answered"]
          BY <1>0, <4>3 DEF Calls
        <4> QED BY <3>3, <4>1, <4>2, <4>3
      <3> QED BY <1>0, <1>01, <3>1, <3>4
    <2>2. CASE LeaveLoop(m)
      BY <1>0, <1>01, <2>2 DEF LeaveLoop, EngineTypeOK
    <2> QED BY <1>5, <2>1, <2>2 DEF DispatchThread
  <1>9. ASSUME NEW m \in Managers, StreamEnds(m) PROVE Rest'
    BY <1>0, <1>01, <1>9 DEF StreamEnds, EngineTypeOK
  <1>6. CASE on_tick \/ signal_handler
    BY <1>01, <1>6 DEF on_tick, signal_handler
  <1>7. CASE RunThread
    <2>1. CASE BeginShutdown
      BY <1>01, <2>1 DEF BeginShutdown
    <2>2. CASE cancel_all
      BY <1>0, <1>01, <2>2 DEF cancel_all, Idle, EngineTypeOK
    <2>3. CASE stop_all
      BY <1>0, <1>01, <2>3 DEF stop_all, EngineTypeOK, Calls
    <2>4. CASE Destroyed
      BY <1>0, <1>01, <2>4 DEF Destroyed, Idle, EngineTypeOK
    <2> QED BY <1>0, <1>2, <1>7, <2>1, <2>2, <2>3, <2>4 DEF RunThread
  <1>8. CASE UNCHANGED engineVars
    BY <1>01, <1>8 DEF engineVars
  <1> QED BY <1>1, <1>3, <1>4, <1>5, <1>6, <1>7, <1>8, <1>9 DEF EngineNext

(* As long as the feed's thread runs, on_tick and on_bar push only to managers *)
(* whose destructor has not begun, for any number of strategies and threads.   *)
THEOREM FeedPointersValid == EngineSpec => []FeedReachesLiveManagers
  <1>1. FeedInv => FeedReachesLiveManagers
    BY DEF FeedInv, SubscribersExist, RunIsLast, FeedReachesLiveManagers
  <1> QED BY FeedInit, FeedStep, <1>1, PTL DEF EngineSpec

------------------------------------------------------------------------------
(* The same with adapters: a registration that waits for its adapter holds    *)
(* the server up, so that it never ends after Run() has begun to destroy.     *)

PingsEndInTime ==
    \A t \in Threads :
        call[t].pc = "pinging" => /\ run \in {"serving", "shutdown"}
                                  /\ call[t].strategy \in Strategies

AdapterFeedInv == FeedInv /\ PingsEndInTime

LEMMA PingStep == AdapterFeedInv /\ EngineNext => PingsEndInTime'
  <1> SUFFICES ASSUME AdapterFeedInv, EngineNext, NEW t \in Threads, call'[t].pc = "pinging"
               PROVE  /\ run' \in {"serving", "shutdown"}
                      /\ call'[t].strategy \in Strategies
    BY DEF PingsEndInTime
  <1>0. /\ EngineTypeOK
        /\ "main" \in Callers /\ "main" \notin Threads
        /\ \A u \in Threads : u \in Callers
        /\ \A c \in Callers : call[c] \in Calls
        /\ call[t].pc = "pinging" => /\ run \in {"serving", "shutdown"}
                                     /\ call[t].strategy \in Strategies
    BY EngineAssumption DEF AdapterFeedInv, FeedInv, PingsEndInTime, EngineTypeOK, Callers
  <1>1. call'[t] = call[t] \/ call'[t].pc # "pinging"
    <2>1. CASE \E u \in Threads : Arrival(u)
      <3>1. call \in [Callers -> Calls]
        BY <1>0 DEF EngineTypeOK
      <3>2. PICK u \in Threads : Arrival(u)
        BY <2>1
      <3>3. ASSUME NEW s \in Strategies, NEW starts \in BOOLEAN, NEW subscribes \in BOOLEAN,
                   RegisterStrategy(u, s, starts, subscribes)
            PROVE  call'[t] = call[t]
        BY <3>3 DEF RegisterStrategy
      <3>4. ASSUME NEW s \in Strategies, NEW k \in {"signal", "stream"}, Find(u, s, k)
            PROVE  call'[t] = call[t] \/ call'[t].pc = "found"
        BY <1>0, <3>1, <3>4 DEF Find, Idle
      <3>5. ASSUME NEW k, NEW targets, Kill(u, k, targets)
            PROVE  call'[t] = call[t] \/ call'[t].pc = "sweeping"
        BY <1>0, <3>1, <3>5 DEF Kill, Idle
      <3>6. ASSUME NEW s \in Strategies, stop_strategy(u, s)
            PROVE  call'[t] = call[t] \/ call'[t].pc = "sweeping"
        BY <3>5, <3>6 DEF stop_strategy
      <3>7. CASE halt_all(u)
        BY <3>5, <3>7 DEF halt_all
      <3> QED BY <3>2, <3>3, <3>4, <3>6, <3>7 DEF Arrival
    <2>2. ASSUME NEW c \in Callers, Sweep(c) PROVE call'[t] = call[t] \/ call'[t].pc # "pinging"
      <3>1. CASE CancelNext(c)
        BY <1>0, <3>1 DEF CancelNext, EngineTypeOK, Calls
      <3>2. CASE Cancelled(c)
        BY <1>0, <3>2 DEF Cancelled, EngineTypeOK, Calls
      <3>3. CASE BeginDestruction(c)
        <4>1. PICK m : call' = [call EXCEPT ![c].om = m]
          BY <3>3 DEF BeginDestruction
        <4>2. call'[t] = call[t] \/ (t = c /\ call'[t].pc = call[c].pc)
          BY <1>0, <4>1 DEF EngineTypeOK, Calls
        <4> QED BY <3>3, <4>2 DEF BeginDestruction
      <3>4. CASE EndDestruction(c)
        BY <1>0, <3>4 DEF EndDestruction, EngineTypeOK, Calls
      <3> QED BY <2>2, <3>1, <3>2, <3>3, <3>4 DEF Sweep
    <2>3. ASSUME NEW u \in Threads, Proceed(u)
          PROVE  call'[t] = call[t] \/ call'[t].pc # "pinging"
      <3>1. CASE process_signal(u)
        BY <1>0, <3>1 DEF process_signal, EngineTypeOK, Calls
      <3>2. CASE set_market_data_sinks(u)
        BY <1>0, <3>2 DEF set_market_data_sinks, EngineTypeOK, Calls
      <3>3. CASE UseAfterDestruction(u)
        BY <1>0, <3>3 DEF UseAfterDestruction, Idle, EngineTypeOK, Calls
      <3>4. CASE Unlock(u)
        BY <1>0, <3>4 DEF Unlock, Idle, EngineTypeOK
      <3>5. CASE StopRunning(u)
        BY <1>0, <3>5 DEF StopRunning, Idle, EngineTypeOK
      <3> QED BY <1>0, <2>2, <2>3, <3>1, <3>2, <3>3, <3>4, <3>5 DEF Proceed
    <2>4. CASE \E u \in Threads : ClearMarketDataStream(u)
      BY <1>0, <2>4 DEF ClearMarketDataStream, Idle, EngineTypeOK
    <2>5. ASSUME NEW m \in Managers, DispatchThread(m)
          PROVE  call'[t] = call[t] \/ call'[t].pc # "pinging"
      <3>1. CASE LeaveLoop(m)
        BY <3>1 DEF LeaveLoop
      <3>2. CASE Dispatch(m)
        <4> DEFINE e == Head(queue_[m])
        <4>1. call' = Answered(e)
          BY <3>2 DEF Dispatch
        <4>2. e.kind \in {"signal", "raced", "cancel_all", "data"}
          <5>1. queue_[m] \in Seq(QueueEvents) /\ queue_[m] # <<>>
            BY <1>0, <3>2 DEF Dispatch, EngineTypeOK
          <5>2. e \in QueueEvents
            BY <5>1
          <5> QED BY <5>2 DEF QueueEvents
        <4> HIDE DEF e
        <4> QED BY <1>0, <4>1, <4>2 DEF Answered, Idle, EngineTypeOK, Calls
      <3> QED BY <2>5, <3>1, <3>2 DEF DispatchThread
    <2>6. CASE on_tick \/ signal_handler
      BY <2>6 DEF on_tick, signal_handler
    <2>7. CASE RunThread
      BY <1>0, <2>2, <2>7 DEF RunThread, BeginShutdown, cancel_all, stop_all, Destroyed, Idle,
                              EngineTypeOK, Calls
    <2>8. CASE \E m \in Managers : StreamEnds(m)
      BY <2>8 DEF StreamEnds
    <2> QED BY <2>1, <2>3, <2>4, <2>5, <2>6, <2>7, <2>8 DEF EngineNext
  <1>2. call[t].pc = "pinging" => run' \in {"serving", "shutdown"}
    <2>1. CASE RunThread
      <3>1. CASE Sweep("main")
        BY <1>0, <3>1 DEF Sweep, CancelNext, Cancelled, BeginDestruction, EndDestruction
      <3>2. CASE BeginShutdown
        BY <3>2 DEF BeginShutdown
      <3>3. CASE cancel_all
        BY <3>3 DEF cancel_all, Idle
      <3>4. CASE stop_all \/ Destroyed
        BY <1>0, <3>4 DEF stop_all, Destroyed
      <3> QED BY <2>1, <3>1, <3>2, <3>3, <3>4 DEF RunThread
    <2>2. CASE ~RunThread
      <3>1. run' = run
        BY <2>2 DEF EngineNext, Arrival, RegisterStrategy, create_strategy, Find, stop_strategy,
                    halt_all, Kill, Proceed, process_signal, set_market_data_sinks,
                    UseAfterDestruction, Sweep, CancelNext, Cancelled, BeginDestruction,
                    EndDestruction, Unlock, StopRunning, ClearMarketDataStream,
                    DispatchThread, Dispatch, LeaveLoop, StreamEnds, on_tick,
                    signal_handler
      <3> QED BY <1>0, <3>1
    <2> QED BY <2>1, <2>2
  <1> QED BY <1>0, <1>1, <1>2

LEMMA AdapterFeedStep ==
    AdapterFeedInv /\ [EngineAdaptersNext]_adapterEngineVars => AdapterFeedInv'
  <1> SUFFICES ASSUME AdapterFeedInv, [EngineAdaptersNext]_adapterEngineVars
               PROVE  AdapterFeedInv'
    OBVIOUS
  <1>0. /\ "main" \in Callers /\ "main" \notin Threads
        /\ \A t \in Threads : t \in Callers
        /\ \A c \in Callers : call[c] \in Calls
        /\ Idle \in Calls
        /\ EngineTypeOK
        /\ FeedInv
        /\ PingsEndInTime
    BY EngineAssumption, IdleType DEF Callers, AdapterFeedInv, FeedInv, EngineTypeOK
  <1>1. CASE EngineStep
    BY <1>1, FeedStep, PingStep DEF EngineStep, AdapterFeedInv
  <1>2. ASSUME NEW t \in Threads, NEW s \in Strategies, spawn(t, s) PROVE AdapterFeedInv'
    <2>1. call' \in [Callers -> Calls]
      BY ZenonT(40), <1>0, <1>2, CallUpdates DEF spawn, EngineTypeOK
    <2>2. EngineTypeOK'
      BY <1>0, <1>2, <2>1 DEF spawn, EngineTypeOK
    <2>3. SubscribersExist' /\ Unsubscribed' /\ Created' /\ RunIsLast'
      BY <1>0, <1>2 DEF spawn, Idle, EngineTypeOK, FeedInv, SubscribersExist, Unsubscribed,
                        Created, RunIsLast
    <2>4. PingsEndInTime'
      BY <1>0, <1>2 DEF spawn, Free, Idle, EngineTypeOK, PingsEndInTime
    <2> QED BY <2>2, <2>3, <2>4 DEF AdapterFeedInv, FeedInv
  \* A manager is emplaced: the adapter is there, or it is the feed that has none.
  <1>3. ASSUME NEW t \in Threads, call[t].pc = "pinging", NEW a \in BOOLEAN, NEW b \in BOOLEAN,
               create_strategy(call[t].strategy, a, b), Return(t)
        PROVE  AdapterFeedInv'
    <2> DEFINE s == call[t].strategy
    <2>1. create_strategy(s, a, b)
      BY <1>3
    <2>2. PICK m \in Managers :
             /\ life[m] = "unborn"
             /\ managers_' = [managers_ EXCEPT ![s] = m]
             /\ life' = [life EXCEPT ![m] = "alive"]
             /\ subs' = IF b THEN subs \cup {m} ELSE subs
             /\ feed' = IF a THEN "running" ELSE feed
      BY <2>1 DEF create_strategy
    <2>3. /\ s \in Strategies
          /\ run \in {"serving", "shutdown"}
          /\ UNCHANGED <<running_, run, queue_, live, sink, crashed, left>>
          /\ call' = [call EXCEPT ![t] = Idle]
          /\ managers_mu_' = None
      BY <1>0, <1>3, <2>1 DEF Return, create_strategy, PingsEndInTime
    <2> HIDE DEF s
    <2>4. EngineTypeOK'
      BY <1>0, <2>2, <2>3 DEF EngineTypeOK
    <2>5. /\ \A k \in Managers : k # m => life'[k] = life[k]
          /\ life'[m] = "alive"
          /\ \A k \in subs' : k \in Managers /\ (k = m \/ k \in subs)
      BY <1>0, <2>2 DEF EngineTypeOK
    <2>6. \A u \in Callers : call'[u] = call[u] \/ (u # "main" /\ call'[u] = Idle)
      BY <1>0, <2>3 DEF EngineTypeOK
    <2>7. \A u \in Threads : /\ call'[u].to_destroy \subseteq Managers \ {m}
                             /\ call'[u].kind # "run"
                             /\ call'[u] = call[u] \/ call'[u] = Idle
      <3> TAKE u \in Threads
      <3>1. u \in Callers /\ u # "main" /\ call[u].kind # "run"
        BY <1>0 DEF FeedInv, RunIsLast
      <3>2. call[u].to_destroy \subseteq Managers \ {m}
        BY <1>0, <2>2, <3>1, CallFields DEF FeedInv, Created
      <3>3. CASE call'[u] = call[u]
        BY <3>1, <3>2, <3>3
      <3>4. CASE call'[u] = Idle
        BY <3>4 DEF Idle
      <3> QED BY <2>6, <3>1, <3>3, <3>4
    <2>8. SubscribersExist'
      BY <1>0, <2>3, <2>5 DEF FeedInv, SubscribersExist
    <2>9. Unsubscribed'
      BY <1>0, <2>5, <2>7 DEF FeedInv, Unsubscribed, Idle
    <2>10. Created'
      <3>1. \A u \in Threads : \A k \in call'[u].to_destroy : life'[k] # "unborn"
        BY <1>0, <2>5, <2>7 DEF FeedInv, Created, Idle
      <3>2. \A r \in Strategies : managers_'[r] # None => life'[managers_'[r]] # "unborn"
        BY <1>0, <2>2, <2>3, <2>5 DEF FeedInv, Created, EngineTypeOK
      <3> QED BY <3>1, <3>2 DEF Created
    <2>11. RunIsLast'
      BY <1>0, <2>3, <2>6, <2>7 DEF FeedInv, RunIsLast
    <2>12. PingsEndInTime'
      BY <1>0, <2>3, <2>7 DEF PingsEndInTime, Idle
    <2> QED BY <2>4, <2>8, <2>9, <2>10, <2>11, <2>12 DEF AdapterFeedInv, FeedInv
  <1>4. ASSUME NEW t \in Threads, AdapterNotReady(t) PROVE AdapterFeedInv'
    <2>0. call[t].pc = "pinging" /\ Return(t)
      BY <1>4 DEF AdapterNotReady
    <2>1. CASE UNCHANGED <<managers_, running_, run, life, queue_, live, sink, subs, feed,
                           crashed, left>>
      <3>1. EngineTypeOK'
        BY <1>0, <2>0, <2>1 DEF Return, EngineTypeOK
      <3>2. SubscribersExist' /\ Unsubscribed' /\ Created' /\ RunIsLast'
        BY <1>0, <2>0, <2>1 DEF Return, Idle, EngineTypeOK, FeedInv, SubscribersExist,
                                Unsubscribed, Created, RunIsLast
      <3>3. PingsEndInTime'
        BY <1>0, <2>0, <2>1 DEF Return, Idle, EngineTypeOK, PingsEndInTime
      <3> QED BY <3>1, <3>2, <3>3 DEF AdapterFeedInv, FeedInv
    <2>2. CASE create_strategy(call[t].strategy, FALSE, FALSE)
      BY <1>3, <2>0, <2>2
    <2> QED BY <1>4, <2>1, <2>2 DEF AdapterNotReady
  <1>7. ASSUME NEW t \in Threads, AdapterReady(t) PROVE AdapterFeedInv'
    BY <1>3, <1>7 DEF AdapterReady
  <1>5. CASE UNCHANGED engineVars
    <2>1. FeedInv'
      BY <1>0, <1>5, FeedStep
    <2> QED BY <1>0, <1>5, <2>1 DEF engineVars, AdapterFeedInv, PingsEndInTime
  <1>6. CASE StopAdapters
    BY <1>5, <1>6 DEF StopAdapters
  <1> QED BY <1>1, <1>2, <1>4, <1>5, <1>6, <1>7
          DEF EngineAdaptersNext, AwaitAdapter, adapterEngineVars

(* The engine with adapters: the feed pushes only to managers whose destructor *)
(* has not begun, also when a registration waits for its adapter while the     *)
(* kill switch is pulled or the engine shuts down.                             *)
THEOREM FeedPointersValidWithAdapters == EngineAdaptersSpec => []FeedReachesLiveManagers
  <1>1. EngineAdaptersInit => AdapterFeedInv
    <2>1. EngineInit => PingsEndInTime
      BY DEF EngineInit, PingsEndInTime, Idle, Callers
    <2> QED BY <2>1, FeedInit DEF EngineAdaptersInit, AdapterFeedInv
  <1>2. AdapterFeedInv => FeedReachesLiveManagers
    BY DEF AdapterFeedInv, FeedInv, SubscribersExist, RunIsLast, FeedReachesLiveManagers
  <1> QED BY <1>1, <1>2, AdapterFeedStep, PTL DEF EngineAdaptersSpec

------------------------------------------------------------------------------
(***************************************************************************)
(* What the kill switch and the shutdown of the engine leave behind: orders *)
(* that can execute, writers of streams that have ended, and adapters.     *)
(***************************************************************************)

------------------------------------------------------------------------------
(* The inductive invariant.                                                 *)

\* Caller c cancels and destroys managers: a kill switch or Run().
Sweeping(c) == call[c].kind \in {"stop", "halt", "run"}

\* The map holds the managers that are alive, each under one strategy.
MapHoldsTheLiving ==
    /\ \A s \in Strategies : managers_[s] # None => life[managers_[s]] = "alive"
    /\ \A r, s \in Strategies : managers_[r] = managers_[s] /\ managers_[r] # None => r = s
    /\ \A m \in Managers : life[m] = "alive" => \E s \in Strategies : managers_[s] = m

\* Who holds the exclusive lock, and that nobody calls once Run() cancels.
LockOf(t) ==
    /\ managers_mu_ = t <=> Sweeping(t) \/ call[t].pc = "pinging"
    /\ call[t].pc \in {"sweeping", "answered"} => Sweeping(t)
    /\ call[t].pc = "waiting" => Sweeping(t) \/ call[t].kind = "signal"
    /\ Sweeping(t) => call[t].pc \in {"sweeping", "waiting", "answered"}
    /\ ~Sweeping(t) => call[t].to_cancel = {} /\ call[t].to_destroy = {}
    /\ run \in {"cancelling", "destroying", "ended"} => call[t] = Idle

LockHolder == \A t \in Threads : LockOf(t)

\* What a call knows of the map is still so, unless its manager is being killed.
LookupOf(t) ==
    /\ call[t].pc = "found" =>
          /\ call[t].strategy \in Strategies
          /\ call[t].om \in Managers
          /\ life[call[t].om] # "unborn"
          /\ life[call[t].om] = "alive" => managers_[call[t].strategy] = call[t].om
    /\ call[t].pc = "streaming" => call[t].strategy \in Strategies
    /\ call[t].pc = "pinging" => managers_[call[t].strategy] = None

LookupsHold == \A t \in Threads : LookupOf(t)

\* How far Run() is.
RunSweeps ==
    /\ run \in {"serving", "shutdown", "ended"} => call["main"] = Idle
    /\ run \in {"cancelling", "destroying"} => call["main"].kind = "run"
    /\ run = "cancelling" => call["main"].to_destroy = {}
    /\ run = "destroying" => call["main"].to_cancel = {}
    /\ run \in {"destroying", "ended"} =>
          \A m \in Managers : life[m] \notin {"unborn", "dead"} => m \in call["main"].to_destroy

\* A sweep cancels managers that are alive and destroys them one by one.
ShapeOf(c) ==
    /\ call[c].pc \in {"sweeping", "waiting", "answered"}
    /\ \A m \in call[c].to_cancel : life[m] = "alive"
    /\ call[c].kind # "run" => call[c].to_cancel \subseteq call[c].to_destroy
    /\ call[c].pc \in {"waiting", "answered"} => call[c].om \in call[c].to_cancel
    /\ call[c].pc = "sweeping" /\ call[c].om # None =>
          /\ call[c].om \in call[c].to_destroy
          /\ life[call[c].om] \notin {"unborn", "alive"}
          /\ call[c].to_cancel = {}
    /\ \A m \in call[c].to_destroy :
          life[m] = "alive" \/ (call[c].pc = "sweeping" /\ call[c].om = m)

SweepShape == \A c \in Callers : Sweeping(c) => ShapeOf(c)

\* A destructor has a caller.
StoppingIsSwept ==
    \A m \in Managers : life[m] \in {"stopping", "hung", "reading"} =>
        \E c \in Callers : Sweeping(c) /\ m \in call[c].to_destroy

\* A queued command is one its caller waits for, and there is one per caller.
Awaited(m, i) ==
    LET e == queue_[m][i] IN
    /\ e.kind \in {"signal", "raced"} => /\ e.from \in Threads
                                         /\ call[e.from].pc = "waiting"
                                         /\ call[e.from].kind = "signal"
    /\ e.kind = "cancel_all" => /\ e.from \in Callers
                                /\ call[e.from].pc = "waiting"
                                /\ Sweeping(e.from)
                                /\ call[e.from].om = m
    /\ e.kind = "data" => e.from = None

EventsAreAwaited ==
    /\ \A m \in Managers : \A i \in DOMAIN queue_[m] : Awaited(m, i)
    /\ \A m, n \in Managers : \A i \in DOMAIN queue_[m], j \in DOMAIN queue_[n] :
          queue_[m][i].from = queue_[n][j].from /\ queue_[m][i].kind # "data"
              => m = n /\ i = j

\* No order of m can execute, and none will, but for those that a cancel_all has
\* left and those of the calls that raced.
Settled(m) ==
    /\ live[m] => m \in left
    /\ \A i \in DOMAIN queue_[m] : queue_[m][i].kind # "signal"

\* What a sweep has cancelled is settled; while it waits, so is what is queued
\* behind the cancellation.
SettledBehind(c) ==
    /\ call[c].pc = "waiting" =>
          \E i \in DOMAIN queue_[call[c].om] :
              /\ queue_[call[c].om][i] = [kind |-> "cancel_all", from |-> c]
              /\ \A j \in DOMAIN queue_[call[c].om] :
                    j > i => queue_[call[c].om][j].kind # "signal"
    /\ call[c].pc = "answered" => Settled(call[c].om)
    /\ \A m \in call[c].to_destroy : m \in call[c].to_cancel \/ Settled(m)

CancelSettles ==
    /\ \A m \in Managers : life[m] # "alive" => Settled(m)
    /\ \A c \in Callers : Sweeping(c) => SettledBehind(c)
    /\ run \in {"cancelling", "destroying", "ended"} =>
          \A m \in Managers : m \in call["main"].to_cancel \/ Settled(m)

\* A manager that is not gone writes to a stream in progress, and to one that
\* will clear it.
SinkOf(m) ==
    sink[m] # None =>
        /\ life[m] # "unborn"
        /\ life[m] \in {"alive", "stopping", "hung"} => call[sink[m]].pc = "streaming"
        /\ life[m] = "alive" => managers_[call[sink[m]].strategy] = m

SinksAreCleared == \A m \in Managers : SinkOf(m)

\* Adapters are stopped last.
AdaptersLast == adapter = "stopped" => run = "ended"

SweepInv ==
    /\ MapHoldsTheLiving
    /\ LockHolder
    /\ LookupsHold
    /\ RunSweeps
    /\ SweepShape
    /\ StoppingIsSwept
    /\ EventsAreAwaited
    /\ CancelSettles
    /\ SinksAreCleared

KillSwitchInv == AdapterFeedInv /\ SweepInv /\ AdaptersLast

------------------------------------------------------------------------------
(* Facts every step uses.                                                   *)

LEMMA Basics ==
    ASSUME EngineTypeOK
    PROVE  /\ "main" \in Callers /\ "main" \notin Threads
           /\ \A t \in Threads : t \in Callers
           /\ \A c \in Callers : c \in Threads \/ c = "main"
           /\ None \notin Callers
           /\ None \notin Managers
           /\ call \in [Callers -> Calls]
           /\ \A c \in Callers : /\ call[c] \in Calls
                                 /\ call[c].to_cancel \subseteq Managers
                                 /\ call[c].to_destroy \subseteq Managers
                                 /\ call[c].om \in Managers \cup {None}
           /\ life \in [Managers -> {"unborn", "alive", "stopping", "hung", "reading", "dead"}]
           /\ managers_ \in [Strategies -> Managers \cup {None}]
           /\ sink \in [Managers -> Threads \cup {None}]
           /\ live \in [Managers -> BOOLEAN]
           /\ queue_ \in [Managers -> Seq(QueueEvents)]
  <1>1. "main" \in Callers /\ "main" \notin Threads /\ \A t \in Threads : t \in Callers
    BY EngineAssumption DEF Callers
  <1>2. None \notin Callers /\ None \notin Managers
    BY EngineAssumption DEF Callers, Managers
  <1>3. call \in [Callers -> Calls] /\ \A c \in Callers : call[c] \in Calls
    BY DEF EngineTypeOK
  <1> QED BY <1>1, <1>2, <1>3, CallFields DEF EngineTypeOK, Callers

\* The fields of an idle record.
LEMMA IdleFields ==
    /\ Idle.pc = "idle" /\ Idle.kind = "none" /\ Idle.om = None
    /\ Idle.to_cancel = {} /\ Idle.to_destroy = {}
  BY DEF Idle

\* While a thread is in a call, Run() has not begun to cancel.
LEMMA CallsBeforeCancel ==
    ASSUME EngineTypeOK, SweepInv, NEW t \in Threads, call[t] # Idle
    PROVE  run \in {"serving", "shutdown"}
  BY DEF SweepInv, LockHolder, LockOf, EngineTypeOK

\* One caller sweeps at a time.
LEMMA OneSweep ==
    ASSUME EngineTypeOK, SweepInv, NEW c \in Callers, NEW d \in Callers, Sweeping(c), Sweeping(d)
    PROVE  c = d
  <1>1. ASSUME NEW t \in Threads, Sweeping(t), Sweeping("main") PROVE FALSE
    <2>1. call["main"] # Idle
      BY <1>1, IdleFields DEF Sweeping
    <2>2. run \in {"cancelling", "destroying"}
      BY <2>1 DEF SweepInv, RunSweeps, EngineTypeOK
    <2>3. call[t] = Idle
      BY <2>2 DEF SweepInv, LockHolder, LockOf
    <2> QED BY <1>1, <2>3, IdleFields DEF Sweeping
  <1>2. ASSUME NEW t \in Threads, NEW u \in Threads, Sweeping(t), Sweeping(u) PROVE t = u
    BY <1>2 DEF SweepInv, LockHolder, LockOf
  <1> QED BY <1>1, <1>2, Basics

\* What sweeps do is as it was when a thread that does not sweep takes a step of
\* its own; managers may be created meanwhile.
LEMMA QuietShape ==
    ASSUME EngineTypeOK, SweepInv, NEW t \in Threads, ~Sweeping(t), ~Sweeping(t)',
           \A u \in Callers : u # t => call'[u] = call[u],
           run' = run,
           \A m \in Managers : life'[m] = life[m] \/ (life[m] = "unborn" /\ life'[m] = "alive")
    PROVE  /\ RunSweeps' \/ run \notin {"serving", "shutdown"}
           /\ SweepShape' /\ StoppingIsSwept'
           /\ \A u \in Callers : Sweeping(u)' => Sweeping(u) /\ call'[u] = call[u]
           /\ \A u \in Callers : Sweeping(u) => Sweeping(u)' /\ call'[u] = call[u]
  <1>0. /\ "main" \in Callers /\ "main" # t
        /\ \A c \in Callers : /\ call[c].to_cancel \subseteq Managers
                              /\ call[c].to_destroy \subseteq Managers
                              /\ call[c].om \in Managers \cup {None}
    BY Basics
  <1>1. \A u \in Callers : Sweeping(u)' => Sweeping(u) /\ call'[u] = call[u]
    BY DEF Sweeping
  <1>2. \A u \in Callers : Sweeping(u) => Sweeping(u)' /\ call'[u] = call[u]
    BY DEF Sweeping
  <1>3. RunSweeps' \/ run \notin {"serving", "shutdown"}
    BY <1>0 DEF SweepInv, RunSweeps
  <1>4. SweepShape'
    <2> SUFFICES ASSUME NEW c \in Callers, Sweeping(c)' PROVE ShapeOf(c)'
      BY DEF SweepShape
    <2> QED BY <1>0, <1>1 DEF SweepInv, SweepShape, ShapeOf
  <1>5. StoppingIsSwept'
    BY <1>0, <1>2 DEF SweepInv, StoppingIsSwept
  <1> QED BY <1>1, <1>2, <1>3, <1>4, <1>5

\* A caller that waits for no command takes a step of its own.
LEMMA EventsKept ==
    ASSUME EngineTypeOK, SweepInv, NEW c \in Callers, call[c].pc # "waiting",
           \A u \in Callers : u # c => call'[u] = call[u],
           queue_' = queue_
    PROVE  EventsAreAwaited'
  <1>1. ASSUME NEW m \in Managers, NEW i \in DOMAIN queue_[m] PROVE Awaited(m, i)'
    <2>1. Awaited(m, i)
      BY DEF SweepInv, EventsAreAwaited
    <2>2. \A u \in Callers : call[u].pc = "waiting" => call'[u] = call[u]
      OBVIOUS
    <2> QED BY <2>1, <2>2, Basics DEF Awaited, Sweeping
  <1> QED BY <1>1 DEF SweepInv, EventsAreAwaited

\* A thread that neither sweeps nor waits takes a step of its own; managers may
\* be created meanwhile.
LEMMA QuietStep ==
    ASSUME EngineTypeOK, SweepInv, NEW t \in Threads,
           ~Sweeping(t), call[t].pc # "waiting", ~Sweeping(t)',
           \A u \in Callers : u # t => call'[u] = call[u],
           run \in {"serving", "shutdown"},
           UNCHANGED <<run, queue_, live, left>>,
           \A m \in Managers : life'[m] = life[m] \/ (life[m] = "unborn" /\ life'[m] = "alive")
    PROVE  RunSweeps' /\ SweepShape' /\ StoppingIsSwept' /\ EventsAreAwaited' /\ CancelSettles'
  <1>0. /\ t \in Callers
        /\ \A c \in Callers : /\ call[c].to_cancel \subseteq Managers
                              /\ call[c].to_destroy \subseteq Managers
                              /\ call[c].om \in Managers \cup {None}
    BY Basics
  <1>1. /\ RunSweeps' /\ SweepShape' /\ StoppingIsSwept'
        /\ \A u \in Callers : Sweeping(u)' => Sweeping(u) /\ call'[u] = call[u]
    BY QuietShape
  <1>2. EventsAreAwaited'
    BY <1>0, EventsKept
  <1>3. CancelSettles'
    <2>1. \A m \in Managers : Settled(m) <=> Settled(m)'
      BY DEF Settled
    <2>2. \A m \in Managers : life'[m] # "alive" => Settled(m)'
      BY <2>1 DEF SweepInv, CancelSettles
    <2>3. ASSUME NEW c \in Callers, Sweeping(c)' PROVE SettledBehind(c)'
      <3>1. Sweeping(c) /\ call'[c] = call[c]
        BY <1>1, <2>3
      <3>2. call[c].pc = "answered" => call[c].om \in Managers
        BY <1>0, <3>1 DEF SweepInv, SweepShape, ShapeOf
      <3>3. SettledBehind(c)
        BY <3>1 DEF SweepInv, CancelSettles
      <3>4. call[c].pc = "answered" => Settled(call[c].om)'
        BY <3>1, <3>2, <3>3 DEF SettledBehind, Settled
      <3>5. \A m \in call[c].to_destroy : m \in call[c].to_cancel \/ Settled(m)'
        BY <1>0, <2>1, <3>3 DEF SettledBehind
      <3> QED BY <3>1, <3>3, <3>4, <3>5 DEF SettledBehind, Settled
    <2> QED BY <1>1, <2>2, <2>3 DEF CancelSettles, Settled
  <1> QED BY <1>1, <1>2, <1>3

------------------------------------------------------------------------------
(* Steps of calls that do not sweep.                                        *)

LEMMA FindKeeps ==
    ASSUME EngineTypeOK, SweepInv, NEW t \in Threads, NEW s \in Strategies,
           NEW k \in {"signal", "stream"}, Find(t, s, k)
    PROVE  SweepInv'
  <1>0. "main" # t /\ t \in Callers /\ call \in [Callers -> Calls]
    BY Basics
  <1>1. /\ run = "serving" /\ call[t] = Idle /\ managers_mu_ = None /\ managers_[s] # None
        /\ call'[t] = [Idle EXCEPT !.pc = "found", !.kind = k, !.strategy = s, !.om = managers_[s]]
        /\ \A u \in Callers : u # t => call'[u] = call[u]
        /\ UNCHANGED <<managers_, managers_mu_, run, life, queue_, live, sink, left>>
    BY <1>0 DEF Find, Free
  <1>2. /\ call'[t].pc = "found" /\ call'[t].kind = k /\ call'[t].strategy = s
        /\ call'[t].om = managers_[s] /\ call'[t].to_cancel = {} /\ call'[t].to_destroy = {}
    BY <1>1 DEF Idle
  <1>3. ~Sweeping(t) /\ ~Sweeping(t)' /\ call[t].pc = "idle"
    BY <1>1, <1>2, IdleFields DEF Sweeping
  <1>4. RunSweeps' /\ SweepShape' /\ StoppingIsSwept' /\ EventsAreAwaited' /\ CancelSettles'
    BY <1>1, <1>2, <1>3, QuietStep
  <1>5. MapHoldsTheLiving'
    BY <1>1 DEF SweepInv, MapHoldsTheLiving
  <1>6. LockHolder'
    <2> SUFFICES ASSUME NEW u \in Threads
                 PROVE  LockOf(u)'
      BY DEF LockHolder
    <2>1. u \in Callers /\ None # u
      BY Basics
    <2>2. CASE u = t
      BY <1>1, <1>2, <1>3, <2>1, <2>2 DEF LockOf
    <2>3. CASE u # t
      BY <1>1, <2>1, <2>3 DEF SweepInv, LockHolder, LockOf, Sweeping
    <2> QED BY <2>2, <2>3
  <1>7. LookupsHold'
    <2> SUFFICES ASSUME NEW u \in Threads
                 PROVE  LookupOf(u)'
      BY DEF LookupsHold
    <2>1. managers_[s] \in Managers /\ life[managers_[s]] = "alive"
      BY <1>1, Basics DEF SweepInv, MapHoldsTheLiving
    <2>2. CASE u = t
      BY <1>1, <1>2, <2>1, <2>2 DEF LookupOf
    <2>3. CASE u # t
      BY <1>1, <2>3, Basics DEF SweepInv, LookupsHold, LookupOf
    <2> QED BY <2>2, <2>3
  <1>8. SinksAreCleared'
    <2> SUFFICES ASSUME NEW n \in Managers, sink[n] # None PROVE SinkOf(n)'
      BY <1>1 DEF SinksAreCleared, SinkOf
    <2>1. SinkOf(n) /\ sink[n] \in Callers
      BY Basics DEF SweepInv, SinksAreCleared
    <2>2. life[n] \in {"alive", "stopping", "hung"} => sink[n] # t
      BY <1>3, <2>1 DEF SinkOf
    <2> QED BY <1>1, <2>1, <2>2 DEF SinkOf
  <1> QED BY <1>4, <1>5, <1>6, <1>7, <1>8 DEF SweepInv

LEMMA SetSinkKeeps ==
    ASSUME EngineTypeOK, SweepInv, NEW t \in Threads, set_market_data_sinks(t)
    PROVE  SweepInv'
  <1>0. "main" # t /\ t \in Callers /\ call \in [Callers -> Calls] /\ call[t] \in Calls
        /\ sink \in [Managers -> Threads \cup {None}]
    BY Basics
  <1> DEFINE m == call[t].om
  <1>1. /\ call[t].pc = "found" /\ call[t].kind = "stream"
        /\ call' = [call EXCEPT ![t] = [@ EXCEPT !.pc = "streaming", !.om = None]]
        /\ sink' = [sink EXCEPT ![m] = t]
        /\ UNCHANGED <<managers_, managers_mu_, run, life, queue_, live, left>>
    BY DEF set_market_data_sinks
  <1>2. /\ \A u \in Callers : u # t => call'[u] = call[u]
        /\ call'[t].pc = "streaming" /\ call'[t].kind = "stream" /\ call'[t].om = None
        /\ call'[t].strategy = call[t].strategy
        /\ call'[t].to_cancel = call[t].to_cancel /\ call'[t].to_destroy = call[t].to_destroy
    BY <1>0, <1>1 DEF Calls
  <1>3. ~Sweeping(t) /\ ~Sweeping(t)'
    BY <1>1, <1>2 DEF Sweeping
  <1>4. /\ call[t] # Idle /\ call'[t].to_cancel = {} /\ call'[t].to_destroy = {}
        /\ run \in {"serving", "shutdown"}
    BY <1>1, <1>2, <1>3, IdleFields, CallsBeforeCancel DEF SweepInv, LockHolder, LockOf
  <1>5. RunSweeps' /\ SweepShape' /\ StoppingIsSwept' /\ EventsAreAwaited' /\ CancelSettles'
    BY <1>1, <1>2, <1>3, <1>4, QuietStep
  <1>6. MapHoldsTheLiving'
    BY <1>1 DEF SweepInv, MapHoldsTheLiving
  <1>7. LockHolder'
    BY <1>0, <1>1, <1>2, <1>3, <1>4, Basics DEF SweepInv, LockHolder, LockOf, Sweeping
  <1>8. /\ m \in Managers /\ life[m] # "unborn" /\ call[t].strategy \in Strategies
        /\ life[m] = "alive" => managers_[call[t].strategy] = m
    BY <1>1 DEF SweepInv, LookupsHold, LookupOf
  <1>9. LookupsHold'
    BY <1>0, <1>1, <1>2, <1>8, Basics DEF SweepInv, LookupsHold, LookupOf
  <1>10. SinksAreCleared'
    <2> HIDE DEF m
    <2> SUFFICES ASSUME NEW k \in Managers, sink'[k] # None
                 PROVE  SinkOf(k)'
      BY DEF SinksAreCleared, SinkOf
    <2>1. CASE k = m
      BY <1>0, <1>1, <1>2, <1>8, <2>1 DEF SinkOf
    <2>2. CASE k # m
      BY <1>0, <1>1, <1>2, <1>8, <2>2, Basics DEF SweepInv, SinksAreCleared, SinkOf
    <2> QED BY <2>1, <2>2
  <1> QED BY <1>5, <1>6, <1>7, <1>9, <1>10 DEF SweepInv

\* A call ends, fails or hangs without a lock or a stream.
LEMMA CallEndsKeeps ==
    ASSUME EngineTypeOK, SweepInv, NEW t \in Threads,
           call[t].pc \in {"found", "halting"},
           \/ call' = [call EXCEPT ![t] = Idle]
           \/ call' = [call EXCEPT ![t].pc = "hung"] /\ call[t].pc = "found"
           \/ call' = call,
           UNCHANGED <<managers_, managers_mu_, run, life, queue_, live, sink, left>>
    PROVE  SweepInv'
  <1>0. "main" # t /\ t \in Callers /\ call \in [Callers -> Calls] /\ call[t] \in Calls
    BY Basics
  <1>1. \A u \in Callers : u # t => call'[u] = call[u]
    BY <1>0
  <1>2. ~Sweeping(t) /\ call[t] # Idle /\ call[t].to_cancel = {} /\ call[t].to_destroy = {}
    BY IdleFields DEF SweepInv, LockHolder, LockOf
  <1>3. /\ call'[t].pc \in {"idle", "hung", call[t].pc}
        /\ call'[t].pc = call[t].pc => call'[t] = call[t]
        /\ call'[t].kind \in {"none", call[t].kind}
        /\ call'[t].to_cancel = {} /\ call'[t].to_destroy = {}
    BY <1>0, <1>2, IdleFields DEF Calls
  <1>4. ~Sweeping(t)'
    BY <1>2, <1>3 DEF Sweeping
  <1>5. run \in {"serving", "shutdown"}
    BY <1>2, CallsBeforeCancel
  <1>6. RunSweeps' /\ SweepShape' /\ StoppingIsSwept' /\ EventsAreAwaited' /\ CancelSettles'
    BY <1>1, <1>2, <1>3, <1>4, <1>5, QuietStep
  <1>7. MapHoldsTheLiving'
    BY DEF SweepInv, MapHoldsTheLiving
  <1>8. LockHolder'
    BY <1>0, <1>1, <1>2, <1>3, <1>4, <1>5, Basics DEF SweepInv, LockHolder, LockOf, Sweeping
  <1>9. LookupsHold'
    BY <1>0, <1>1, <1>3, Basics DEF SweepInv, LookupsHold, LookupOf
  <1>10. SinksAreCleared'
    <2> SUFFICES ASSUME NEW k \in Managers, sink'[k] # None
                 PROVE  SinkOf(k)'
      BY DEF SinksAreCleared, SinkOf
    <2>1. sink[k] \in Callers
      BY Basics
    <2>2. life[k] \in {"alive", "stopping", "hung"} => sink[k] # t
      BY DEF SweepInv, SinksAreCleared, SinkOf
    <2> QED BY <1>1, <2>1, <2>2 DEF SweepInv, SinksAreCleared, SinkOf
  <1> QED BY <1>6, <1>7, <1>8, <1>9, <1>10 DEF SweepInv

LEMMA ClearStreamKeeps ==
    ASSUME EngineTypeOK, SweepInv, NEW t \in Threads, ClearMarketDataStream(t)
    PROVE  SweepInv'
  <1>0. "main" # t /\ t \in Callers /\ call \in [Callers -> Calls]
        /\ sink \in [Managers -> Threads \cup {None}]
    BY Basics
  <1> DEFINE m == managers_[call[t].strategy]
  <1>1. /\ call[t].pc = "streaming" /\ managers_mu_ = None
        /\ sink' = [k \in Managers |-> IF k = m THEN None ELSE sink[k]]
        /\ call' = [call EXCEPT ![t] = Idle]
        /\ UNCHANGED <<managers_, managers_mu_, run, life, queue_, live, left>>
    BY DEF ClearMarketDataStream
  <1>2. \A u \in Callers : u # t => call'[u] = call[u]
    BY <1>0, <1>1
  <1>3. call'[t] = Idle /\ ~Sweeping(t) /\ ~Sweeping(t)' /\ call[t] # Idle
    BY <1>0, <1>1, IdleFields DEF SweepInv, LockHolder, LockOf, Sweeping
  <1>4. run \in {"serving", "shutdown"}
    BY <1>3, CallsBeforeCancel
  <1>5. RunSweeps' /\ SweepShape' /\ StoppingIsSwept' /\ EventsAreAwaited' /\ CancelSettles'
    BY <1>1, <1>2, <1>3, <1>4, IdleFields, QuietStep
  <1>6. MapHoldsTheLiving'
    BY <1>1 DEF SweepInv, MapHoldsTheLiving
  <1>7. LockHolder'
    BY <1>0, <1>1, <1>2, <1>3, <1>4, IdleFields, Basics DEF SweepInv, LockHolder, LockOf, Sweeping
  <1>8. LookupsHold'
    BY <1>0, <1>1, <1>2, <1>3, IdleFields, Basics DEF SweepInv, LookupsHold, LookupOf
  <1>9. SinksAreCleared'
    <2> HIDE DEF m
    <2> SUFFICES ASSUME NEW k \in Managers, sink'[k] # None
                 PROVE  SinkOf(k)'
      BY DEF SinksAreCleared, SinkOf
    <2>1. k # m /\ sink'[k] = sink[k] /\ sink[k] \in Threads
      BY <1>0, <1>1
    <2>2. CASE sink[k] # t
      BY <1>1, <1>2, <2>1, <2>2, Basics DEF SweepInv, SinksAreCleared, SinkOf
    <2>3. CASE sink[k] = t
      \* The stream's manager is not in the map: it has been killed, and the lock
      \* was held until it was gone.
      <3>1. life[k] # "alive"
        BY <2>1, <2>3 DEF SweepInv, SinksAreCleared, SinkOf, m
      <3>2. life[k] \notin {"stopping", "hung"}
        <4>1. \A c \in Callers : ~Sweeping(c)
          <5>1. \A u \in Threads : ~Sweeping(u)
            BY <1>1, Basics DEF SweepInv, LockHolder, LockOf
          <5>2. ~Sweeping("main")
            BY <1>4, IdleFields DEF SweepInv, RunSweeps, Sweeping
          <5> QED BY <5>1, <5>2, Basics
        <4> QED BY <4>1 DEF SweepInv, StoppingIsSwept
      <3> QED BY <1>1, <2>1, <3>1, <3>2 DEF SweepInv, SinksAreCleared, SinkOf
    <2> QED BY <2>2, <2>3
  <1> QED BY <1>5, <1>6, <1>7, <1>8, <1>9 DEF SweepInv

------------------------------------------------------------------------------
(* Registration, with and without a wait for the adapter.                   *)

\* A strategy is registered by the thread that holds the lock, or by one that
\* takes and releases it.
LEMMA CreateKeeps ==
    ASSUME EngineTypeOK, SweepInv, NEW t \in Threads, NEW s \in Strategies,
           NEW a \in BOOLEAN, NEW b \in BOOLEAN, create_strategy(s, a, b),
           managers_[s] = None, managers_mu_ \in {None, t}, ~Sweeping(t),
           call[t].pc \in {"idle", "pinging"},
           run \in {"serving", "shutdown"},
           call' = [call EXCEPT ![t] = Idle],
           managers_mu_' = None
    PROVE  SweepInv'
  <1>0. /\ "main" # t /\ t \in Callers /\ call \in [Callers -> Calls]
        /\ life \in [Managers -> {"unborn", "alive", "stopping", "hung", "reading", "dead"}]
        /\ managers_ \in [Strategies -> Managers \cup {None}]
        /\ None \notin Managers
    BY Basics
  <1>1. /\ call'[t] = Idle /\ call'[t].pc = "idle" /\ ~Sweeping(t)'
        /\ call'[t].to_cancel = {} /\ call'[t].to_destroy = {}
        /\ \A u \in Callers : u # t => call'[u] = call[u]
    BY <1>0, IdleFields DEF Sweeping
  <1>2. PICK m \in Managers : /\ life[m] = "unborn"
                              /\ managers_' = [managers_ EXCEPT ![s] = m]
                              /\ life' = [life EXCEPT ![m] = "alive"]
    BY DEF create_strategy
  <1>3. /\ life'[m] = "alive" /\ \A k \in Managers : k # m => life'[k] = life[k]
        /\ managers_'[s] = m /\ \A r \in Strategies : r # s => managers_'[r] = managers_[r]
        /\ UNCHANGED <<run, queue_, live, sink, left>>
    BY <1>0, <1>2 DEF create_strategy
  <1>4. RunSweeps' /\ SweepShape' /\ StoppingIsSwept' /\ EventsAreAwaited' /\ CancelSettles'
    BY <1>1, <1>2, <1>3, QuietStep
  <1>5. MapHoldsTheLiving'
    <2>1. \A r \in Strategies : managers_[r] # m
      BY <1>0, <1>2 DEF SweepInv, MapHoldsTheLiving
    <2>2. \A r \in Strategies : managers_'[r] # None => life'[managers_'[r]] = "alive"
      BY <1>0, <1>3, <2>1 DEF SweepInv, MapHoldsTheLiving
    <2>3. \A r, q \in Strategies :
             managers_'[r] = managers_'[q] /\ managers_'[r] # None => r = q
      BY <1>3, <2>1 DEF SweepInv, MapHoldsTheLiving
    <2>4. ASSUME NEW k \in Managers, life'[k] = "alive"
          PROVE  \E r \in Strategies : managers_'[r] = k
      <3>1. CASE k = m
        BY <1>3, <3>1
      <3>2. CASE k # m
        <4>1. PICK r \in Strategies : managers_[r] = k
          BY <1>3, <2>4, <3>2 DEF SweepInv, MapHoldsTheLiving
        <4>2. r # s
          BY <1>0, <4>1
        <4> QED BY <1>3, <4>1, <4>2
      <3> QED BY <3>1, <3>2
    <2> QED BY <2>2, <2>3, <2>4 DEF MapHoldsTheLiving
  <1>6. LockHolder'
    <2> SUFFICES ASSUME NEW u \in Threads PROVE LockOf(u)'
      BY DEF LockHolder
    <2>1. u \in Callers /\ u # None
      BY Basics
    <2>2. CASE u = t
      BY <1>1, <1>3, <2>1, <2>2 DEF LockOf
    <2>3. CASE u # t
      BY <1>1, <1>3, <2>1, <2>3 DEF SweepInv, LockHolder, LockOf, Sweeping
    <2> QED BY <2>2, <2>3
  <1>7. LookupsHold'
    <2> SUFFICES ASSUME NEW u \in Threads, u # t PROVE LookupOf(u)'
      BY <1>1 DEF LookupsHold, LookupOf
    <2>1. u \in Callers /\ call'[u] = call[u] /\ LookupOf(u)
      BY <1>1, Basics DEF SweepInv, LookupsHold
    <2>2. call[u].pc # "pinging"
      BY Basics DEF SweepInv, LockHolder, LockOf
    <2> QED BY <1>0, <1>2, <1>3, <2>1, <2>2 DEF LookupOf
  <1>8. SinksAreCleared'
    <2> SUFFICES ASSUME NEW k \in Managers, sink[k] # None PROVE SinkOf(k)'
      BY <1>3 DEF SinksAreCleared, SinkOf
    <2>1. SinkOf(k) /\ sink[k] \in Threads /\ sink[k] \in Callers
      BY Basics DEF SweepInv, SinksAreCleared
    <2>2. k # m /\ life'[k] = life[k]
      BY <1>2, <1>3, <2>1 DEF SinkOf
    <2>3. life[k] \in {"alive", "stopping", "hung"} => sink[k] # t
      BY <2>1 DEF SinkOf
    <2>4. life[k] = "alive" => /\ call[sink[k]].strategy \in Strategies
                               /\ call[sink[k]].strategy # s
      BY <1>0, <2>1 DEF SinkOf, SweepInv, LookupsHold, LookupOf
    <2> QED BY <1>1, <1>3, <2>1, <2>2, <2>3, <2>4 DEF SinkOf
  <1> QED BY <1>4, <1>5, <1>6, <1>7, <1>8 DEF SweepInv

\* The lock is taken to wait for an adapter, or released after the wait.
LEMMA PingKeeps ==
    ASSUME EngineTypeOK, SweepInv, NEW t \in Threads,
           call[t].pc \in {"idle", "pinging"}, ~Sweeping(t), ~Sweeping(t)',
           managers_mu_ \in {None, t}, managers_mu_' \in {None, t},
           managers_mu_' = t <=> call'[t].pc = "pinging",
           call'[t].pc = "pinging" => managers_[call'[t].strategy] = None,
           call'[t].pc \in {"idle", "pinging"},
           call'[t].to_cancel = {}, call'[t].to_destroy = {},
           run \in {"serving", "shutdown"},
           \A u \in Callers : u # t => call'[u] = call[u],
           UNCHANGED <<managers_, run, life, queue_, live, sink, left>>
    PROVE  SweepInv'
  <1>1. RunSweeps' /\ SweepShape' /\ StoppingIsSwept' /\ EventsAreAwaited' /\ CancelSettles'
    BY QuietStep
  <1>2. MapHoldsTheLiving'
    BY DEF SweepInv, MapHoldsTheLiving
  <1>3. LockHolder'
    <2> SUFFICES ASSUME NEW u \in Threads PROVE LockOf(u)'
      BY DEF LockHolder
    <2>1. u \in Callers /\ u # None
      BY Basics
    <2>2. CASE u = t
      BY <2>1, <2>2 DEF LockOf
    <2>3. CASE u # t
      BY <2>1, <2>3 DEF SweepInv, LockHolder, LockOf, Sweeping
    <2> QED BY <2>2, <2>3
  <1>4. LookupsHold'
    <2> SUFFICES ASSUME NEW u \in Threads PROVE LookupOf(u)'
      BY DEF LookupsHold
    <2>1. CASE u = t
      BY <2>1 DEF LookupOf
    <2>2. CASE u # t
      BY <2>2, Basics DEF SweepInv, LookupsHold, LookupOf
    <2> QED BY <2>1, <2>2
  <1>5. SinksAreCleared'
    <2> SUFFICES ASSUME NEW k \in Managers, sink[k] # None PROVE SinkOf(k)'
      BY DEF SinksAreCleared, SinkOf
    <2>1. SinkOf(k) /\ sink[k] \in Threads /\ sink[k] \in Callers
      BY Basics DEF SweepInv, SinksAreCleared
    <2>2. life[k] \in {"alive", "stopping", "hung"} => sink[k] # t
      BY <2>1 DEF SinkOf
    <2> QED BY <2>1, <2>2 DEF SinkOf
  <1> QED BY <1>1, <1>2, <1>3, <1>4, <1>5 DEF SweepInv

LEMMA SpawnKeeps ==
    ASSUME EngineTypeOK, SweepInv, NEW t \in Threads, NEW s \in Strategies, spawn(t, s)
    PROVE  SweepInv'
  <1>0. t \in Callers /\ call \in [Callers -> Calls]
    BY Basics
  <1>1. call[t] = Idle /\ call'[t] = [Idle EXCEPT !.pc = "pinging", !.strategy = s]
    BY <1>0 DEF spawn, Free
  <1>2. /\ call'[t].pc = "pinging" /\ call'[t].kind = "none" /\ call'[t].strategy = s
        /\ call'[t].to_cancel = {} /\ call'[t].to_destroy = {}
    BY <1>1 DEF Idle
  <1>3. ~Sweeping(t) /\ ~Sweeping(t)' /\ call[t].pc = "idle"
    BY <1>1, <1>2, IdleFields DEF Sweeping
  <1>4. /\ \A u \in Callers : u # t => call'[u] = call[u]
        /\ UNCHANGED <<managers_, run, life, queue_, live, sink, left>>
        /\ managers_mu_ = None /\ managers_mu_' = t /\ managers_[s] = None /\ run = "serving"
    BY <1>0 DEF spawn, Free
  <1> QED BY <1>2, <1>3, <1>4, PingKeeps

\* A registration that has waited for its adapter.
LEMMA PingerHolds ==
    ASSUME EngineTypeOK, SweepInv, NEW t \in Threads, call[t].pc = "pinging"
    PROVE  /\ ~Sweeping(t) /\ managers_mu_ = t
           /\ managers_[call[t].strategy] = None
           /\ run \in {"serving", "shutdown"}
  <1>1. ~Sweeping(t) /\ managers_mu_ = t /\ call[t] # Idle
    BY IdleFields DEF SweepInv, LockHolder, LockOf
  <1>2. managers_[call[t].strategy] = None
    BY DEF SweepInv, LookupsHold, LookupOf
  <1> QED BY <1>1, <1>2, CallsBeforeCancel

LEMMA PingedCreateKeeps ==
    ASSUME EngineTypeOK, SweepInv, PingsEndInTime, NEW t \in Threads, call[t].pc = "pinging",
           NEW a \in BOOLEAN, NEW b \in BOOLEAN, create_strategy(call[t].strategy, a, b),
           Return(t)
    PROVE  SweepInv'
  <1>1. /\ call' = [call EXCEPT ![t] = Idle] /\ managers_mu_' = None
        /\ call[t].strategy \in Strategies
    BY DEF Return, PingsEndInTime
  <1> QED BY <1>1, PingerHolds, CreateKeeps

LEMMA NotReadyKeeps ==
    ASSUME EngineTypeOK, SweepInv, PingsEndInTime, NEW t \in Threads, AdapterNotReady(t)
    PROVE  SweepInv'
  <1>0. call[t].pc = "pinging" /\ Return(t)
    BY DEF AdapterNotReady
  <1>1. CASE UNCHANGED <<managers_, running_, run, life, queue_, live, sink, subs, feed,
                         crashed, left>>
    <2>1. call'[t] = Idle /\ None # t /\ managers_mu_' = None
      BY <1>0, Basics DEF Return
    <2>2. ~Sweeping(t)'
      BY <2>1, IdleFields DEF Sweeping
    <2>3. /\ \A u \in Callers : u # t => call'[u] = call[u]
          /\ UNCHANGED <<managers_, run, life, queue_, live, sink, left>>
      BY <1>0, <1>1, Basics DEF Return
    <2> QED BY <1>0, <2>1, <2>2, <2>3, IdleFields, PingerHolds, PingKeeps
  <1>2. CASE create_strategy(call[t].strategy, FALSE, FALSE)
    BY <1>0, <1>2, PingedCreateKeeps
  <1> QED BY <1>1, <1>2 DEF AdapterNotReady

LEMMA ReadyKeeps ==
    ASSUME EngineTypeOK, SweepInv, PingsEndInTime, NEW t \in Threads, AdapterReady(t)
    PROVE  SweepInv'
  <1>1. PICK a \in BOOLEAN, b \in BOOLEAN : create_strategy(call[t].strategy, a, b)
    BY DEF AdapterReady
  <1>2. call[t].pc = "pinging" /\ Return(t)
    BY DEF AdapterReady
  <1> QED BY <1>1, <1>2, PingedCreateKeeps

LEMMA RegisterKeeps ==
    ASSUME EngineTypeOK, SweepInv, NEW t \in Threads, NEW s \in Strategies,
           NEW a \in BOOLEAN, NEW b \in BOOLEAN, RegisterStrategy(t, s, a, b)
    PROVE  SweepInv'
  <1>1. /\ create_strategy(s, a, b) /\ managers_[s] = None /\ managers_mu_ = None
        /\ managers_mu_' = None /\ run = "serving" /\ call[t] = Idle /\ call' = call
    BY DEF RegisterStrategy, Free
  <1>2. call' = [call EXCEPT ![t] = Idle] /\ call[t].pc = "idle" /\ ~Sweeping(t)
    BY <1>1, IdleFields, Basics DEF Sweeping
  <1> QED BY <1>1, <1>2, CreateKeeps

------------------------------------------------------------------------------
(* Steps of sweeps.                                                         *)

\* A caller changes what it sweeps and nothing else.
LEMMA SweeperFrame ==
    ASSUME EngineTypeOK, SweepInv, NEW c \in Callers,
           call[c].pc \notin {"waiting", "streaming"},
           call'[c].pc \notin {"found", "streaming", "pinging"},
           \A u \in Callers : u # c => call'[u] = call[u],
           \A k \in Managers : sink'[k] \in {None, sink[k]},
           UNCHANGED <<managers_, life, queue_, live, left>>
    PROVE  /\ MapHoldsTheLiving' /\ LookupsHold' /\ EventsAreAwaited' /\ SinksAreCleared'
           /\ \A m : Settled(m)' <=> Settled(m)
  <1>1. MapHoldsTheLiving'
    BY DEF SweepInv, MapHoldsTheLiving
  <1>2. LookupsHold'
    <2> SUFFICES ASSUME NEW u \in Threads PROVE LookupOf(u)'
      BY DEF LookupsHold
    <2>1. CASE u = c
      BY <2>1 DEF LookupOf
    <2>2. CASE u # c
      BY <2>2, Basics DEF SweepInv, LookupsHold, LookupOf
    <2> QED BY <2>1, <2>2
  <1>3. EventsAreAwaited'
    BY EventsKept
  <1>4. SinksAreCleared'
    <2> SUFFICES ASSUME NEW k \in Managers, sink'[k] # None PROVE SinkOf(k)'
      BY DEF SinksAreCleared, SinkOf
    <2>0. sink'[k] = sink[k]
      OBVIOUS
    <2>1. SinkOf(k) /\ sink[k] \in Threads /\ sink[k] \in Callers
      BY <2>0, Basics DEF SweepInv, SinksAreCleared
    <2>2. life[k] \in {"alive", "stopping", "hung"} => sink[k] # c
      BY <2>1 DEF SinkOf
    <2> QED BY <2>0, <2>1, <2>2 DEF SinkOf
  <1>5. \A m : Settled(m)' <=> Settled(m)
    BY DEF Settled
  <1> QED BY <1>1, <1>2, <1>3, <1>4, <1>5

\* A sweep goes on: its caller keeps the lock, and sweeps alone.
LEMMA SweepGoesOn ==
    ASSUME EngineTypeOK, SweepInv, NEW c \in Callers, Sweeping(c),
           call'[c].kind = call[c].kind,
           call'[c].pc \in {"sweeping", "waiting", "answered"},
           \A u \in Callers : u # c => call'[u] = call[u],
           UNCHANGED <<managers_mu_, run>>
    PROVE  /\ LockHolder'
           /\ Sweeping(c)'
           /\ \A d \in Callers : Sweeping(d)' => d = c
           /\ \A u \in Threads : call[u].pc # "pinging"
           /\ c # "main" => run \in {"serving", "shutdown"} /\ c \in Threads /\ managers_mu_ = c
           /\ c = "main" => run \in {"cancelling", "destroying"} /\ call[c].kind = "run"
  <1>1. Sweeping(c)' /\ call[c] # Idle
    BY IdleFields DEF Sweeping
  <1>2. \A d \in Callers : Sweeping(d)' => d = c
    BY OneSweep DEF Sweeping
  <1>3. c # "main" => run \in {"serving", "shutdown"} /\ c \in Threads /\ managers_mu_ = c
    BY <1>1, CallsBeforeCancel, Basics DEF SweepInv, LockHolder, LockOf
  <1>4. c = "main" => run \in {"cancelling", "destroying"} /\ call[c].kind = "run"
    BY <1>1 DEF SweepInv, RunSweeps, EngineTypeOK
  <1>5. LockHolder'
    <2> SUFFICES ASSUME NEW u \in Threads PROVE LockOf(u)'
      BY DEF LockHolder
    <2>1. u \in Callers /\ LockOf(u)
      BY Basics DEF SweepInv, LockHolder
    <2>2. CASE u = c
      <3>1. run \notin {"cancelling", "destroying", "ended"}
        BY <1>3, <2>2, Basics
      <3> QED BY <1>1, <2>1, <2>2, <3>1 DEF LockOf
    <2>3. CASE u # c
      BY <2>1, <2>3 DEF LockOf, Sweeping
    <2> QED BY <2>2, <2>3
  <1>6. \A u \in Threads : call[u].pc # "pinging"
    <2> TAKE u \in Threads
    <2>1. CASE c = "main"
      BY <1>4, <2>1, IdleFields DEF SweepInv, LockHolder, LockOf
    <2>2. CASE c # "main"
      BY <1>3, <2>2 DEF SweepInv, LockHolder, LockOf, Sweeping
    <2> QED BY <2>1, <2>2
  <1> QED BY <1>1, <1>2, <1>3, <1>4, <1>5, <1>6

\* A caller at such a point is a kill switch or Run().
LEMMA SweepersSweep ==
    ASSUME EngineTypeOK, SweepInv, NEW c \in Callers, call[c].pc \in {"sweeping", "answered"}
    PROVE  Sweeping(c) /\ ShapeOf(c) /\ SettledBehind(c)
  <1>1. call[c] # Idle
    BY IdleFields
  <1>2. Sweeping(c)
    BY <1>1, Basics DEF SweepInv, LockHolder, LockOf, RunSweeps, EngineTypeOK, Sweeping
  <1> QED BY <1>2 DEF SweepInv, SweepShape, CancelSettles

\* A queued command: its place, and the events before it.
LEMMA PushFacts ==
    ASSUME EngineTypeOK, NEW c \in Callers, NEW m \in Managers,
           NEW k \in {"signal", "raced", "cancel_all"}, push(c, m, k)
    PROVE  /\ \A n \in Managers : n # m => queue_'[n] = queue_[n]
           /\ Len(queue_[m]) \in Nat
           /\ DOMAIN queue_[m] = 1 .. Len(queue_[m])
           /\ DOMAIN queue_'[m] = 1 .. (Len(queue_[m]) + 1)
           /\ \A i \in DOMAIN queue_[m] : queue_'[m][i] = queue_[m][i]
           /\ queue_'[m][Len(queue_[m]) + 1] = [kind |-> k, from |-> c]
  <1>1. queue_ \in [Managers -> Seq(QueueEvents)] /\ queue_[m] \in Seq(QueueEvents)
    BY DEF EngineTypeOK
  <1>2. /\ \A n \in Managers : n # m => queue_'[n] = queue_[n]
        /\ queue_'[m] = Append(queue_[m], [kind |-> k, from |-> c])
    BY <1>1 DEF push
  <1>3. [kind |-> k, from |-> c] \in QueueEvents
    BY DEF QueueEvents
  <1> QED BY <1>1, <1>2, <1>3

\* A caller pushes a command and waits for it.
LEMMA PushIsAwaited ==
    ASSUME EngineTypeOK, SweepInv, NEW c \in Callers, NEW m \in Managers,
           NEW k \in {"signal", "raced", "cancel_all"}, push(c, m, k),
           call[c].pc # "waiting", call'[c].pc = "waiting",
           k \in {"signal", "raced"} => c \in Threads /\ call'[c].kind = "signal",
           k = "cancel_all" => Sweeping(c)' /\ call'[c].om = m,
           \A u \in Callers : u # c => call'[u] = call[u]
    PROVE  EventsAreAwaited'
  <1> DEFINE e == [kind |-> k, from |-> c]
  <1>1. PICK last \in Nat :
        /\ \A n \in Managers : n # m => queue_'[n] = queue_[n]
        /\ last \notin DOMAIN queue_[m]
        /\ DOMAIN queue_'[m] = DOMAIN queue_[m] \cup {last}
        /\ \A i \in DOMAIN queue_[m] : queue_'[m][i] = queue_[m][i]
        /\ queue_'[m][last] = e
    <2>1. /\ \A n \in Managers : n # m => queue_'[n] = queue_[n]
          /\ Len(queue_[m]) \in Nat
          /\ DOMAIN queue_[m] = 1 .. Len(queue_[m])
          /\ DOMAIN queue_'[m] = 1 .. (Len(queue_[m]) + 1)
          /\ \A i \in DOMAIN queue_[m] : queue_'[m][i] = queue_[m][i]
          /\ queue_'[m][Len(queue_[m]) + 1] = e
      BY PushFacts
    <2>2. ASSUME NEW n \in Nat
          PROVE n + 1 \in Nat /\ n + 1 \notin 1 .. n /\ 1 .. (n + 1) = 1 .. n \cup {n + 1}
      OBVIOUS
    <2> HIDE DEF e
    <2> QED BY <2>1, <2>2
  <1>2. e.kind = k /\ e.from = c /\ c # None
    BY Basics
  <1> HIDE DEF e
  <1>3. ASSUME NEW n \in Managers, NEW i \in DOMAIN queue_[n]
        PROVE  /\ i \in DOMAIN queue_'[n] /\ queue_'[n][i] = queue_[n][i]
               /\ queue_[n][i].from # c
               /\ Awaited(n, i)'
    <2>1. i \in DOMAIN queue_'[n] /\ queue_'[n][i] = queue_[n][i]
      BY <1>1
    <2>2. Awaited(n, i) /\ queue_[n][i].kind \in {"signal", "raced", "cancel_all", "data"}
      <3>1. queue_[n] \in Seq(QueueEvents)
        BY DEF EngineTypeOK
      <3>2. queue_[n][i] \in QueueEvents
        BY <3>1
      <3> QED BY <3>2 DEF SweepInv, EventsAreAwaited, QueueEvents
    <2>3. queue_[n][i].from # c
      BY <1>2, <2>2 DEF Awaited
    <2> QED BY <2>1, <2>2, <2>3, Basics DEF Awaited, Sweeping
  <1>4. Awaited(m, last)'
    BY <1>1, <1>2 DEF Awaited
  <1>5. \A n \in Managers : \A i \in DOMAIN queue_'[n] :
           i \in DOMAIN queue_[n] \/ (n = m /\ i = last)
    BY <1>1
  <1>6. \A n \in Managers : \A i \in DOMAIN queue_'[n] : Awaited(n, i)'
    BY <1>3, <1>4, <1>5
  <1>7. ASSUME NEW n \in Managers, NEW o \in Managers,
               NEW i \in DOMAIN queue_'[n], NEW j \in DOMAIN queue_'[o],
               queue_'[n][i].from = queue_'[o][j].from, queue_'[n][i].kind # "data"
        PROVE  n = o /\ i = j
    <2>1. CASE i \in DOMAIN queue_[n] /\ j \in DOMAIN queue_[o]
      BY <1>3, <1>7, <2>1 DEF SweepInv, EventsAreAwaited
    <2>2. CASE i \in DOMAIN queue_[n] /\ j \notin DOMAIN queue_[o]
      BY <1>1, <1>2, <1>3, <1>5, <1>7, <2>2
    <2>3. CASE i \notin DOMAIN queue_[n] /\ j \in DOMAIN queue_[o]
      BY <1>1, <1>2, <1>3, <1>5, <1>7, <2>3
    <2>4. CASE i \notin DOMAIN queue_[n] /\ j \notin DOMAIN queue_[o]
      BY <1>5, <2>4
    <2> QED BY <2>1, <2>2, <2>3, <2>4
  <1> QED BY <1>6, <1>7 DEF EventsAreAwaited

LEMMA KillKeeps ==
    ASSUME EngineTypeOK, SweepInv, NEW t \in Threads, NEW k \in {"stop", "halt"},
           NEW targets, targets \subseteq Registered, Kill(t, k, targets)
    PROVE  SweepInv'
  <1>0. /\ "main" # t /\ "main" \in Callers /\ t \in Callers /\ None # t
        /\ call \in [Callers -> Calls]
    BY Basics
  <1>1. /\ run = "serving" /\ call[t] = Idle /\ managers_mu_ = None /\ managers_mu_' = t
        /\ call'[t] = [Idle EXCEPT !.pc = "sweeping", !.kind = k,
                                   !.to_cancel = targets, !.to_destroy = targets]
        /\ \A u \in Callers : u # t => call'[u] = call[u]
        /\ UNCHANGED <<managers_, run, life, queue_, live, sink, left>>
    BY <1>0 DEF Kill, Free
  <1>2. /\ call'[t].pc = "sweeping" /\ call'[t].kind = k /\ call'[t].om = None
        /\ call'[t].to_cancel = targets /\ call'[t].to_destroy = targets
    BY <1>1 DEF Idle
  <1>3. Sweeping(t)' /\ call[t].pc = "idle" /\ ~Sweeping(t)
    BY <1>1, <1>2, IdleFields DEF Sweeping
  <1>4. \A u \in Threads : ~Sweeping(u) /\ call[u].pc # "pinging"
    BY <1>1, Basics DEF SweepInv, LockHolder, LockOf
  <1>5. \A u \in Callers : ~Sweeping(u) /\ (Sweeping(u)' => u = t)
    <2>1. ~Sweeping("main")
      BY <1>1, IdleFields DEF SweepInv, RunSweeps, Sweeping
    <2>2. \A u \in Callers : ~Sweeping(u)
      BY <1>4, <2>1, Basics
    <2> QED BY <1>1, <2>2 DEF Sweeping
  <1>6. \A m \in targets : m \in Managers /\ life[m] = "alive"
    BY RegisteredType DEF Registered, SweepInv, MapHoldsTheLiving
  <1>7. /\ MapHoldsTheLiving' /\ LookupsHold' /\ EventsAreAwaited' /\ SinksAreCleared'
        /\ \A m : Settled(m)' <=> Settled(m)
    BY <1>0, <1>1, <1>2, <1>3, SweeperFrame
  <1>8. LockHolder'
    <2> SUFFICES ASSUME NEW u \in Threads PROVE LockOf(u)'
      BY DEF LockHolder
    <2>1. CASE u = t
      BY <1>1, <1>2, <1>3, <2>1 DEF LockOf
    <2>2. CASE u # t
      BY <1>1, <1>4, <2>2, Basics DEF SweepInv, LockHolder, LockOf, Sweeping
    <2> QED BY <2>1, <2>2
  <1>9. RunSweeps'
    BY <1>0, <1>1 DEF SweepInv, RunSweeps
  <1>10. SweepShape'
    BY <1>1, <1>2, <1>5, <1>6 DEF SweepShape, ShapeOf
  <1>11. StoppingIsSwept'
    BY <1>1, <1>5 DEF SweepInv, StoppingIsSwept
  <1>12. CancelSettles'
    <2>1. SettledBehind(t)'
      BY <1>2 DEF SettledBehind
    <2> QED BY <1>1, <1>5, <1>7, <2>1 DEF SweepInv, CancelSettles
  <1> QED BY <1>7, <1>8, <1>9, <1>10, <1>11, <1>12 DEF SweepInv

LEMMA CancelNextKeeps ==
    ASSUME EngineTypeOK, SweepInv, NEW c \in Callers, CancelNext(c)
    PROVE  SweepInv'
  <1>0. /\ c \in Callers /\ call \in [Callers -> Calls] /\ call[c] \in Calls
        /\ call[c].to_cancel \subseteq Managers
        /\ \A d \in Callers : call[d].om \in Managers \cup {None} /\ None \notin Managers
    BY Basics
  <1>1. PICK m \in call[c].to_cancel :
             /\ push(c, m, "cancel_all")
             /\ call' = [call EXCEPT ![c] = [@ EXCEPT !.pc = "waiting", !.om = m]]
    BY DEF CancelNext
  <1>2. /\ call[c].pc = "sweeping" /\ call[c].om = None /\ m \in Managers
        /\ \A u \in Callers : u # c => call'[u] = call[u]
        /\ UNCHANGED <<managers_, managers_mu_, run, life, live, sink, left>>
    BY <1>0, <1>1 DEF CancelNext
  <1>3. /\ call'[c].pc = "waiting" /\ call'[c].om = m /\ call'[c].kind = call[c].kind
        /\ call'[c].to_cancel = call[c].to_cancel /\ call'[c].to_destroy = call[c].to_destroy
    BY <1>0, <1>1 DEF Calls
  <1>4. Sweeping(c) /\ ShapeOf(c)
    BY <1>2, SweepersSweep
  <1>5. /\ LockHolder' /\ Sweeping(c)' /\ (\A d \in Callers : Sweeping(d)' => d = c)
        /\ c = "main" => run \in {"cancelling", "destroying"}
        /\ c # "main" => run \in {"serving", "shutdown"}
    BY <1>2, <1>3, <1>4, SweepGoesOn
  <1>6. EventsAreAwaited'
    BY <1>1, <1>2, <1>3, <1>5, PushIsAwaited
  <1>7. /\ \A n \in Managers : n # m => queue_'[n] = queue_[n]
        /\ Len(queue_[m]) \in Nat
        /\ DOMAIN queue_[m] = 1 .. Len(queue_[m])
        /\ DOMAIN queue_'[m] = 1 .. (Len(queue_[m]) + 1)
        /\ \A i \in DOMAIN queue_[m] : queue_'[m][i] = queue_[m][i]
        /\ queue_'[m][Len(queue_[m]) + 1] = [kind |-> "cancel_all", from |-> c]
    BY <1>1, <1>2, PushFacts
  <1>8. \A n \in Managers : Settled(n) => Settled(n)'
    <2> SUFFICES ASSUME NEW n \in Managers, Settled(n), n = m
                 PROVE  Settled(n)'
      BY <1>2, <1>7 DEF Settled
    <2>1. live'[m] => m \in left'
      BY <1>2 DEF Settled
    <2>2. \A i \in DOMAIN queue_'[m] : i \in DOMAIN queue_[m] \/ i = Len(queue_[m]) + 1
      BY <1>7
    <2>3. \A i \in DOMAIN queue_'[m] : queue_'[m][i].kind # "signal"
      BY <1>7, <2>2 DEF Settled
    <2> QED BY <2>1, <2>3 DEF Settled
  <1>9. MapHoldsTheLiving'
    BY <1>2 DEF SweepInv, MapHoldsTheLiving
  <1>10. LookupsHold'
    <2> SUFFICES ASSUME NEW u \in Threads PROVE LookupOf(u)'
      BY DEF LookupsHold
    <2>1. CASE u = c
      BY <1>3, <2>1 DEF LookupOf
    <2>2. CASE u # c
      BY <1>2, <2>2, Basics DEF SweepInv, LookupsHold, LookupOf
    <2> QED BY <2>1, <2>2
  <1>11. RunSweeps'
    <2>1. CASE c = "main"
      BY <1>2, <1>3, <1>5, <2>1 DEF SweepInv, RunSweeps
    <2>2. CASE c # "main"
      BY <1>2, <2>2, Basics DEF SweepInv, RunSweeps
    <2> QED BY <2>1, <2>2
  <1>12. SweepShape'
    <2>1. call[c].to_destroy \subseteq Managers
      BY Basics
    <2>2. ShapeOf(c)'
      BY <1>0, <1>2, <1>3, <1>4, <2>1 DEF ShapeOf
    <2> QED BY <1>5, <2>2 DEF SweepShape
  <1>13. StoppingIsSwept'
    <2>1. \A d \in Callers : Sweeping(d) => Sweeping(d)' /\ call'[d].to_destroy = call[d].to_destroy
      BY <1>2, <1>3 DEF Sweeping
    <2> QED BY <1>2, <2>1 DEF SweepInv, StoppingIsSwept
  <1>14. CancelSettles'
    <2>1. \A n \in Managers : life'[n] # "alive" => Settled(n)'
      BY <1>2, <1>8 DEF SweepInv, CancelSettles
    <2>2. SettledBehind(c)'
      <3>1. Len(queue_[m]) + 1 \in DOMAIN queue_'[m]
        BY <1>7
      <3>2. \A j \in DOMAIN queue_'[m] : ~(j > Len(queue_[m]) + 1)
        BY <1>7
      <3>3. \A n \in call[c].to_destroy : n \in call[c].to_cancel \/ Settled(n)'
        BY <1>4, <1>8, Basics DEF SweepInv, CancelSettles, SettledBehind
      <3> QED BY <1>3, <1>7, <3>1, <3>2, <3>3 DEF SettledBehind
    <2>3. run' \in {"cancelling", "destroying", "ended"} =>
             \A n \in Managers : n \in call'["main"].to_cancel \/ Settled(n)'
      <3>1. call'["main"].to_cancel = call["main"].to_cancel
        BY <1>2, <1>3, Basics
      <3> QED BY <1>2, <1>8, <3>1 DEF SweepInv, CancelSettles
    <2> QED BY <1>5, <2>1, <2>2, <2>3 DEF CancelSettles
  <1>15. SinksAreCleared'
    <2> SUFFICES ASSUME NEW k \in Managers, sink[k] # None PROVE SinkOf(k)'
      BY <1>2 DEF SinksAreCleared, SinkOf
    <2>1. SinkOf(k) /\ sink[k] \in Threads /\ sink[k] \in Callers
      BY Basics DEF SweepInv, SinksAreCleared
    <2>2. life[k] \in {"alive", "stopping", "hung"} => sink[k] # c
      BY <1>2, <2>1 DEF SinkOf
    <2> QED BY <1>2, <2>1, <2>2 DEF SinkOf
  <1> QED BY <1>5, <1>6, <1>9, <1>10, <1>11, <1>12, <1>13, <1>14, <1>15 DEF SweepInv

LEMMA CancelledKeeps ==
    ASSUME EngineTypeOK, SweepInv, NEW c \in Callers, Cancelled(c)
    PROVE  SweepInv'
  <1>0. /\ c \in Callers /\ call \in [Callers -> Calls] /\ call[c] \in Calls
        /\ call[c].to_cancel \subseteq Managers /\ call[c].to_destroy \subseteq Managers
        /\ None \notin Managers
    BY Basics
  <1>1. /\ call[c].pc = "answered"
        /\ call' = [call EXCEPT ![c] = [@ EXCEPT !.pc = "sweeping", !.om = None,
                                              !.to_cancel = call[c].to_cancel \ {call[c].om}]]
        /\ UNCHANGED <<managers_, managers_mu_, run, life, queue_, live, sink, left>>
    BY DEF Cancelled
  <1>2. \A u \in Callers : u # c => call'[u] = call[u]
    BY <1>0, <1>1
  <1>3. /\ call'[c].pc = "sweeping" /\ call'[c].om = None /\ call'[c].kind = call[c].kind
        /\ call'[c].to_cancel = call[c].to_cancel \ {call[c].om}
        /\ call'[c].to_destroy = call[c].to_destroy
    BY <1>0, <1>1 DEF Calls
  <1>4. Sweeping(c) /\ ShapeOf(c) /\ SettledBehind(c)
    BY <1>1, SweepersSweep
  <1>5. /\ LockHolder' /\ Sweeping(c)' /\ (\A d \in Callers : Sweeping(d)' => d = c)
        /\ c = "main" => run \in {"cancelling", "destroying"}
        /\ c # "main" => run \in {"serving", "shutdown"}
    BY <1>1, <1>2, <1>3, <1>4, SweepGoesOn
  <1>6. /\ MapHoldsTheLiving' /\ LookupsHold' /\ EventsAreAwaited' /\ SinksAreCleared'
        /\ \A m : Settled(m)' <=> Settled(m)
    BY <1>1, <1>2, <1>3, SweeperFrame
  <1>7. Settled(call[c].om) /\ call[c].om \in Managers
    BY <1>0, <1>1, <1>4 DEF SettledBehind, ShapeOf
  <1>8. RunSweeps'
    <2>1. CASE c = "main"
      BY <1>1, <1>3, <1>5, <2>1 DEF SweepInv, RunSweeps
    <2>2. CASE c # "main"
      BY <1>1, <1>2, <2>2, Basics DEF SweepInv, RunSweeps
    <2> QED BY <2>1, <2>2
  <1>9. SweepShape'
    <2>1. ShapeOf(c)'
      BY <1>0, <1>1, <1>3, <1>4 DEF ShapeOf
    <2> QED BY <1>5, <2>1 DEF SweepShape
  <1>10. StoppingIsSwept'
    <2>1. \A d \in Callers : Sweeping(d) => Sweeping(d)' /\ call'[d].to_destroy = call[d].to_destroy
      BY <1>2, <1>3 DEF Sweeping
    <2> QED BY <1>1, <2>1 DEF SweepInv, StoppingIsSwept
  <1>11. CancelSettles'
    <2>1. SettledBehind(c)'
      BY <1>3, <1>4, <1>6, <1>7 DEF SettledBehind
    <2>2. run' \in {"cancelling", "destroying", "ended"} =>
             \A n \in Managers : n \in call'["main"].to_cancel \/ Settled(n)'
      BY <1>1, <1>2, <1>3, <1>6, <1>7, Basics DEF SweepInv, CancelSettles
    <2> QED BY <1>1, <1>5, <1>6, <2>1, <2>2 DEF SweepInv, CancelSettles
  <1> QED BY <1>5, <1>6, <1>8, <1>9, <1>10, <1>11 DEF SweepInv

LEMMA BeginDestructionKeeps ==
    ASSUME EngineTypeOK, SweepInv, NEW c \in Callers, BeginDestruction(c)
    PROVE  SweepInv'
  <1>0. /\ c \in Callers /\ call \in [Callers -> Calls] /\ call[c] \in Calls
        /\ call[c].to_destroy \subseteq Managers
        /\ None \notin Managers
        /\ life \in [Managers -> {"unborn", "alive", "stopping", "hung", "reading", "dead"}]
        /\ managers_ \in [Strategies -> Managers \cup {None}]
    BY Basics
  <1>1. PICK m \in call[c].to_destroy, l \in {"stopping", "hung"} :
             /\ life' = [life EXCEPT ![m] = l]
             /\ managers_' = [s \in Strategies |->
                                 IF managers_[s] = m THEN None ELSE managers_[s]]
             /\ call' = [call EXCEPT ![c].om = m]
    BY DEF BeginDestruction
  <1>2. /\ call[c].pc = "sweeping" /\ call[c].om = None /\ call[c].to_cancel = {}
        /\ m \in Managers
        /\ \A u \in Callers : u # c => call'[u] = call[u]
        /\ life'[m] \in {"stopping", "hung"} /\ \A k \in Managers : k # m => life'[k] = life[k]
        /\ UNCHANGED <<managers_mu_, run, queue_, live, sink, left>>
    BY <1>0, <1>1 DEF BeginDestruction
  <1>3. /\ call'[c].pc = "sweeping" /\ call'[c].om = m /\ call'[c].kind = call[c].kind
        /\ call'[c].to_cancel = {} /\ call'[c].to_destroy = call[c].to_destroy
    BY <1>0, <1>1, <1>2 DEF Calls
  <1>4. Sweeping(c) /\ ShapeOf(c) /\ SettledBehind(c)
    BY <1>2, SweepersSweep
  <1>5. /\ LockHolder' /\ Sweeping(c)' /\ (\A d \in Callers : Sweeping(d)' => d = c)
        /\ \A u \in Threads : call[u].pc # "pinging"
        /\ c = "main" => run \in {"cancelling", "destroying"}
        /\ c # "main" => run \in {"serving", "shutdown"}
    BY <1>2, <1>3, <1>4, SweepGoesOn
  <1>6. life[m] = "alive" /\ Settled(m)
    BY <1>0, <1>2, <1>4 DEF ShapeOf, SettledBehind
  <1>7. \A n : Settled(n)' <=> Settled(n)
    BY <1>2 DEF Settled
  <1>8. \A s \in Strategies : /\ managers_[s] = m => managers_'[s] = None
                              /\ managers_[s] # m => managers_'[s] = managers_[s]
    BY <1>1
  <1>9. MapHoldsTheLiving'
    <2>1. \A k \in Managers : life'[k] = "alive" => k # m /\ life[k] = "alive"
      BY <1>2
    <2> QED BY <1>0, <1>2, <1>8, <2>1 DEF SweepInv, MapHoldsTheLiving
  <1>10. LookupsHold'
    <2> SUFFICES ASSUME NEW u \in Threads, u # c PROVE LookupOf(u)'
      BY <1>3 DEF LookupsHold, LookupOf
    <2>1. call'[u] = call[u] /\ LookupOf(u) /\ call[u].pc # "pinging"
      BY <1>2, <1>5, Basics DEF SweepInv, LookupsHold
    <2> QED BY <1>2, <1>8, <2>1 DEF LookupOf
  <1>11. RunSweeps'
    <2>1. CASE c = "main"
      <3>1. \A k \in Managers : life'[k] \notin {"unborn", "dead"} => life[k] \notin {"unborn", "dead"}
        BY <1>2, <1>6
      <3> QED BY <1>2, <1>3, <1>5, <2>1, <3>1 DEF SweepInv, RunSweeps
    <2>2. CASE c # "main"
      BY <1>2, <1>5, <2>2, Basics DEF SweepInv, RunSweeps
    <2> QED BY <2>1, <2>2
  <1>12. SweepShape'
    <2>1. ShapeOf(c)'
      BY <1>0, <1>2, <1>3, <1>4 DEF ShapeOf
    <2> QED BY <1>5, <2>1 DEF SweepShape
  <1>13. StoppingIsSwept'
    <2>1. \A d \in Callers : Sweeping(d) => Sweeping(d)' /\ call'[d].to_destroy = call[d].to_destroy
      BY <1>2, <1>3 DEF Sweeping
    <2> SUFFICES ASSUME NEW k \in Managers, life'[k] \in {"stopping", "hung", "reading"}
                 PROVE  \E d \in Callers : Sweeping(d)' /\ k \in call'[d].to_destroy
      BY DEF StoppingIsSwept
    <2>2. CASE k = m
      BY <1>3, <1>5, <2>2
    <2>3. CASE k # m
      BY <1>2, <2>1, <2>3 DEF SweepInv, StoppingIsSwept
    <2> QED BY <2>2, <2>3
  <1>14. EventsAreAwaited'
    BY <1>2, EventsKept
  <1>15. CancelSettles'
    <2>1. \A n \in Managers : life'[n] # "alive" => Settled(n)'
      BY <1>2, <1>6, <1>7 DEF SweepInv, CancelSettles
    <2>2. SettledBehind(c)'
      BY <1>2, <1>3, <1>4, <1>7 DEF SettledBehind
    <2>3. run' \in {"cancelling", "destroying", "ended"} =>
             \A n \in Managers : n \in call'["main"].to_cancel \/ Settled(n)'
      BY <1>2, <1>3, <1>7, Basics DEF SweepInv, CancelSettles
    <2> QED BY <1>5, <2>1, <2>2, <2>3 DEF CancelSettles
  <1>16. SinksAreCleared'
    <2> SUFFICES ASSUME NEW k \in Managers, sink[k] # None PROVE SinkOf(k)'
      BY <1>2 DEF SinksAreCleared, SinkOf
    <2>1. SinkOf(k) /\ sink[k] \in Threads /\ sink[k] \in Callers
      BY Basics DEF SweepInv, SinksAreCleared
    <2>2. life[k] \in {"alive", "stopping", "hung"} => sink[k] # c
      BY <1>2, <2>1 DEF SinkOf
    <2>3. life[k] \in {"alive", "stopping", "hung"} => call[sink[k]].strategy \in Strategies
      BY <2>1 DEF SinkOf, SweepInv, LookupsHold, LookupOf
    <2>4. CASE k = m
      BY <1>2, <1>6, <2>1, <2>2, <2>4 DEF SinkOf
    <2>5. CASE k # m
      BY <1>2, <1>8, <2>1, <2>2, <2>3, <2>5 DEF SinkOf
    <2> QED BY <2>4, <2>5
  <1> QED BY <1>5, <1>9, <1>10, <1>11, <1>12, <1>13, <1>14, <1>15, <1>16 DEF SweepInv

LEMMA EndDestructionKeeps ==
    ASSUME EngineTypeOK, SweepInv, NEW c \in Callers, EndDestruction(c)
    PROVE  SweepInv'
  <1> DEFINE m == call[c].om
  <1>0. /\ c \in Callers /\ call \in [Callers -> Calls] /\ call[c] \in Calls
        /\ call[c].to_destroy \subseteq Managers
        /\ None \notin Managers
    BY Basics
  <1>1. /\ call[c].pc = "sweeping" /\ m # None /\ life[m] = "dead"
        /\ call' = [call EXCEPT ![c] = [@ EXCEPT !.om = None, !.to_destroy = call[c].to_destroy \ {m}]]
        /\ sink' = [sink EXCEPT ![m] = None]
        /\ UNCHANGED <<managers_, managers_mu_, run, life, queue_, live, left>>
    BY DEF EndDestruction
  <1>2. \A u \in Callers : u # c => call'[u] = call[u]
    BY <1>0, <1>1
  <1>3. /\ call'[c].pc = "sweeping" /\ call'[c].om = None /\ call'[c].kind = call[c].kind
        /\ call'[c].to_cancel = call[c].to_cancel
        /\ call'[c].to_destroy = call[c].to_destroy \ {m}
    BY <1>0, <1>1 DEF Calls
  <1>4. Sweeping(c) /\ ShapeOf(c) /\ SettledBehind(c)
    BY <1>1, SweepersSweep
  <1>5. /\ LockHolder' /\ Sweeping(c)' /\ (\A d \in Callers : Sweeping(d)' => d = c)
        /\ c = "main" => run \in {"cancelling", "destroying"}
        /\ c # "main" => run \in {"serving", "shutdown"}
    BY <1>1, <1>2, <1>3, <1>4, SweepGoesOn
  <1>6. /\ MapHoldsTheLiving' /\ LookupsHold' /\ EventsAreAwaited' /\ SinksAreCleared'
        /\ \A n : Settled(n)' <=> Settled(n)
    BY <1>1, <1>2, <1>3, SweeperFrame
  <1>7. call[c].to_cancel = {}
    BY <1>1, <1>4 DEF ShapeOf
  <1> HIDE DEF m
  <1>8. RunSweeps'
    <2>1. CASE c = "main"
      BY <1>1, <1>3, <1>5, <1>7, <2>1 DEF SweepInv, RunSweeps
    <2>2. CASE c # "main"
      BY <1>1, <1>2, <1>5, <2>2, Basics DEF SweepInv, RunSweeps
    <2> QED BY <2>1, <2>2
  <1>9. SweepShape'
    <2>1. ShapeOf(c)'
      BY <1>0, <1>1, <1>3, <1>4, <1>7 DEF ShapeOf, m
    <2> QED BY <1>5, <2>1 DEF SweepShape
  <1>10. StoppingIsSwept'
    <2> SUFFICES ASSUME NEW k \in Managers, life[k] \in {"stopping", "hung", "reading"}
                 PROVE  \E d \in Callers : Sweeping(d)' /\ k \in call'[d].to_destroy
      BY <1>1 DEF StoppingIsSwept
    <2>1. PICK d \in Callers : Sweeping(d) /\ k \in call[d].to_destroy
      BY DEF SweepInv, StoppingIsSwept
    <2>2. d = c
      BY <1>4, <2>1, OneSweep
    <2> QED BY <1>1, <1>3, <1>5, <2>1, <2>2
  <1>11. CancelSettles'
    <2>1. SettledBehind(c)'
      BY <1>3, <1>4, <1>6 DEF SettledBehind
    <2>2. run' \in {"cancelling", "destroying", "ended"} =>
             \A n \in Managers : n \in call'["main"].to_cancel \/ Settled(n)'
      BY <1>1, <1>2, <1>3, <1>6, Basics DEF SweepInv, CancelSettles
    <2> QED BY <1>1, <1>5, <1>6, <2>1, <2>2 DEF SweepInv, CancelSettles
  <1> QED BY <1>5, <1>6, <1>8, <1>9, <1>10, <1>11 DEF SweepInv

LEMMA UnlockKeeps ==
    ASSUME EngineTypeOK, SweepInv, NEW t \in Threads, Unlock(t)
    PROVE  SweepInv'
  <1>0. /\ t \in Callers /\ "main" # t /\ "main" \in Callers /\ None # t
        /\ call \in [Callers -> Calls] /\ call[t] \in Calls
    BY Basics
  <1>1. /\ call[t].pc = "sweeping" /\ call[t].to_cancel = {} /\ call[t].to_destroy = {}
        /\ managers_mu_' = None
        /\ \A u \in Callers : u # t => call'[u] = call[u]
        /\ call'[t] \in {Idle, [Idle EXCEPT !.pc = "halting"]}
        /\ UNCHANGED <<managers_, run, life, queue_, live, sink, left>>
    BY <1>0 DEF Unlock, Swept
  <1>2. /\ call'[t].pc \in {"idle", "halting"} /\ call'[t].kind = "none"
        /\ call'[t].to_cancel = {} /\ call'[t].to_destroy = {}
    BY <1>1 DEF Idle
  <1>3. Sweeping(t) /\ ~Sweeping(t)' /\ call[t] # Idle
    BY <1>1, <1>2, SweepersSweep, IdleFields, <1>0 DEF Sweeping
  <1>4. \A u \in Callers : (Sweeping(u) => u = t) /\ ~Sweeping(u)'
    <2>1. \A u \in Callers : Sweeping(u) => u = t
      BY <1>0, <1>3, OneSweep
    <2> QED BY <1>1, <1>3, <2>1 DEF Sweeping
  <1>5. managers_mu_ = t /\ run \in {"serving", "shutdown"}
    BY <1>3, CallsBeforeCancel DEF SweepInv, LockHolder, LockOf
  <1>6. /\ MapHoldsTheLiving' /\ LookupsHold' /\ EventsAreAwaited' /\ SinksAreCleared'
        /\ \A m : Settled(m)' <=> Settled(m)
    BY <1>0, <1>1, <1>2, SweeperFrame
  <1>7. LockHolder'
    <2> SUFFICES ASSUME NEW u \in Threads PROVE LockOf(u)'
      BY DEF LockHolder
    <2>0. u # None
      BY Basics
    <2>1. CASE u = t
      BY <1>1, <1>2, <1>3, <1>5, <2>0, <2>1 DEF LockOf
    <2>2. CASE u # t
      BY <1>1, <1>5, <2>0, <2>2, Basics DEF SweepInv, LockHolder, LockOf, Sweeping
    <2> QED BY <2>1, <2>2
  <1>8. RunSweeps'
    BY <1>0, <1>1, <1>5 DEF SweepInv, RunSweeps
  <1>9. SweepShape'
    BY <1>4 DEF SweepShape
  <1>10. StoppingIsSwept'
    BY <1>1, <1>4 DEF SweepInv, StoppingIsSwept
  <1>11. CancelSettles'
    BY <1>1, <1>4, <1>5, <1>6 DEF SweepInv, CancelSettles
  <1> QED BY <1>6, <1>7, <1>8, <1>9, <1>10, <1>11 DEF SweepInv

LEMMA ProcessSignalKeeps ==
    ASSUME EngineTypeOK, SweepInv, RunIsLast, NEW t \in Threads, process_signal(t)
    PROVE  SweepInv'
  <1>0. /\ t \in Callers /\ call \in [Callers -> Calls] /\ call[t] \in Calls
        /\ \A c \in Callers : call[c].to_destroy \subseteq Managers
        /\ None \notin Callers
    BY Basics
  <1>1. PICK m \in Managers : m = call[t].om
    BY DEF process_signal, SweepInv, LookupsHold, LookupOf
  <1>2. /\ call[t].pc = "found" /\ call[t].kind = "signal"
        /\ life[m] \in {"alive", "stopping", "hung"}
        /\ call' = [call EXCEPT ![t].pc = "waiting"]
        /\ UNCHANGED <<managers_, managers_mu_, run, life, live, sink, left>>
    BY <1>1 DEF process_signal, Gone, SweepInv, LookupsHold, LookupOf, EngineTypeOK
  <1>14. PICK k \in {"signal", "raced"} :
            push(t, m, k) /\ k = IF BeingKilled(m) THEN "raced" ELSE "signal"
    BY <1>1 DEF process_signal
  <1>3. /\ \A u \in Callers : u # t => call'[u] = call[u]
        /\ call'[t].pc = "waiting" /\ call'[t].kind = "signal"
        /\ call'[t].to_cancel = call[t].to_cancel /\ call'[t].to_destroy = call[t].to_destroy
    BY <1>0, <1>2 DEF Calls
  <1>4. ~Sweeping(t) /\ ~Sweeping(t)' /\ call[t] # Idle
    BY <1>2, <1>3, IdleFields DEF Sweeping
  <1>5. run \in {"serving", "shutdown"}
    BY <1>4, CallsBeforeCancel
  <1>6. /\ RunSweeps' /\ SweepShape' /\ StoppingIsSwept'
        /\ \A u \in Callers : Sweeping(u)' => Sweeping(u) /\ call'[u] = call[u]
    BY <1>2, <1>3, <1>4, <1>5, QuietShape
  <1>7. EventsAreAwaited'
    BY <1>0, <1>2, <1>3, <1>14, PushIsAwaited
  <1>8. MapHoldsTheLiving'
    BY <1>2 DEF SweepInv, MapHoldsTheLiving
  <1>9. LockHolder'
    <2> SUFFICES ASSUME NEW u \in Threads PROVE LockOf(u)'
      BY DEF LockHolder
    <2>1. CASE u = t
      BY <1>2, <1>3, <1>4, <1>5, <2>1 DEF SweepInv, LockHolder, LockOf
    <2>2. CASE u # t
      BY <1>2, <1>3, <2>2, Basics DEF SweepInv, LockHolder, LockOf, Sweeping
    <2> QED BY <2>1, <2>2
  <1>10. LookupsHold'
    <2> SUFFICES ASSUME NEW u \in Threads PROVE LookupOf(u)'
      BY DEF LookupsHold
    <2>1. CASE u = t
      BY <1>3, <2>1 DEF LookupOf
    <2>2. CASE u # t
      BY <1>2, <1>3, <2>2, Basics DEF SweepInv, LookupsHold, LookupOf
    <2> QED BY <2>1, <2>2
  \* A signal to a manager that a sweep has is one that raced.
  <1>11. ASSUME NEW c \in Callers, Sweeping(c), m \in call[c].to_destroy PROVE k = "raced"
    <2>1. c # "main"
      BY <1>5, <1>11, IdleFields DEF SweepInv, RunSweeps, Sweeping
    <2>2. c \in Threads /\ managers_mu_ = c
      BY <1>11, <2>1, Basics DEF SweepInv, LockHolder, LockOf
    <2> QED BY <1>0, <1>11, <1>14, <2>2 DEF BeingKilled
  <1>12. CancelSettles'
    <2>0. /\ Len(queue_[m]) \in Nat
          /\ DOMAIN queue_[m] = 1 .. Len(queue_[m])
          /\ DOMAIN queue_'[m] = 1 .. (Len(queue_[m]) + 1)
          /\ \A i \in DOMAIN queue_[m] : queue_'[m][i] = queue_[m][i]
          /\ queue_'[m][Len(queue_[m]) + 1] = [kind |-> k, from |-> t]
      BY <1>0, <1>14, PushFacts
    <2>1. \A n \in Managers : n # m => queue_'[n] = queue_[n]
      BY <1>14 DEF push, EngineTypeOK
    <2>2. /\ \A i \in DOMAIN queue_[m] : i \in DOMAIN queue_'[m]
          /\ k = "raced" => \A i \in DOMAIN queue_'[m] :
                               queue_'[m][i].kind = "signal" =>
                                   i \in DOMAIN queue_[m] /\ queue_'[m][i] = queue_[m][i]
      <3>1. \A i \in DOMAIN queue_'[m] : i \in DOMAIN queue_[m] \/ i = Len(queue_[m]) + 1
        BY <2>0
      <3>2. \A i \in DOMAIN queue_[m] : i \in DOMAIN queue_'[m]
        BY <2>0
      <3> QED BY <2>0, <3>1, <3>2
    <2>3. \A n \in Managers : n # m /\ Settled(n) => Settled(n)'
      BY <1>2, <2>1 DEF Settled
    <2>4. k = "raced" /\ Settled(m) => Settled(m)'
      BY <1>2, <2>2 DEF Settled
    <2>5. \A n \in Managers : life'[n] # "alive" => Settled(n)'
      <3> SUFFICES ASSUME life[m] # "alive" PROVE Settled(m)'
        BY <1>2, <2>3 DEF SweepInv, CancelSettles
      <3>1. life[m] \in {"stopping", "hung"} /\ Settled(m)
        BY <1>2 DEF SweepInv, CancelSettles
      <3>2. k = "raced"
        BY <1>11, <3>1 DEF SweepInv, StoppingIsSwept
      <3> QED BY <2>4, <3>1, <3>2
    <2>6. ASSUME NEW c \in Callers, Sweeping(c)' PROVE SettledBehind(c)'
      <3>1. Sweeping(c) /\ call'[c] = call[c] /\ SettledBehind(c) /\ ShapeOf(c)
        BY <1>6, <2>6 DEF SweepInv, CancelSettles, SweepShape
      <3>2. call[c].kind # "run"
        <4>1. c # "main"
          BY <1>5, <3>1, IdleFields DEF SweepInv, RunSweeps, Sweeping
        <4> QED BY <4>1, Basics DEF RunIsLast
      <3>3. call[c].pc \in {"waiting", "answered"} =>
                call[c].om \in call[c].to_destroy /\ call[c].om \in Managers
        BY <1>0, <3>1, <3>2 DEF ShapeOf
      <3>4. \A n \in call[c].to_destroy : Settled(n) => Settled(n)'
        BY <1>0, <1>11, <2>3, <2>4, <3>1
      <3>5. \A n \in call[c].to_destroy : n \in call[c].to_cancel \/ Settled(n)'
        BY <3>1, <3>4 DEF SettledBehind
      <3>6. call[c].pc = "answered" => Settled(call[c].om)'
        <4> SUFFICES ASSUME call[c].pc = "answered" PROVE Settled(call[c].om)'
          OBVIOUS
        <4>1. PICK n \in call[c].to_destroy : n = call[c].om
          BY <3>3
        <4>2. Settled(n)'
          BY <3>1, <3>4, <4>1 DEF SettledBehind
        <4> QED BY <3>1, <4>1, <4>2 DEF Settled
      <3>7. ASSUME call[c].pc = "waiting"
            PROVE  \E i \in DOMAIN queue_'[call[c].om] :
                       /\ queue_'[call[c].om][i] = [kind |-> "cancel_all", from |-> c]
                       /\ \A j \in DOMAIN queue_'[call[c].om] :
                             j > i => queue_'[call[c].om][j].kind # "signal"
        <4>1. CASE call[c].om = m
          <5>1. PICK i \in DOMAIN queue_[m] :
                   /\ queue_[m][i] = [kind |-> "cancel_all", from |-> c]
                   /\ \A j \in DOMAIN queue_[m] : j > i => queue_[m][j].kind # "signal"
            BY <3>1, <3>7, <4>1 DEF SettledBehind
          <5>2. i \in DOMAIN queue_'[m] /\ queue_'[m][i] = queue_[m][i]
            BY <2>0, <2>2
          <5>3. \A j \in DOMAIN queue_'[m] : j > i => queue_'[m][j].kind # "signal"
            BY <1>11, <2>2, <3>1, <3>3, <3>7, <4>1, <5>1
          <5> QED BY <4>1, <5>1, <5>2, <5>3
        <4>2. CASE call[c].om # m
          BY <2>1, <3>1, <3>3, <3>7, <4>2 DEF SettledBehind
        <4> QED BY <4>1, <4>2
      <3> QED BY <3>1, <3>5, <3>6, <3>7 DEF SettledBehind, Settled
    <2> QED BY <1>2, <1>5, <2>5, <2>6 DEF CancelSettles
  <1>13. SinksAreCleared'
    <2> SUFFICES ASSUME NEW n \in Managers, sink[n] # None PROVE SinkOf(n)'
      BY <1>2 DEF SinksAreCleared, SinkOf
    <2>1. SinkOf(n) /\ sink[n] \in Threads /\ sink[n] \in Callers
      BY Basics DEF SweepInv, SinksAreCleared
    <2>2. life[n] \in {"alive", "stopping", "hung"} => sink[n] # t
      BY <1>2, <2>1 DEF SinkOf
    <2> QED BY <1>2, <1>3, <2>1, <2>2 DEF SinkOf
  <1> QED BY <1>6, <1>7, <1>8, <1>9, <1>10, <1>12, <1>13 DEF SweepInv

------------------------------------------------------------------------------
(* Steps of the dispatch threads and of the feed.                           *)

\* The callers a dispatch answers: the one that waits for the event.
LEMMA DispatchFacts ==
    ASSUME EngineTypeOK, SweepInv, NEW m \in Managers, Dispatch(m)
    PROVE  /\ queue_[m] # <<>> /\ Len(queue_[m]) \in Nat
           /\ DOMAIN queue_[m] = 1 .. Len(queue_[m]) /\ 1 \in DOMAIN queue_[m]
           /\ queue_[m][1].kind \in {"signal", "raced", "cancel_all", "data"}
           /\ \A n \in Managers : n # m => queue_'[n] = queue_[n] /\ live'[n] = live[n]
           /\ \A i \in DOMAIN queue_'[m] : /\ i \in Nat \ {0} /\ i + 1 \in DOMAIN queue_[m]
                                           /\ queue_'[m][i] = queue_[m][i + 1]
           /\ \A i \in DOMAIN queue_[m] : i # 1 => i - 1 \in DOMAIN queue_'[m] /\ i \in Nat
                                                   /\ (i - 1) + 1 = i
           /\ live'[m] \in Effects(queue_[m][1].kind, live[m])
           /\ \A n \in Managers : n # m /\ n \in left => n \in left'
           /\ live'[m] /\ queue_[m][1].kind \in {"raced", "cancel_all"} => m \in left'
           /\ live'[m] /\ queue_[m][1].kind = "data" => live[m] /\ left' = left
           /\ call' = Answered(queue_[m][1])
           /\ UNCHANGED <<managers_, managers_mu_, run, life, sink>>
  <1>1. queue_ \in [Managers -> Seq(QueueEvents)] /\ queue_[m] \in Seq(QueueEvents)
        /\ live \in [Managers -> BOOLEAN]
    BY DEF EngineTypeOK
  <1>2. /\ queue_[m] # <<>>
        /\ queue_' = [queue_ EXCEPT ![m] = Tail(@)]
        /\ call' = Answered(Head(queue_[m]))
        /\ UNCHANGED <<managers_, managers_mu_, run, life, sink>>
    BY DEF Dispatch
  <1>8. PICK l \in Effects(Head(queue_[m]).kind, live[m]) :
           /\ live' = [live EXCEPT ![m] = l]
           /\ left' = CASE ~l -> left \ {m}
                        [] l /\ Head(queue_[m]).kind \in {"raced", "cancel_all"} -> left \cup {m}
                        [] OTHER -> left
    BY DEF Dispatch
  <1>3. /\ Len(queue_[m]) \in Nat /\ Len(queue_[m]) > 0 /\ DOMAIN queue_[m] = 1 .. Len(queue_[m])
        /\ Head(queue_[m]) = queue_[m][1]
        /\ DOMAIN Tail(queue_[m]) = 1 .. (Len(queue_[m]) - 1)
        /\ \A i \in 1 .. (Len(queue_[m]) - 1) : Tail(queue_[m])[i] = queue_[m][i + 1]
        /\ queue_[m][1] \in QueueEvents
    BY <1>1, <1>2
  <1>4. queue_[m][1].kind \in {"signal", "raced", "cancel_all", "data"}
    BY <1>3 DEF QueueEvents
  <1>5. queue_'[m] = Tail(queue_[m]) /\ \A n \in Managers : n # m => queue_'[n] = queue_[n]
    BY <1>1, <1>2
  <1>6. /\ live'[m] = l /\ l \in Effects(queue_[m][1].kind, live[m])
        /\ \A n \in Managers : n # m => live'[n] = live[n]
    BY <1>1, <1>3, <1>8
  <1>9. Effects(queue_[m][1].kind, live[m]) \subseteq BOOLEAN
    BY <1>1, <1>4 DEF Effects
  <1>10. /\ \A n \in Managers : n # m /\ n \in left => n \in left'
         /\ l /\ queue_[m][1].kind \in {"raced", "cancel_all"} => m \in left'
         /\ l /\ queue_[m][1].kind = "data" => left' = left
    BY <1>3, <1>6, <1>8, <1>9
  <1>11. l /\ queue_[m][1].kind = "data" => live[m]
    BY <1>6 DEF Effects
  <1>7. /\ 1 \in DOMAIN queue_[m]
        /\ \A i \in DOMAIN queue_'[m] : /\ i \in Nat \ {0} /\ i + 1 \in DOMAIN queue_[m]
                                        /\ queue_'[m][i] = queue_[m][i + 1]
        /\ \A i \in DOMAIN queue_[m] : i # 1 => i - 1 \in DOMAIN queue_'[m] /\ i \in Nat
                                                /\ (i - 1) + 1 = i
    BY <1>3, <1>5
  <1> QED BY <1>2, <1>3, <1>4, <1>5, <1>6, <1>7, <1>10, <1>11

\* What is settled stays settled when an event is handled, and what is behind a
\* cancellation stays behind it.
LEMMA DispatchSettles ==
    ASSUME EngineTypeOK, SweepInv, NEW m \in Managers, Dispatch(m)
    PROVE  /\ \A n \in Managers : Settled(n) => Settled(n)'
           /\ queue_[m][1].kind # "cancel_all" =>
                 \A c \in Callers : Sweeping(c) /\ call'[c] = call[c] => SettledBehind(c)'
  <1> DEFINE e == queue_[m][1]
  <1>1. /\ 1 \in DOMAIN queue_[m] /\ e.kind \in {"signal", "raced", "cancel_all", "data"}
        /\ \A n \in Managers : n # m => queue_'[n] = queue_[n] /\ live'[n] = live[n]
        /\ \A i \in DOMAIN queue_'[m] : /\ i \in Nat \ {0} /\ i + 1 \in DOMAIN queue_[m]
                                        /\ queue_'[m][i] = queue_[m][i + 1]
        /\ \A i \in DOMAIN queue_[m] : i # 1 => i - 1 \in DOMAIN queue_'[m] /\ i \in Nat
                                                /\ (i - 1) + 1 = i
        /\ \A n \in Managers : n # m /\ n \in left => n \in left'
        /\ live'[m] /\ e.kind \in {"raced", "cancel_all"} => m \in left'
        /\ live'[m] /\ e.kind = "data" => live[m] /\ left' = left
        /\ UNCHANGED <<run, life>>
    BY DispatchFacts
  <1> HIDE DEF e
  <1>2. \A n \in Managers : Settled(n) => Settled(n)'
    <2> SUFFICES ASSUME Settled(m) PROVE Settled(m)'
      BY <1>1 DEF Settled
    <2>1. e.kind # "signal"
      BY <1>1 DEF Settled, e
    <2>2. live'[m] => m \in left'
      BY <1>1, <2>1 DEF Settled
    <2> QED BY <1>1, <2>2 DEF Settled
  <1>3. ASSUME e.kind # "cancel_all", NEW c \in Callers, Sweeping(c), call'[c] = call[c]
        PROVE  SettledBehind(c)'
    <2>1. SettledBehind(c) /\ ShapeOf(c)
      BY <1>3 DEF SweepInv, CancelSettles, SweepShape
    <2>2. call[c].pc \in {"waiting", "answered"} => call[c].om \in Managers
      BY <2>1, Basics DEF ShapeOf
    <2>3. \A n \in call[c].to_destroy : n \in call[c].to_cancel \/ Settled(n)'
      BY <1>2, <2>1, Basics DEF SettledBehind
    <2>4. call[c].pc = "answered" => Settled(call[c].om)'
      BY <1>2, <1>3, <2>1, <2>2 DEF SettledBehind, Settled
    <2>5. ASSUME call[c].pc = "waiting"
          PROVE  \E i \in DOMAIN queue_'[call[c].om] :
                     /\ queue_'[call[c].om][i] = [kind |-> "cancel_all", from |-> c]
                     /\ \A j \in DOMAIN queue_'[call[c].om] :
                           j > i => queue_'[call[c].om][j].kind # "signal"
      <3>1. PICK i \in DOMAIN queue_[call[c].om] :
                 /\ queue_[call[c].om][i] = [kind |-> "cancel_all", from |-> c]
                 /\ \A j \in DOMAIN queue_[call[c].om] :
                       j > i => queue_[call[c].om][j].kind # "signal"
        BY <2>1, <2>5 DEF SettledBehind
      <3>2. CASE call[c].om # m
        BY <1>1, <2>2, <2>5, <3>1, <3>2
      <3>3. CASE call[c].om = m
        <4>1. i # 1
          BY <1>3, <3>1, <3>3 DEF e
        <4>2. i - 1 \in DOMAIN queue_'[m] /\ i \in Nat /\ queue_'[m][i - 1] = queue_[m][i]
          BY <1>1, <3>1, <3>3, <4>1
        <4>3. \A j \in DOMAIN queue_'[m] : j > i - 1 => j + 1 \in DOMAIN queue_[m] /\ j + 1 > i
          BY <1>1, <4>2
        <4> QED BY <1>1, <3>1, <3>3, <4>2, <4>3
      <3> QED BY <3>2, <3>3
    <2> QED BY <1>3, <2>3, <2>4, <2>5 DEF SettledBehind, Settled
  <1> QED BY <1>2, <1>3 DEF e

\* The events that are left are those of other callers.
LEMMA DispatchAwaits ==
    ASSUME EngineTypeOK, SweepInv, NEW m \in Managers, Dispatch(m),
           \A u \in Callers : u # queue_[m][1].from \/ queue_[m][1].kind = "data"
                                  => call'[u] = call[u]
    PROVE  EventsAreAwaited'
  <1> DEFINE e == queue_[m][1]
  <1>1. /\ 1 \in DOMAIN queue_[m]
        /\ \A n \in Managers : n # m => queue_'[n] = queue_[n]
        /\ \A i \in DOMAIN queue_'[m] : /\ i \in Nat \ {0} /\ i + 1 \in DOMAIN queue_[m]
                                        /\ queue_'[m][i] = queue_[m][i + 1]
    BY DispatchFacts
  <1>2. ASSUME NEW n \in Managers, NEW i \in DOMAIN queue_'[n]
        PROVE  \E k \in DOMAIN queue_[n] :
                   /\ queue_'[n][i] = queue_[n][k]
                   /\ k = IF n = m THEN i + 1 ELSE i
                   /\ n = m => i \in Nat
                   /\ n = m => k # 1
    BY <1>1
  <1>3. ASSUME NEW n \in Managers, NEW i \in DOMAIN queue_'[n] PROVE Awaited(n, i)'
    <2>1. PICK k \in DOMAIN queue_[n] : queue_'[n][i] = queue_[n][k] /\ (n = m => k # 1)
      BY <1>2
    <2>2. Awaited(n, k)
      BY DEF SweepInv, EventsAreAwaited
    <2>3. e.kind # "data" => queue_[n][k].from # e.from
      BY <1>1, <2>1 DEF SweepInv, EventsAreAwaited
    <2> HIDE DEF e
    <2>4. \A u \in Callers : u = queue_[n][k].from => call'[u] = call[u]
      BY <2>3 DEF e
    <2> QED BY <2>1, <2>2, <2>4, Basics DEF Awaited, Sweeping
  <1>4. ASSUME NEW n \in Managers, NEW o \in Managers,
               NEW i \in DOMAIN queue_'[n], NEW j \in DOMAIN queue_'[o],
               queue_'[n][i].from = queue_'[o][j].from, queue_'[n][i].kind # "data"
        PROVE  n = o /\ i = j
    <2>1. PICK k \in DOMAIN queue_[n] : /\ queue_'[n][i] = queue_[n][k]
                                        /\ k = IF n = m THEN i + 1 ELSE i
                                        /\ n = m => i \in Nat
      BY <1>2
    <2>2. PICK l \in DOMAIN queue_[o] : /\ queue_'[o][j] = queue_[o][l]
                                        /\ l = IF o = m THEN j + 1 ELSE j
                                        /\ o = m => j \in Nat
      BY <1>2
    <2>3. n = o /\ k = l
      BY <1>4, <2>1, <2>2 DEF SweepInv, EventsAreAwaited
    <2> QED BY <2>1, <2>2, <2>3
  <1> QED BY <1>3, <1>4 DEF EventsAreAwaited

LEMMA DispatchKeeps ==
    ASSUME EngineTypeOK, SweepInv, NEW m \in Managers, Dispatch(m)
    PROVE  SweepInv'
  <1>0. /\ call \in [Callers -> Calls] /\ "main" \in Callers /\ "main" \notin Threads
        /\ \A t \in Threads : t \in Callers
    BY Basics
  <1>1. PICK e : e = queue_[m][1]
    OBVIOUS
  <1>2. /\ 1 \in DOMAIN queue_[m] /\ e.kind \in {"signal", "raced", "cancel_all", "data"}
        /\ call' = Answered(e)
        /\ UNCHANGED <<managers_, managers_mu_, run, life, sink>>
    BY <1>1, DispatchFacts
  <1>3. Awaited(m, 1)
    BY <1>2 DEF SweepInv, EventsAreAwaited
  <1>4. MapHoldsTheLiving'
    BY <1>2 DEF SweepInv, MapHoldsTheLiving
  <1>5. \A n \in Managers : Settled(n) => Settled(n)'
    BY DispatchSettles
  <1>6. CASE e.kind = "data"
    <2>1. call' = call
      BY <1>2, <1>6 DEF Answered
    <2>2. EventsAreAwaited'
      BY <2>1, DispatchAwaits
    <2>3. \A c \in Callers : Sweeping(c)' => Sweeping(c) /\ SettledBehind(c)'
      BY <1>1, <1>6, <2>1, DispatchSettles DEF Sweeping
    <2>4. CancelSettles'
      BY <1>2, <1>5, <2>1, <2>3 DEF SweepInv, CancelSettles
    <2>5. LockHolder' /\ LookupsHold' /\ SinksAreCleared'
      BY <1>2, <2>1 DEF SweepInv, LockHolder, LockOf, LookupsHold, LookupOf, SinksAreCleared,
                        SinkOf, Sweeping
    <2>6. RunSweeps' /\ SweepShape' /\ StoppingIsSwept'
      BY <1>2, <2>1 DEF SweepInv, RunSweeps, SweepShape, ShapeOf, StoppingIsSwept, Sweeping
    <2> QED BY <1>4, <2>2, <2>4, <2>5, <2>6 DEF SweepInv
  <1>7. CASE e.kind \in {"signal", "raced"}
    <2>1. PICK t \in Threads : t = e.from
      BY <1>1, <1>3, <1>7 DEF Awaited
    <2>2. /\ call[t].pc = "waiting" /\ call[t].kind = "signal"
          /\ call' = [call EXCEPT ![t] = Idle]
      BY <1>1, <1>2, <1>3, <1>7, <2>1 DEF Awaited, Answered
    <2>3. call'[t] = Idle /\ \A u \in Callers : u # t => call'[u] = call[u]
      BY <1>0, <2>2
    <2>4. ~Sweeping(t) /\ ~Sweeping(t)' /\ call[t] # Idle
      BY <2>2, <2>3, IdleFields DEF Sweeping
    <2>5. run \in {"serving", "shutdown"}
      BY <2>4, CallsBeforeCancel
    <2>6. /\ RunSweeps' /\ SweepShape' /\ StoppingIsSwept'
          /\ \A u \in Callers : Sweeping(u)' => Sweeping(u) /\ call'[u] = call[u]
      BY <1>2, <2>3, <2>4, <2>5, QuietShape
    <2>7. EventsAreAwaited'
      BY <1>1, <1>7, <2>1, <2>3, DispatchAwaits
    <2>8. CancelSettles'
      <3>1. \A c \in Callers : Sweeping(c)' => SettledBehind(c)'
        BY <1>1, <1>7, <2>6, DispatchSettles
      <3> QED BY <1>2, <1>5, <2>5, <3>1 DEF SweepInv, CancelSettles
    <2>9. LockHolder'
      <3> SUFFICES ASSUME NEW u \in Threads PROVE LockOf(u)'
        BY DEF LockHolder
      <3>1. CASE u = t
        BY <1>2, <2>2, <2>3, <2>4, <3>1, IdleFields DEF SweepInv, LockHolder, LockOf
      <3>2. CASE u # t
        BY <1>0, <1>2, <2>3, <3>2 DEF SweepInv, LockHolder, LockOf, Sweeping
      <3> QED BY <3>1, <3>2
    <2>10. LookupsHold'
      BY <1>0, <1>2, <2>3, IdleFields DEF SweepInv, LookupsHold, LookupOf
    <2>11. SinksAreCleared'
      <3> SUFFICES ASSUME NEW k \in Managers, sink[k] # None PROVE SinkOf(k)'
        BY <1>2 DEF SinksAreCleared, SinkOf
      <3>1. SinkOf(k) /\ sink[k] \in Threads /\ sink[k] \in Callers
        BY Basics DEF SweepInv, SinksAreCleared
      <3>2. life[k] \in {"alive", "stopping", "hung"} => sink[k] # t
        BY <2>2, <3>1 DEF SinkOf
      <3> QED BY <1>2, <2>3, <3>1, <3>2 DEF SinkOf
    <2> QED BY <1>4, <2>6, <2>7, <2>8, <2>9, <2>10, <2>11 DEF SweepInv
  <1>8. CASE e.kind = "cancel_all"
    <2>1. PICK c \in Callers : c = e.from
      BY <1>1, <1>3, <1>8 DEF Awaited
    <2>2. /\ call[c].pc = "waiting" /\ Sweeping(c) /\ call[c].om = m
          /\ call' = [call EXCEPT ![c].pc = "answered"]
      BY <1>1, <1>2, <1>3, <1>8, <2>1 DEF Awaited, Answered
    <2>3. \A u \in Callers : u # c => call'[u] = call[u]
      BY <1>0, <2>2
    <2>4. /\ call'[c].pc = "answered" /\ call'[c].kind = call[c].kind /\ call'[c].om = m
          /\ call'[c].to_cancel = call[c].to_cancel /\ call'[c].to_destroy = call[c].to_destroy
      <3>1. call[c] \in Calls
        BY Basics
      <3> QED BY <1>0, <2>2, <3>1 DEF Calls
    <2>5. /\ LockHolder' /\ Sweeping(c)' /\ (\A d \in Callers : Sweeping(d)' => d = c)
          /\ c = "main" => run \in {"cancelling", "destroying"}
          /\ c # "main" => run \in {"serving", "shutdown"}
      BY <1>2, <2>2, <2>3, <2>4, SweepGoesOn
    <2>6. EventsAreAwaited'
      BY <1>1, <1>8, <2>1, <2>3, DispatchAwaits
    <2>7. ShapeOf(c) /\ SettledBehind(c)
      BY <2>2 DEF SweepInv, SweepShape, CancelSettles
    <2>8. SweepShape'
      <3>1. ShapeOf(c)'
        BY <1>2, <2>2, <2>4, <2>7 DEF ShapeOf
      <3> QED BY <2>5, <3>1 DEF SweepShape
    <2>9. StoppingIsSwept'
      <3>1. \A d \in Callers : Sweeping(d) => Sweeping(d)' /\ call'[d].to_destroy = call[d].to_destroy
        BY <2>3, <2>4 DEF Sweeping
      <3> QED BY <1>2, <3>1 DEF SweepInv, StoppingIsSwept
    <2>10. RunSweeps'
      <3>1. CASE c = "main"
        BY <1>2, <2>4, <2>5, <3>1 DEF SweepInv, RunSweeps
      <3>2. CASE c # "main"
        BY <1>0, <1>2, <2>3, <2>5, <3>2 DEF SweepInv, RunSweeps
      <3> QED BY <3>1, <3>2
    \* The event is the sweep's own: behind it there is no signal but those that raced.
    <2>11. Settled(m)'
      <3>1. PICK i \in DOMAIN queue_[m] :
                 /\ queue_[m][i] = [kind |-> "cancel_all", from |-> c]
                 /\ \A j \in DOMAIN queue_[m] : j > i => queue_[m][j].kind # "signal"
        BY <2>2, <2>7 DEF SettledBehind
      <3>2. queue_[m][i].from = e.from
        BY <2>1, <3>1
      <3>3. i = 1
        BY <1>1, <1>2, <1>8, <3>2 DEF SweepInv, EventsAreAwaited
      <3>5. live'[m] => m \in left'
        BY <1>1, <1>8, DispatchFacts
      <3>6. \A j \in DOMAIN queue_'[m] : /\ j \in Nat \ {0} /\ j + 1 \in DOMAIN queue_[m]
                                         /\ queue_'[m][j] = queue_[m][j + 1]
        BY DispatchFacts
      <3> QED BY <1>2, <3>1, <3>3, <3>5, <3>6 DEF Settled
    <2>12. CancelSettles'
      <3>1. \A n \in call[c].to_destroy : n \in call[c].to_cancel \/ Settled(n)'
        BY <1>5, <2>7, Basics DEF SettledBehind
      <3>2. SettledBehind(c)'
        BY <2>4, <2>11, <3>1 DEF SettledBehind, Settled
      <3>3. call'["main"].to_cancel = call["main"].to_cancel
        BY <1>0, <2>3, <2>4
      <3> QED BY <1>2, <1>5, <2>5, <3>2, <3>3 DEF SweepInv, CancelSettles
    <2>13. LookupsHold'
      <3> SUFFICES ASSUME NEW u \in Threads PROVE LookupOf(u)'
        BY DEF LookupsHold
      <3>1. CASE u = c
        BY <2>4, <3>1 DEF LookupOf
      <3>2. CASE u # c
        BY <1>0, <1>2, <2>3, <3>2 DEF SweepInv, LookupsHold, LookupOf
      <3> QED BY <3>1, <3>2
    <2>14. SinksAreCleared'
      <3> SUFFICES ASSUME NEW k \in Managers, sink[k] # None PROVE SinkOf(k)'
        BY <1>2 DEF SinksAreCleared, SinkOf
      <3>1. SinkOf(k) /\ sink[k] \in Threads /\ sink[k] \in Callers
        BY Basics DEF SweepInv, SinksAreCleared
      <3>2. life[k] \in {"alive", "stopping", "hung"} => sink[k] # c
        BY <2>2, <3>1 DEF SinkOf
      <3> QED BY <1>2, <2>3, <3>1, <3>2 DEF SinkOf
    <2> QED BY <1>4, <2>5, <2>6, <2>8, <2>9, <2>10, <2>12, <2>13, <2>14 DEF SweepInv
  <1> QED BY <1>2, <1>6, <1>7, <1>8

\* The threads of a manager end.
LEMMA ThreadEndsKeeps ==
    ASSUME EngineTypeOK, SweepInv, NEW m \in Managers, LeaveLoop(m) \/ StreamEnds(m)
    PROVE  SweepInv'
  <1>1. /\ life[m] \in {"stopping", "reading"} /\ life'[m] \in {"reading", "dead"}
        /\ \A k \in Managers : k # m => life'[k] = life[k]
        /\ UNCHANGED <<managers_, managers_mu_, run, call, queue_, live, sink, left>>
    BY Basics DEF LeaveLoop, StreamEnds
  <1>2. \A n : Settled(n)' <=> Settled(n)
    BY <1>1 DEF Settled
  <1>3. /\ None \notin Managers /\ managers_ \in [Strategies -> Managers \cup {None}]
        /\ \A c \in Callers : /\ call[c].om \in Managers \cup {None}
                              /\ call[c].to_cancel \subseteq Managers
                              /\ call[c].to_destroy \subseteq Managers
    BY Basics
  <1>4. MapHoldsTheLiving'
    BY <1>1, <1>3 DEF SweepInv, MapHoldsTheLiving
  <1>5. LockHolder' /\ EventsAreAwaited'
    BY <1>1 DEF SweepInv, LockHolder, LockOf, EventsAreAwaited, Awaited, Sweeping
  <1>6. LookupsHold'
    BY <1>1, Basics DEF SweepInv, LookupsHold, LookupOf
  <1>7. RunSweeps'
    BY <1>1 DEF SweepInv, RunSweeps
  <1>8. SweepShape'
    <2> SUFFICES ASSUME NEW c \in Callers, Sweeping(c) PROVE ShapeOf(c)'
      BY <1>1 DEF SweepShape, Sweeping
    <2>1. ShapeOf(c)
      BY DEF SweepInv, SweepShape
    <2> QED BY <1>1, <1>3, <2>1 DEF ShapeOf
  <1>9. StoppingIsSwept'
    BY <1>1 DEF SweepInv, StoppingIsSwept, Sweeping
  <1>10. CancelSettles'
    <2>1. \A c \in Callers : Sweeping(c) => SettledBehind(c)'
      <3> SUFFICES ASSUME NEW c \in Callers, Sweeping(c) PROVE SettledBehind(c)'
        OBVIOUS
      <3>1. SettledBehind(c)
        BY DEF SweepInv, CancelSettles
      <3> QED BY <1>1, <1>2, <3>1 DEF SettledBehind, Settled
    <2> QED BY <1>1, <1>2, <2>1 DEF SweepInv, CancelSettles, Sweeping
  <1>11. SinksAreCleared'
    BY <1>1 DEF SweepInv, SinksAreCleared, SinkOf
  <1> QED BY <1>4, <1>5, <1>6, <1>7, <1>8, <1>9, <1>10, <1>11 DEF SweepInv

LEMMA TickKeeps ==
    ASSUME EngineTypeOK, SweepInv, on_tick
    PROVE  SweepInv'
  <1> DEFINE d == [kind |-> "data", from |-> None]
  <1>1. UNCHANGED <<managers_, managers_mu_, run, call, life, live, sink, left>>
    BY DEF on_tick
  <1>2. \A m \in Managers : queue_'[m] = queue_[m] \/ queue_'[m] = Append(queue_[m], d)
    BY DEF on_tick
  <1>3. d.kind = "data" /\ d.from = None /\ d \in QueueEvents
    BY DEF QueueEvents
  <1> HIDE DEF d
  \* The events that were queued keep their places; the others are data.
  <1>4. ASSUME NEW m \in Managers
        PROVE  /\ \A i \in DOMAIN queue_[m] : i \in DOMAIN queue_'[m] /\ queue_'[m][i] = queue_[m][i]
               /\ \A i \in DOMAIN queue_'[m] :
                     i \in DOMAIN queue_[m] \/ (i \notin DOMAIN queue_[m] /\ queue_'[m][i] = d)
    <2>1. queue_[m] \in Seq(QueueEvents)
      BY DEF EngineTypeOK
    <2> QED BY <1>2, <1>3, <2>1
  <1>5. \A m \in Managers : Settled(m) => Settled(m)'
    BY <1>1, <1>3, <1>4 DEF Settled
  <1>6. EventsAreAwaited'
    <2>1. ASSUME NEW m \in Managers, NEW i \in DOMAIN queue_'[m] PROVE Awaited(m, i)'
      <3>1. CASE i \in DOMAIN queue_[m]
        BY <1>1, <1>4, <3>1 DEF SweepInv, EventsAreAwaited, Awaited, Sweeping
      <3>2. CASE queue_'[m][i] = d
        BY <1>3, <3>2 DEF Awaited
      <3> QED BY <1>4, <3>1, <3>2
    <2>2. ASSUME NEW n \in Managers, NEW o \in Managers,
                 NEW i \in DOMAIN queue_'[n], NEW j \in DOMAIN queue_'[o],
                 queue_'[n][i].from = queue_'[o][j].from, queue_'[n][i].kind # "data"
          PROVE  n = o /\ i = j
      <3>1. i \in DOMAIN queue_[n] /\ queue_'[n][i] = queue_[n][i]
        BY <1>3, <1>4, <2>2
      <3>2. queue_[n][i] \in QueueEvents
        BY <3>1, Basics
      <3>3. queue_[n][i].from # None
        BY <2>2, <3>1, <3>2, Basics DEF SweepInv, EventsAreAwaited, Awaited, QueueEvents
      <3>4. j \in DOMAIN queue_[o] /\ queue_'[o][j] = queue_[o][j]
        BY <1>3, <1>4, <2>2, <3>1, <3>3
      <3> QED BY <2>2, <3>1, <3>4 DEF SweepInv, EventsAreAwaited
    <2> QED BY <2>1, <2>2 DEF EventsAreAwaited
  <1>7. /\ MapHoldsTheLiving' /\ LockHolder' /\ LookupsHold' /\ RunSweeps' /\ SweepShape'
        /\ StoppingIsSwept' /\ SinksAreCleared'
    <2>1. MapHoldsTheLiving' /\ LockHolder' /\ LookupsHold' /\ SinksAreCleared'
      BY <1>1 DEF SweepInv, MapHoldsTheLiving, LockHolder, LockOf, LookupsHold, LookupOf,
                  SinksAreCleared, SinkOf, Sweeping
    <2>2. RunSweeps' /\ SweepShape' /\ StoppingIsSwept'
      BY <1>1 DEF SweepInv, RunSweeps, SweepShape, ShapeOf, StoppingIsSwept, Sweeping
    <2> QED BY <2>1, <2>2
  <1>8. CancelSettles'
    <2>1. ASSUME NEW c \in Callers, Sweeping(c) PROVE SettledBehind(c)'
      <3>1. SettledBehind(c) /\ ShapeOf(c)
        BY <2>1 DEF SweepInv, CancelSettles, SweepShape
      <3>2. call[c].pc \in {"waiting", "answered"} => call[c].om \in Managers
        BY <3>1, Basics DEF ShapeOf
      <3>3. \A n \in call[c].to_destroy : n \in call[c].to_cancel \/ Settled(n)'
        BY <1>5, <3>1, Basics DEF SettledBehind
      <3>4. call[c].pc = "answered" => Settled(call[c].om)'
        BY <1>1, <1>5, <3>1, <3>2 DEF SettledBehind, Settled
      <3>5. ASSUME call[c].pc = "waiting"
            PROVE  \E i \in DOMAIN queue_'[call[c].om] :
                       /\ queue_'[call[c].om][i] = [kind |-> "cancel_all", from |-> c]
                       /\ \A j \in DOMAIN queue_'[call[c].om] :
                             j > i => queue_'[call[c].om][j].kind # "signal"
        <4>1. PICK i \in DOMAIN queue_[call[c].om] :
                   /\ queue_[call[c].om][i] = [kind |-> "cancel_all", from |-> c]
                   /\ \A j \in DOMAIN queue_[call[c].om] :
                         j > i => queue_[call[c].om][j].kind # "signal"
          BY <3>1, <3>5 DEF SettledBehind
        <4> QED BY <1>3, <1>4, <3>2, <3>5, <4>1
      <3> QED BY <1>1, <3>3, <3>4, <3>5 DEF SettledBehind, Settled
    <2> QED BY <1>1, <1>5, <2>1 DEF SweepInv, CancelSettles, Sweeping
  <1> QED BY <1>6, <1>7, <1>8 DEF SweepInv

------------------------------------------------------------------------------
(* Steps of Run().                                                          *)

\* Nothing of the sweeps changes.
LEMMA StutterKeeps ==
    ASSUME SweepInv,
           UNCHANGED <<managers_, managers_mu_, run, call, life, queue_, live, sink, left>>
    PROVE  SweepInv'
  <1>1. \A n : Settled(n)' <=> Settled(n)
    BY DEF Settled
  <1>2. MapHoldsTheLiving' /\ LockHolder' /\ LookupsHold' /\ SinksAreCleared'
    BY DEF SweepInv, MapHoldsTheLiving, LockHolder, LockOf, LookupsHold, LookupOf,
           SinksAreCleared, SinkOf, Sweeping
  <1>3. RunSweeps' /\ SweepShape' /\ StoppingIsSwept'
    BY DEF SweepInv, RunSweeps, SweepShape, ShapeOf, StoppingIsSwept, Sweeping
  <1>4. EventsAreAwaited'
    BY DEF SweepInv, EventsAreAwaited, Awaited, Sweeping
  <1>5. \A c \in Callers : SettledBehind(c)' <=> SettledBehind(c)
    BY <1>1 DEF SettledBehind, Settled
  <1>6. CancelSettles'
    BY <1>1, <1>5 DEF SweepInv, CancelSettles, Sweeping
  <1> QED BY <1>2, <1>3, <1>4, <1>6 DEF SweepInv

LEMMA BeginShutdownKeeps ==
    ASSUME SweepInv, BeginShutdown
    PROVE  SweepInv'
  <1>1. /\ run = "serving" /\ run' = "shutdown"
        /\ UNCHANGED <<managers_, managers_mu_, call, life, queue_, live, sink, left>>
    BY DEF BeginShutdown
  <1>2. \A n : Settled(n)' <=> Settled(n)
    BY <1>1 DEF Settled
  <1>3. MapHoldsTheLiving' /\ LockHolder' /\ LookupsHold' /\ SinksAreCleared'
    BY <1>1 DEF SweepInv, MapHoldsTheLiving, LockHolder, LockOf, LookupsHold, LookupOf,
                SinksAreCleared, SinkOf, Sweeping
  <1>4. RunSweeps' /\ SweepShape' /\ StoppingIsSwept'
    BY <1>1 DEF SweepInv, RunSweeps, SweepShape, ShapeOf, StoppingIsSwept, Sweeping
  <1>5. EventsAreAwaited'
    BY <1>1 DEF SweepInv, EventsAreAwaited, Awaited, Sweeping
  <1>6. \A c \in Callers : SettledBehind(c)' <=> SettledBehind(c)
    BY <1>1, <1>2 DEF SettledBehind, Settled
  <1>7. CancelSettles'
    BY <1>1, <1>2, <1>6 DEF SweepInv, CancelSettles, Sweeping
  <1> QED BY <1>3, <1>4, <1>5, <1>7 DEF SweepInv

LEMMA CancelAllKeeps ==
    ASSUME EngineTypeOK, SweepInv, cancel_all
    PROVE  SweepInv'
  <1>0. /\ "main" \in Callers /\ "main" \notin Threads /\ call \in [Callers -> Calls]
        /\ None \notin Managers
        /\ \A c \in Callers : c \in Threads \/ c = "main"
    BY Basics
  <1>1. /\ run = "shutdown" /\ run' = "cancelling"
        /\ \A t \in Threads : call[t] = Idle
        /\ call'["main"] = [Idle EXCEPT !.pc = "sweeping", !.kind = "run", !.to_cancel = Registered]
        /\ \A u \in Callers : u # "main" => call'[u] = call[u]
        /\ UNCHANGED <<managers_, managers_mu_, life, queue_, live, sink, left>>
    BY <1>0 DEF cancel_all
  <1>2. /\ call'["main"].pc = "sweeping" /\ call'["main"].kind = "run" /\ call'["main"].om = None
        /\ call'["main"].to_cancel = Registered /\ call'["main"].to_destroy = {}
    BY <1>1 DEF Idle
  <1>3. call["main"] = Idle
    BY <1>1 DEF SweepInv, RunSweeps
  <1>4. \A c \in Callers : call[c] = Idle /\ ~Sweeping(c) /\ (Sweeping(c)' => c = "main")
    BY <1>0, <1>1, <1>3, IdleFields DEF Sweeping
  <1>5. /\ MapHoldsTheLiving' /\ LookupsHold' /\ EventsAreAwaited' /\ SinksAreCleared'
        /\ \A m : Settled(m)' <=> Settled(m)
    BY <1>0, <1>1, <1>2, <1>3, IdleFields, SweeperFrame
  <1>6. LockHolder'
    BY <1>0, <1>1, <1>4, Basics DEF SweepInv, LockHolder, LockOf, Sweeping
  <1>7. RunSweeps'
    BY <1>1, <1>2 DEF RunSweeps
  <1>8. /\ \A m \in Registered : m \in Managers /\ life[m] = "alive"
        /\ \A m \in Managers : life[m] = "alive" => m \in Registered
    BY <1>0, RegisteredType DEF Registered, SweepInv, MapHoldsTheLiving
  <1>9. SweepShape'
    BY <1>1, <1>2, <1>4, <1>8 DEF SweepShape, ShapeOf
  <1>10. StoppingIsSwept'
    BY <1>1, <1>4 DEF SweepInv, StoppingIsSwept
  <1>11. CancelSettles'
    <2>1. SettledBehind("main")'
      BY <1>2 DEF SettledBehind
    <2>2. \A m \in Managers : m \in call'["main"].to_cancel \/ Settled(m)'
      BY <1>2, <1>5, <1>8 DEF SweepInv, CancelSettles
    <2> QED BY <1>1, <1>4, <1>5, <2>1, <2>2 DEF SweepInv, CancelSettles
  <1> QED BY <1>5, <1>6, <1>7, <1>9, <1>10, <1>11 DEF SweepInv

LEMMA StopAllKeeps ==
    ASSUME EngineTypeOK, SweepInv, stop_all
    PROVE  SweepInv'
  <1>0. /\ "main" \in Callers /\ "main" \notin Threads /\ call \in [Callers -> Calls]
        /\ call["main"] \in Calls /\ None \notin Managers
    BY Basics
  <1>1. /\ run = "cancelling" /\ run' = "destroying"
        /\ call["main"].pc = "sweeping" /\ call["main"].om = None
        /\ call["main"].to_cancel = {} /\ call["main"].to_destroy = {}
        /\ call' = [call EXCEPT !["main"].to_destroy = Registered]
        /\ UNCHANGED <<managers_, managers_mu_, life, queue_, live, sink, left>>
    BY DEF stop_all, Swept
  <1>2. \A u \in Callers : u # "main" => call'[u] = call[u]
    BY <1>0, <1>1
  <1>3. /\ call'["main"].pc = "sweeping" /\ call'["main"].kind = call["main"].kind
        /\ call'["main"].om = None
        /\ call'["main"].to_cancel = {} /\ call'["main"].to_destroy = Registered
    BY <1>0, <1>1 DEF Calls
  <1>4. Sweeping("main") /\ Sweeping("main")' /\ call["main"].kind = "run"
    BY <1>1, <1>3 DEF SweepInv, RunSweeps, Sweeping
  <1>5. \A c \in Callers : (Sweeping(c) => c = "main") /\ (Sweeping(c)' => c = "main")
    BY <1>0, <1>2, <1>4, OneSweep DEF Sweeping
  <1>6. /\ MapHoldsTheLiving' /\ LookupsHold' /\ EventsAreAwaited' /\ SinksAreCleared'
        /\ \A m : Settled(m)' <=> Settled(m)
    BY <1>0, <1>1, <1>2, <1>3, SweeperFrame
  <1>7. LockHolder'
    BY <1>0, <1>1, <1>2, Basics DEF SweepInv, LockHolder, LockOf, Sweeping
  <1>8. /\ \A m \in Registered : m \in Managers /\ life[m] = "alive"
        /\ \A m \in Managers : life[m] = "alive" => m \in Registered
    BY <1>0, RegisteredType DEF Registered, SweepInv, MapHoldsTheLiving
  <1>9. \A m \in Managers : life[m] \in {"unborn", "alive", "dead"}
    BY <1>1, <1>5, Basics DEF SweepInv, StoppingIsSwept
  <1>10. RunSweeps'
    BY <1>1, <1>3, <1>4, <1>8, <1>9 DEF RunSweeps
  <1>11. SweepShape'
    BY <1>1, <1>3, <1>4, <1>5, <1>8 DEF SweepShape, ShapeOf
  <1>12. StoppingIsSwept'
    BY <1>1, <1>9 DEF StoppingIsSwept
  <1>13. CancelSettles'
    <2>1. \A m \in Managers : Settled(m)'
      BY <1>1, <1>6 DEF SweepInv, CancelSettles
    <2>2. SettledBehind("main")'
      BY <1>3, <1>8, <2>1 DEF SettledBehind
    <2> QED BY <1>5, <2>1, <2>2 DEF CancelSettles
  <1> QED BY <1>6, <1>7, <1>10, <1>11, <1>12, <1>13 DEF SweepInv

LEMMA DestroyedKeeps ==
    ASSUME EngineTypeOK, SweepInv, Destroyed
    PROVE  SweepInv'
  <1>0. "main" \in Callers /\ "main" \notin Threads /\ call \in [Callers -> Calls]
    BY Basics
  <1>1. /\ run = "destroying" /\ run' = "ended"
        /\ call["main"].pc = "sweeping" /\ call["main"].to_cancel = {}
        /\ call["main"].to_destroy = {}
        /\ call'["main"] = Idle
        /\ \A u \in Callers : u # "main" => call'[u] = call[u]
        /\ UNCHANGED <<managers_, managers_mu_, life, queue_, live, sink, left>>
    BY <1>0 DEF Destroyed, Swept
  <1>2. Sweeping("main") /\ ~Sweeping("main")'
    BY <1>1, IdleFields DEF SweepInv, RunSweeps, Sweeping
  <1>3. \A c \in Callers : ~Sweeping(c)'
    BY <1>0, <1>1, <1>2, OneSweep DEF Sweeping
  <1>4. /\ MapHoldsTheLiving' /\ LookupsHold' /\ EventsAreAwaited' /\ SinksAreCleared'
        /\ \A m : Settled(m)' <=> Settled(m)
    BY <1>0, <1>1, IdleFields, SweeperFrame
  <1>5. LockHolder'
    BY <1>0, <1>1, Basics DEF SweepInv, LockHolder, LockOf, Sweeping
  <1>6. \A m \in Managers : life[m] \in {"unborn", "dead"}
    BY <1>1 DEF SweepInv, RunSweeps
  <1>7. RunSweeps'
    BY <1>1, <1>6 DEF RunSweeps
  <1>8. SweepShape' /\ StoppingIsSwept'
    BY <1>1, <1>3, <1>6 DEF SweepShape, StoppingIsSwept
  <1>9. CancelSettles'
    BY <1>1, <1>3, <1>4 DEF SweepInv, CancelSettles
  <1> QED BY <1>4, <1>5, <1>7, <1>8, <1>9 DEF SweepInv

------------------------------------------------------------------------------
(* The invariant, and what follows from it.                                 *)

LEMMA SweepInit == EngineInit => SweepInv
  <1> SUFFICES ASSUME EngineInit PROVE SweepInv
    OBVIOUS
  <1>0. EngineTypeOK
    BY TypeInit
  <1>1. /\ \A s \in Strategies : managers_[s] = None
        /\ managers_mu_ = None /\ run = "serving"
        /\ \A c \in Callers : call[c] = Idle
        /\ \A m \in Managers : /\ life[m] = "unborn" /\ queue_[m] = <<>>
                               /\ ~live[m] /\ sink[m] = None
    BY DEF EngineInit
  <1>2. \A c \in Callers : ~Sweeping(c)
    BY <1>1, IdleFields DEF Sweeping
  <1>3. MapHoldsTheLiving /\ LookupsHold /\ SinksAreCleared
    BY <1>0, <1>1, Basics, IdleFields DEF MapHoldsTheLiving, LookupsHold, LookupOf, SinksAreCleared, SinkOf
  <1>4. LockHolder
    BY <1>0, <1>1, <1>2, Basics, IdleFields DEF LockHolder, LockOf
  <1>5. RunSweeps
    BY <1>0, <1>1, Basics DEF RunSweeps
  <1>6. SweepShape /\ StoppingIsSwept
    BY <1>1, <1>2 DEF SweepShape, StoppingIsSwept
  <1>7. EventsAreAwaited
    BY <1>1 DEF EventsAreAwaited
  <1>8. CancelSettles
    BY <1>1, <1>2 DEF CancelSettles, Settled
  <1> QED BY <1>3, <1>4, <1>5, <1>6, <1>7, <1>8 DEF SweepInv

LEMMA SweepStep ==
    ASSUME AdapterFeedInv, SweepInv, [EngineAdaptersNext]_adapterEngineVars
    PROVE  SweepInv'
  <1>0. /\ EngineTypeOK /\ RunIsLast /\ PingsEndInTime
        /\ "main" \in Callers /\ \A t \in Threads : t \in Callers
    BY Basics DEF AdapterFeedInv, FeedInv
  <1>1. ASSUME NEW t \in Threads, Arrival(t) PROVE SweepInv'
    <2>1. ASSUME NEW s \in Strategies, stop_strategy(t, s) PROVE SweepInv'
      <3>1. {managers_[s]} \subseteq Registered /\ Kill(t, "stop", {managers_[s]})
        BY <2>1 DEF stop_strategy, Registered
      <3> QED BY <1>0, <3>1, KillKeeps
    <2>2. CASE halt_all(t)
      BY <1>0, <2>2, KillKeeps DEF halt_all
    <2> QED BY <1>0, <1>1, <2>1, <2>2, RegisterKeeps, FindKeeps DEF Arrival
  <1>2. ASSUME NEW c \in Callers, Sweep(c) PROVE SweepInv'
    BY <1>0, <1>2, CancelNextKeeps, CancelledKeeps, BeginDestructionKeeps, EndDestructionKeeps
       DEF Sweep
  <1>3. ASSUME NEW t \in Threads, Proceed(t) PROVE SweepInv'
    <2>1. CASE UseAfterDestruction(t)
      BY <1>0, <2>1, CallEndsKeeps DEF UseAfterDestruction
    <2>2. CASE StopRunning(t)
      BY <1>0, <2>2, CallEndsKeeps DEF StopRunning
    <2> QED BY <1>0, <1>2, <1>3, <2>1, <2>2, ProcessSignalKeeps, SetSinkKeeps, UnlockKeeps
            DEF Proceed
  <1>4. ASSUME NEW m \in Managers, DispatchThread(m) PROVE SweepInv'
    BY <1>0, <1>4, DispatchKeeps, ThreadEndsKeeps DEF DispatchThread
  <1>11. ASSUME NEW m \in Managers, StreamEnds(m) PROVE SweepInv'
    BY <1>0, <1>11, ThreadEndsKeeps
  <1>5. CASE signal_handler
    BY <1>5, StutterKeeps DEF signal_handler
  <1>6. CASE RunThread
    BY <1>0, <1>2, <1>6, BeginShutdownKeeps, CancelAllKeeps, StopAllKeeps, DestroyedKeeps
       DEF RunThread
  <1>7. CASE EngineStep
    BY <1>0, <1>1, <1>3, <1>4, <1>5, <1>6, <1>7, <1>11, ClearStreamKeeps, TickKeeps
       DEF EngineStep, EngineNext
  <1>8. CASE UNCHANGED engineVars
    BY <1>8, StutterKeeps DEF engineVars
  <1>9. ASSUME NEW t \in Threads, AwaitAdapter(t) PROVE SweepInv'
    BY <1>0, <1>9, ReadyKeeps, NotReadyKeeps DEF AwaitAdapter
  <1>10. CASE StopAdapters
    BY <1>8, <1>10 DEF StopAdapters
  <1> QED BY <1>0, <1>7, <1>8, <1>9, <1>10, SpawnKeeps DEF EngineAdaptersNext, adapterEngineVars

\* Nothing runs again.
LEMMA RunStaysEnded ==
    ASSUME EngineNext, run = "ended"
    PROVE  run' = "ended"
  BY DEF EngineNext, Arrival, RegisterStrategy, create_strategy, Find, stop_strategy, halt_all,
         Kill, Proceed, process_signal, set_market_data_sinks, UseAfterDestruction, Sweep,
         CancelNext, Cancelled, BeginDestruction, EndDestruction, Unlock, StopRunning,
         ClearMarketDataStream, DispatchThread, Dispatch, LeaveLoop, StreamEnds, on_tick,
         signal_handler, RunThread, BeginShutdown, cancel_all, stop_all, Destroyed

LEMMA KillSwitchCorrect == EngineAdaptersSpec => []KillSwitchInv
  <1>1. EngineAdaptersInit => KillSwitchInv
    <2>1. EngineInit => PingsEndInTime
      BY DEF EngineInit, PingsEndInTime, Idle, Callers
    <2> QED BY <2>1, FeedInit, SweepInit
            DEF EngineAdaptersInit, AdapterFeedInv, KillSwitchInv, AdaptersLast
  <1>2. KillSwitchInv /\ [EngineAdaptersNext]_adapterEngineVars => KillSwitchInv'
    <2> SUFFICES ASSUME KillSwitchInv, [EngineAdaptersNext]_adapterEngineVars
                 PROVE  KillSwitchInv'
      OBVIOUS
    <2>1. AdapterFeedInv' /\ SweepInv'
      BY AdapterFeedStep, SweepStep DEF KillSwitchInv
    \* Run() ends once, and nothing is left to do then.
    <2>2. AdaptersLast'
      <3>1. CASE EngineStep
        <4>1. adapter' = adapter
          BY <3>1 DEF EngineStep
        <4>2. run = "ended" => run' = "ended"
          BY <3>1, RunStaysEnded DEF EngineStep
        <4> QED BY <4>1, <4>2 DEF KillSwitchInv, AdaptersLast
      <3>2. CASE UNCHANGED adapterEngineVars
        BY <3>2 DEF adapterEngineVars, engineVars, KillSwitchInv, AdaptersLast
      <3>3. ASSUME NEW t \in Threads, NEW s \in Strategies, spawn(t, s) PROVE AdaptersLast'
        BY <3>3 DEF spawn, KillSwitchInv, AdaptersLast
      <3>4. ASSUME NEW t \in Threads, AdapterNotReady(t) PROVE AdaptersLast'
        BY <3>4 DEF AdapterNotReady, create_strategy, KillSwitchInv, AdaptersLast
      <3>5. ASSUME NEW t \in Threads, AdapterReady(t) PROVE AdaptersLast'
        BY <3>5 DEF AdapterReady, AdaptersLast
      <3>6. CASE StopAdapters
        BY <3>6 DEF StopAdapters, engineVars, AdaptersLast
      <3> QED BY <3>1, <3>2, <3>3, <3>4, <3>5, <3>6 DEF EngineAdaptersNext, AwaitAdapter
    <2> QED BY <2>1, <2>2 DEF KillSwitchInv
  <1> QED BY <1>1, <1>2, PTL DEF EngineAdaptersSpec

(* The kill switch leaves nothing that can execute.  However calls, signals,  *)
(* cancellations, destructors and registrations interleave, an order manager  *)
(* that was destroyed has no order that can still execute but those that its  *)
(* cancel_all left (no broker id, or the cancellation was not accepted), and  *)
(* those of a call that held its pointer and queued a signal after the kill   *)
(* switch had taken the lock.                                                 *)
THEOREM KilledStrategiesAreQuiet == EngineAdaptersSpec => []KilledStrategiesLeaveNothingLive
  <1>1. KillSwitchInv => KilledStrategiesLeaveNothingLive
    BY DEF KillSwitchInv, SweepInv, CancelSettles, Settled, Gone, KilledStrategiesLeaveNothingLive
  <1> QED BY <1>1, KillSwitchCorrect, PTL

(* The writer of a stream (a stack object of StreamMarketData) outlives the   *)
(* manager's use of it: also when the strategy was killed and registered      *)
(* again before the stream ended.                                             *)
THEOREM WritersOutliveTheirUse == EngineAdaptersSpec => []WritersAreAlive
  <1>1. KillSwitchInv => WritersAreAlive
    BY DEF KillSwitchInv, SweepInv, SinksAreCleared, SinkOf, Served, WritersAreAlive
  <1> QED BY <1>1, KillSwitchCorrect, PTL

(* When Run() has cancelled, no order can execute but those that a cancel_all *)
(* left and those of the calls above: what was registered during HALT_ALL, or *)
(* after it, is cancelled by Run() itself.                                    *)
THEOREM RunLeavesNothingLive == EngineAdaptersSpec => []NothingLiveAfterRun
  <1>1. KillSwitchInv => NothingLiveAfterRun
    BY IdleFields DEF KillSwitchInv, SweepInv, CancelSettles, RunSweeps, Settled, NothingLiveAfterRun
  <1> QED BY <1>1, KillSwitchCorrect, PTL

(* Adapters are stopped after everything that talks to them: the managers are *)
(* gone, the feed has been joined and no call is in progress.                 *)
THEOREM AdaptersStopLast == EngineAdaptersSpec => []AdaptersOutliveTheirUsers
  <1>1. KillSwitchInv => AdaptersOutliveTheirUsers
    <2> SUFFICES ASSUME KillSwitchInv, adapter = "stopped"
                 PROVE  /\ \A m \in Managers : life[m] \in {"unborn", "dead"}
                        /\ feed # "running"
                        /\ \A t \in Threads : call[t] = Idle
      BY DEF AdaptersOutliveTheirUsers
    <2>1. run = "ended" /\ EngineTypeOK /\ RunIsLast
      BY DEF KillSwitchInv, AdaptersLast, AdapterFeedInv, FeedInv
    <2>2. feed # "running"
      BY <2>1 DEF RunIsLast
    <2>3. \A t \in Threads : call[t] = Idle
      BY <2>1 DEF KillSwitchInv, SweepInv, LockHolder, LockOf
    <2>4. call["main"].to_destroy = {}
      BY <2>1, IdleFields DEF KillSwitchInv, SweepInv, RunSweeps
    <2>5. \A m \in Managers : life[m] \in {"unborn", "dead"}
      BY <2>1, <2>4, Basics DEF KillSwitchInv, SweepInv, RunSweeps
    <2> QED BY <2>2, <2>3, <2>5
  <1> QED BY <1>1, KillSwitchCorrect, PTL
==============================================================================
