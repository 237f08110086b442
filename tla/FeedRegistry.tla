---------------------------- MODULE FeedRegistry -----------------------------
(***************************************************************************)
(* FeedRegistry with one feed, simulated or of an adapter: managers        *)
(* subscribe, are unregistered, receive ticks and bars, and the feed is    *)
(* stopped.  feed_mu_ is held exclusively in every change of the           *)
(* subscriptions and shared in every delivery.                             *)
(*                                                                         *)
(* SimulatedFeed::unsubscribe has no caller in the engine.  The model      *)
(* calls it for subscriptions the registry no longer has, which            *)
(* unregister_manager leaves behind in the feed.                           *)
(***************************************************************************)
EXTENDS SimulatedFeed, AdapterFeed

CONSTANTS Managers,
          MaxSubscriptions  \* bound: subscriptions made

ASSUME RegistryAssumption ==
    /\ IsFiniteSet(Managers)
    /\ MaxSubscriptions \in Nat

VARIABLES
    kind,       \* which feed was registered, None before
    running_,
    tick_subs_, \* per symbol and manager: how often the manager is in the list
    bar_subs_,  \* per key and manager
    last_tick,  \* history: number of the last tick of a symbol a manager received
    made        \* number of subscriptions made

registryVars == <<kind, running_, tick_subs_, bar_subs_, last_tick, made>>
marketVars == <<feedVars, adapterFeedVars, registryVars>>

MarketInit ==
    /\ FeedInit
    /\ AdapterFeedInit
    /\ kind = None
    /\ running_ = TRUE
    /\ tick_subs_ = [s \in Symbols |-> [m \in Managers |-> 0]]
    /\ bar_subs_ = [k \in Keys |-> [m \in Managers |-> 0]]
    /\ last_tick = [m \in Managers |-> [s \in Symbols |-> 0]]
    /\ made = 0

\* register_feed: the feed is started at once, before any subscription.
register_feed(k) ==
    /\ kind = None
    /\ running_
    /\ kind' = k
    /\ IF k = "adapter" THEN Start ELSE UNCHANGED adapterFeedVars
    /\ UNCHANGED <<feedVars, running_, tick_subs_, bar_subs_, last_tick, made>>

\* register_subscription: what subscribe() throws leaves the lists alone.
register_subscription(m, symbol, period) ==
    /\ kind # None /\ running_ /\ ~crashed
    /\ made < MaxSubscriptions
    /\ made' = made + 1
    /\ IF kind = "simulated"
       THEN /\ IF period = None THEN SubscribeTicks(symbol) ELSE SubscribeBars(symbol, period)
            /\ UNCHANGED <<emit, crashed, tape, adapterFeedVars>>
       ELSE AdapterSubscribe(symbol, period) /\ UNCHANGED feedVars
    /\ IF period = None
       THEN /\ tick_subs_' = [tick_subs_ EXCEPT ![symbol][m] = @ + 1]
            /\ UNCHANGED bar_subs_
       ELSE /\ bar_subs_' = IF kind = "simulated" /\ Throws(symbol, period) THEN bar_subs_
                            ELSE [bar_subs_ EXCEPT ![<<symbol, period>>][m] = @ + 1]
            /\ UNCHANGED tick_subs_
    /\ UNCHANGED <<kind, running_, last_tick>>

\* m may then stand for the manager of a strategy registered anew.
unregister_manager(m) ==
    /\ tick_subs_' = [s \in Symbols |-> [tick_subs_[s] EXCEPT ![m] = 0]]
    /\ bar_subs_' = [k \in Keys |-> [bar_subs_[k] EXCEPT ![m] = 0]]
    /\ last_tick' = [last_tick EXCEPT ![m] = [s \in Symbols |-> 0]]
    /\ UNCHANGED <<feedVars, adapterFeedVars, kind, running_, made>>

Registered(list) == MapThenSumSet(LAMBDA m : list[m], Managers)

unsubscribe(symbol, period) ==
    /\ kind = "simulated" /\ running_ /\ ~crashed
    /\ IF period = None
       THEN tick_subscriptions_[symbol] > Registered(tick_subs_[symbol]) /\ UnsubscribeTicks(symbol)
       ELSE /\ bar_subscriptions_[<<symbol, period>>] > Registered(bar_subs_[<<symbol, period>>])
            /\ UnsubscribeBars(symbol, period)
    /\ UNCHANGED <<emit, crashed, tape, adapterFeedVars, registryVars>>

on_tick(symbol, n) ==
    last_tick' = [m \in Managers |->
        IF tick_subs_[symbol][m] > 0 THEN [last_tick[m] EXCEPT ![symbol] = n] ELSE last_tick[m]]

\* The emitting thread of a simulated feed.
emit_loop ==
    /\ kind = "simulated" /\ running_
    /\ \/ \E now \in StartTime .. MaxTime : Snapshot(now) /\ UNCHANGED last_tick
       \/ \E symbol \in Symbols, last \in Prices : Price(symbol, last) /\ UNCHANGED last_tick
       \/ /\ HandleTick
          /\ IF TickWanted(emit) THEN on_tick(emit.tick.symbol, emit.tick.n)
             ELSE UNCHANGED last_tick
       \/ emit.pc = "closing" /\ (\E bar \in emit.bars : HandleBar(bar)) /\ UNCHANGED last_tick
    /\ UNCHANGED <<adapterFeedVars, kind, running_, tick_subs_, bar_subs_, made>>

\* The stream thread of an adapter's feed, and the connection.
StreamLoop == kind = "adapter" /\ ~crashed /\ run_stream /\ UNCHANGED <<feedVars, registryVars>>

ConnectionBreaks == LinkBreaks /\ UNCHANGED <<feedVars, registryVars>>

\* Copying subscriptions_ while it is changed may also end the process.
TornCopyCrashes ==
    /\ torn /\ stream.pc = "opening" /\ ~crashed
    /\ crashed' = TRUE
    /\ UNCHANGED <<subscriptions, accumulators_, emit, tape, since, closed, badPeriods,
                   adapterFeedVars, registryVars>>

\* SimulatedFeed::stop waits for the thread, which ends its pass over the symbols;
\* GrpcMarketDataFeed::stop does not. No subscription is made afterwards: the
\* server is shut down before.
stop_all ==
    /\ running_
    /\ kind = "simulated" => emit.pc = "idle"
    /\ running_' = FALSE
    /\ IF kind = "adapter" THEN Stop ELSE UNCHANGED adapterFeedVars
    /\ UNCHANGED <<feedVars, kind, tick_subs_, bar_subs_, last_tick, made>>

MarketNext ==
    \/ \E k \in {"simulated", "adapter"} : register_feed(k)
    \/ \E m \in Managers, symbol \in Symbols, period \in Periods \cup {None} :
           register_subscription(m, symbol, period)
    \/ \E m \in Managers : unregister_manager(m)
    \/ \E symbol \in Symbols, period \in Periods \cup {None} : unsubscribe(symbol, period)
    \/ emit_loop
    \/ StreamLoop
    \/ ConnectionBreaks
    \/ TornCopyCrashes
    \/ stop_all

MarketSpec == MarketInit /\ [][MarketNext]_marketVars

\* The thread of the adapter's stream runs; prices, subscriptions and failures of
\* the connection may come or not.
MarketFairness == WF_marketVars(StreamLoop)

------------------------------------------------------------------------------
\* A manager the registry has in a list is served: the feed makes prices for
\* its symbol and counts at least the subscriptions of the list, whichever
\* subscriptions failed, were cancelled or belonged to managers that are gone.
SubscribersAreFed ==
    /\ kind = "simulated" =>
           /\ \A s \in Symbols :
                  /\ tick_subscriptions_[s] >= Registered(tick_subs_[s])
                  /\ Registered(tick_subs_[s]) > 0 => s \in symbols_
           /\ \A k \in Keys :
                  Registered(bar_subs_[k]) > 0 => k[1] \in symbols_ /\ k \in DOMAIN accumulators_
    /\ kind = "adapter" =>
           \A k \in Keys :
               Registered(bar_subs_[k]) > 0 => k[2] \in Periods_Of(subscriptions_, k[1])

\* Once a manager subscribed to the ticks of a symbol has been handed one, it
\* is handed every following one in order: only the one being delivered is
\* missing. (The first may be missed: tick subscriptions are copied when a pass
\* over the symbols begins.)
TicksArriveWithoutGaps ==
    \A s \in Symbols, m \in Managers :
        (tick_subs_[s][m] > 0 /\ last_tick[m][s] > 0) =>
            \/ last_tick[m][s] = Len(tape[s])
            \/ /\ emit.pc = "ticking" /\ emit.tick.symbol = s
               /\ last_tick[m][s] = Len(tape[s]) - 1
            \/ crashed

\* The process dies in a feed only after a period that period_to_ns rejects was
\* asked for, or when a subscription was made while the stream thread copied
\* the list.
CrashesAreExplained == crashed => badPeriods \/ torn

\* A stream that is opened again asks the adapter for everything subscribed
\* until then, also for what was subscribed while the last one was open.
ReconnectionRequestsAll ==
    \A k \in Keys :
        (stream.pc = "sleeping" /\ k[2] \in Periods_Of(subscriptions_, k[1]))
            ~> (k[2] \in Periods_Of(requested, k[1]) \/ stream.stop \/ torn)

\* The stream thread exits after stop(), unless stop() came between its test of
\* the stop token and its new context: then it reads until the adapter ends
\* the stream.
StopEndsUnlessMissed == stream.stop ~> (stream.pc = "exited" \/ stream.missed \/ crashed)
==============================================================================
