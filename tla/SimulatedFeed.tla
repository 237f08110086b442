---------------------------- MODULE SimulatedFeed ----------------------------
(***************************************************************************)
(* SimulatedFeed: subscriptions counted per symbol and per (symbol,        *)
(* period), and a thread that makes up a price for every symbol, adds it   *)
(* to the bars being built and hands ticks and completed bars to its       *)
(* handlers.  data_mu_ is held in each step and never across two of them.  *)
(*                                                                         *)
(* Prices are chosen freely and every tick has the same size, 1 here.      *)
(***************************************************************************)
EXTENDS Rationals, Sequences, FiniteSets, FiniteSetsExt

CONSTANTS Symbols, Prices,
          Periods,    \* bar periods clients ask for, [amount, unit]
          StartTime,  \* the earliest time the clock shows, in seconds since 1970
          MaxTime,    \* bound: the latest
          MaxTicks    \* bound: ticks of one symbol

ASSUME FeedAssumption ==
    /\ Prices \subseteq Nat \ {0}
    /\ {StartTime, MaxTime, MaxTicks} \subseteq Nat \ {0}
    /\ \A p \in Periods : p.amount \in Int

VARIABLES
    symbols_,             \* symbols that need prices
    tick_subscriptions_,  \* count of tick subscriptions, per symbol
    bar_subscriptions_,   \* count of bar subscriptions, per (symbol, period)
    accumulators_,        \* the bar being built, per (symbol, period) in its domain
    emit,                 \* where the emitting thread is in its loop
    crashed,              \* the process died of a division by zero
    tape,                 \* history: every tick, per symbol
    since,                \* history: length of the tape when an accumulator was made
    closed,               \* history: volume of the bars completed, per (symbol, period)
    badPeriods            \* history: an invalid period has been asked for

subscriptions == <<symbols_, tick_subscriptions_, bar_subscriptions_>>
feedVars == <<subscriptions, accumulators_, emit, crashed, tape, since, closed, badPeriods>>

Keys == Symbols \X Periods

UnitLength == [s |-> 1, m |-> 60, h |-> 3600, d |-> 86400]

\* period_to_ns throws for anything else.
ValidPeriod(p) == p.amount > 0 /\ p.unit \in DOMAIN UnitLength

\* Faulty: the length is taken in minutes, which makes short periods 0.
period_to_ns_Minutes(p) == (p.amount * UnitLength[p.unit]) \div 60

period_to_ns(p) == p.amount * UnitLength[p.unit]

\* A bar_start_ns of 0 means that no bar is being built. No bar begins at 0 as
\* long as the clock is past the first period after 1970.
ASSUME ClockAssumption ==
    \A p \in Periods : ValidPeriod(p) => period_to_ns(p) <= StartTime

align_to_period_start(ts, period) == (ts \div period) * period

NoBar == [open |-> 0]
EmptyAccumulator == [period_ns |-> 0, bar_start_ns |-> 0, bar |-> NoBar, notional |-> 0,
                     volume |-> 0]

start_bar(acc, symbol, period, tick) ==
    LET start == align_to_period_start(tick.ts, acc.period_ns)
    IN  [period_ns |-> acc.period_ns, bar_start_ns |-> start, notional |-> tick.last, volume |-> 1,
         bar |-> [symbol |-> symbol, period |-> period, open |-> tick.last, high |-> tick.last,
                  low |-> tick.last, close |-> tick.last, volume |-> 1,
                  vwap |-> Rat(tick.last), ts |-> start]]

update_bar(acc, tick) ==
    LET notional == acc.notional + tick.last
        volume == acc.volume + 1
    IN  [acc EXCEPT !.notional = notional, !.volume = volume,
                    !.bar.high = Max({acc.bar.high, tick.last}),
                    !.bar.low = Min({acc.bar.low, tick.last}),
                    !.bar.close = tick.last,
                    !.bar.volume = acc.bar.volume + 1,
                    !.bar.vwap = Ratio(notional, volume)]

FeedInit ==
    /\ symbols_ = {}
    /\ tick_subscriptions_ = [s \in Symbols |-> 0]
    /\ bar_subscriptions_ = [k \in Keys |-> 0]
    /\ accumulators_ = <<>>
    /\ emit = [pc |-> "idle"]
    /\ crashed = FALSE
    /\ tape = [s \in Symbols |-> <<>>]
    /\ since = [k \in Keys |-> 0]
    /\ closed = [k \in Keys |-> 0]
    /\ badPeriods = FALSE

------------------------------------------------------------------------------
\* subscribe(symbol) for ticks.
SubscribeTicks(symbol) ==
    /\ symbols_' = symbols_ \cup {symbol}
    /\ tick_subscriptions_' = [tick_subscriptions_ EXCEPT ![symbol] = @ + 1]
    /\ UNCHANGED <<bar_subscriptions_, accumulators_, since, closed, badPeriods>>

\* subscribe(symbol, period): the count and the accumulator exist before
\* period_to_ns throws, which leaves a period of zero behind. A second call
\* for the same key finds the accumulator and does not throw.
SubscribeBars(symbol, period) ==
    LET key == <<symbol, period>>
        inserted == key \notin DOMAIN accumulators_
        length == IF ValidPeriod(period) THEN period_to_ns(period) ELSE 0
    IN  /\ symbols_' = symbols_ \cup {symbol}
        /\ bar_subscriptions_' = [bar_subscriptions_ EXCEPT ![key] = @ + 1]
        /\ IF inserted
           THEN /\ accumulators_' = [k \in DOMAIN accumulators_ \cup {key} |->
                        IF k = key THEN [EmptyAccumulator EXCEPT !.period_ns = length]
                        ELSE accumulators_[k]]
                /\ since' = [since EXCEPT ![key] = Len(tape[symbol])]
                /\ closed' = [closed EXCEPT ![key] = 0]
           ELSE UNCHANGED <<accumulators_, since, closed>>
        /\ badPeriods' = (badPeriods \/ ~ValidPeriod(period))
        /\ UNCHANGED tick_subscriptions_

\* The exception of subscribe(symbol, period).
Throws(symbol, period) == <<symbol, period>> \notin DOMAIN accumulators_ /\ ~ValidPeriod(period)

StillSubscribed(symbol, ticks, bars) ==
    ticks[symbol] > 0 \/ \E p \in Periods : bars[<<symbol, p>>] > 0

UnsubscribeTicks(symbol) ==
    /\ tick_subscriptions_' = [tick_subscriptions_ EXCEPT ![symbol] = IF @ > 0 THEN @ - 1 ELSE 0]
    /\ symbols_' = IF StillSubscribed(symbol, tick_subscriptions_', bar_subscriptions_)
                   THEN symbols_ ELSE symbols_ \ {symbol}
    /\ UNCHANGED <<bar_subscriptions_, accumulators_, since, closed, badPeriods>>

\* Faulty: one cancellation ends all subscriptions of the key.
UnsubscribeBars_Uncounted(symbol, period) ==
    LET key == <<symbol, period>>
    IN  /\ bar_subscriptions_' = [bar_subscriptions_ EXCEPT ![key] = 0]
        /\ accumulators_' = [k \in DOMAIN accumulators_ \ {key} |-> accumulators_[k]]
        /\ symbols_' = IF StillSubscribed(symbol, tick_subscriptions_, bar_subscriptions_')
                       THEN symbols_ ELSE symbols_ \ {symbol}
        /\ UNCHANGED <<tick_subscriptions_, since, closed, badPeriods>>

UnsubscribeBars(symbol, period) ==
    LET key == <<symbol, period>>
        last == bar_subscriptions_[key] = 1
    IN  /\ bar_subscriptions_' = [bar_subscriptions_ EXCEPT ![key] = IF @ > 0 THEN @ - 1 ELSE 0]
        /\ accumulators_' = IF last THEN [k \in DOMAIN accumulators_ \ {key} |-> accumulators_[k]]
                            ELSE accumulators_
        /\ symbols_' = IF StillSubscribed(symbol, tick_subscriptions_, bar_subscriptions_')
                       THEN symbols_ ELSE symbols_ \ {symbol}
        /\ UNCHANGED <<tick_subscriptions_, since, closed, badPeriods>>

------------------------------------------------------------------------------
\* emit_loop

emitUnchanged == <<subscriptions, crashed, since, badPeriods>>

\* The top of the loop: symbols and tick subscriptions are copied, the clock is
\* read. It is the system's and may have been set back since the last pass.
Snapshot(now) ==
    /\ emit.pc = "idle"
    /\ symbols_ # {}
    /\ \A s \in symbols_ : Len(tape[s]) < MaxTicks
    /\ emit' = [pc |-> "pricing", symbols |-> symbols_, now |-> now,
                ticks |-> {s \in Symbols : tick_subscriptions_[s] > 0}]
    /\ UNCHANGED <<emitUnchanged, accumulators_, tape, closed>>

BuildsFor(symbol) == {k \in DOMAIN accumulators_ : k[1] = symbol}

\* Faulty: off by one at the end of a period.
Completes_Late(k, tick) ==
    /\ accumulators_[k].bar_start_ns # 0
    /\ tick.ts > accumulators_[k].bar_start_ns + accumulators_[k].period_ns

Completes(k, tick) ==
    /\ accumulators_[k].bar_start_ns # 0
    /\ tick.ts >= accumulators_[k].bar_start_ns + accumulators_[k].period_ns

\* Faulty: the tick that completes a bar does not start the next.
Accumulate_Dropping(k, tick) ==
    IF accumulators_[k].bar_start_ns = 0
    THEN start_bar(accumulators_[k], k[1], k[2], tick)
    ELSE IF Completes(k, tick) THEN [accumulators_[k] EXCEPT !.bar_start_ns = 0]
    ELSE update_bar(accumulators_[k], tick)

Accumulate(k, tick) ==
    IF accumulators_[k].bar_start_ns = 0 \/ Completes(k, tick)
    THEN start_bar(accumulators_[k], k[1], k[2], tick)
    ELSE update_bar(accumulators_[k], tick)

\* One symbol of the copy gets a price and its bars the tick; aligning to a
\* period of zero divides by zero.
Price(symbol, last) ==
    LET tick == [symbol |-> symbol, last |-> last, ts |-> emit.now,
                 n |-> Len(tape[symbol]) + 1]
        done == {k \in BuildsFor(symbol) : Completes(k, tick)}
    IN  /\ emit.pc = "pricing"
        /\ symbol \in emit.symbols
        /\ IF \E k \in BuildsFor(symbol) : accumulators_[k].period_ns = 0
           THEN /\ crashed' = TRUE
                /\ emit' = [pc |-> "dead"]
                /\ UNCHANGED <<accumulators_, tape, closed>>
           ELSE /\ tape' = [tape EXCEPT ![symbol] = Append(@, tick)]
                /\ accumulators_' = [k \in DOMAIN accumulators_ |->
                       IF k \in BuildsFor(symbol) THEN Accumulate(k, tick) ELSE accumulators_[k]]
                /\ closed' = [k \in Keys |-> IF k \in done
                                             THEN closed[k] + accumulators_[k].bar.volume
                                             ELSE closed[k]]
                /\ emit' = [pc |-> "ticking", symbols |-> emit.symbols \ {symbol},
                            now |-> emit.now, ticks |-> emit.ticks, tick |-> tick,
                            bars |-> {accumulators_[k].bar : k \in done}]
                /\ UNCHANGED crashed
        /\ UNCHANGED <<subscriptions, since, badPeriods>>

AfterBars(e) == IF e.symbols = {} THEN [pc |-> "idle"]
                ELSE [pc |-> "pricing", symbols |-> e.symbols, now |-> e.now, ticks |-> e.ticks]

AfterTick(e) == IF e.bars = {} THEN AfterBars(e) ELSE [e EXCEPT !.pc = "closing"]

\* Faulty: a tick that completes a bar is not handed on.
TickWanted_Unless(e) == e.tick.symbol \in e.ticks /\ e.bars = {}

\* tick_handler_ is called for the symbols that had tick subscriptions when
\* the pass began.
TickWanted(e) == e.tick.symbol \in e.ticks

HandleTick ==
    /\ emit.pc = "ticking"
    /\ emit' = AfterTick(emit)
    /\ UNCHANGED <<emitUnchanged, accumulators_, tape, closed>>

HandleBar(bar) ==
    /\ emit.pc = "closing"
    /\ bar \in emit.bars
    /\ emit' = AfterTick([emit EXCEPT !.bars = @ \ {bar}])
    /\ UNCHANGED <<emitUnchanged, accumulators_, tape, closed>>

------------------------------------------------------------------------------
\* The ticks that belong to a bar: all from the first one since its accumulator
\* was made that has reached the beginning of its period. A tick that comes
\* after the clock was set back joins them, wherever it lies.
TicksOf(bar) ==
    LET ts(i) == tape[bar.symbol][i].ts
        first == since[<<bar.symbol, bar.period>>] + 1
    IN  {i \in first .. Len(tape[bar.symbol]) : \E j \in first .. i : ts(j) >= bar.ts}

EndsAfter(bar, ticks) ==
    \A i \in ticks : tape[bar.symbol][i].ts < bar.ts + period_to_ns(bar.period)

Summarises(bar, ticks) ==
    LET last(i) == tape[bar.symbol][i].last
    IN  /\ ticks # {}
        /\ bar.open = last(Min(ticks))
        /\ bar.close = last(Max(ticks))
        /\ bar.high = Max({last(i) : i \in ticks})
        /\ bar.low = Min({last(i) : i \in ticks})
        /\ bar.volume = Cardinality(ticks)
        /\ RatEq(RatScale(bar.volume, bar.vwap), Rat(MapThenSumSet(last, ticks)))

Building == {k \in DOMAIN accumulators_ : accumulators_[k].bar_start_ns # 0}

\* The bar being built is at every moment the open, high, low, close, volume and
\* volume-weighted price of exactly the ticks from the first one that reached its
\* period, and none of them is past the period's end, whichever periods of the
\* same symbol are built beside it, whenever the subscription was made and
\* wherever the clock steps. While the clock is not set back these are the ticks
\* of the period; after a step back they include ticks from before it, which the
\* code adds to the bar it is building.
BarsSummariseTheirTicks ==
    \A k \in Building :
        LET bar == accumulators_[k].bar
        IN  Summarises(bar, TicksOf(bar)) /\ EndsAfter(bar, TicksOf(bar))

\* Every tick since a subscription is in one bar and in no other: the bars
\* completed and the one being built share them out.
NoTickIsLost ==
    \A k \in Building :
        closed[k] + accumulators_[k].bar.volume = Len(tape[k[1]]) - since[k]
==============================================================================
