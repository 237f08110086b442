--------------------------- MODULE MarketDataProofs --------------------------
(***************************************************************************)
(* Theorems about market data: the bars a simulated feed builds, the       *)
(* subscriptions it keeps for the registry, and the ticks the registry     *)
(* hands to the order managers.                                            *)
(***************************************************************************)
EXTENDS FeedRegistry, Arithmetic, SequenceTheorems

------------------------------------------------------------------------------
(* The bar of one accumulator.                                              *)

Bar == [symbol : Symbols, period : Periods, open : Nat, high : Nat, low : Nat, close : Nat,
        volume : Nat, vwap : Rational, ts : Nat]

Accumulator == [period_ns : Nat, bar_start_ns : Nat, bar : Bar \cup {NoBar}, notional : Nat,
                volume : Nat]

Tick == [symbol : Symbols, last : Nat, ts : Nat, n : Nat]

LengthOf(period) == IF ValidPeriod(period) THEN period_to_ns(period) ELSE 0

Lasts(list) == [i \in 1 .. Len(list) |-> list[i].last]

\* The index of the first tick of the bar: its ticks are the last of the tape.
First(acc, list) == Len(list) - acc.volume + 1

\* The bar is that of the last ticks of the tape, none past the end of its
\* period and the first one not before its beginning; c ticks since the
\* accumulator was made, when the tape had length s, are older.
Builds(acc, key, list, s, c) ==
    /\ acc.bar \in Bar
    /\ acc.bar.symbol = key[1] /\ acc.bar.period = key[2]
    /\ acc.bar.ts = acc.bar_start_ns /\ acc.bar.volume = acc.volume
    /\ acc.volume > 0 /\ c + acc.volume = Len(list) - s
    /\ acc.period_ns > 0 /\ \E a \in Nat : acc.bar_start_ns = a * acc.period_ns
    /\ acc.bar_start_ns <= list[First(acc, list)].ts
    /\ \A i \in First(acc, list) .. Len(list) :
          /\ list[i].ts < acc.bar_start_ns + acc.period_ns
          /\ acc.bar.low <= list[i].last /\ list[i].last <= acc.bar.high
    /\ \A i \in s + 1 .. First(acc, list) - 1 : list[i].ts < acc.bar_start_ns
    /\ acc.bar.open = list[First(acc, list)].last /\ acc.bar.close = list[Len(list)].last
    /\ \E i \in First(acc, list) .. Len(list) : list[i].last = acc.bar.low
    /\ \E i \in First(acc, list) .. Len(list) : list[i].last = acc.bar.high
    /\ acc.notional = Sum(Lasts(list), First(acc, list) .. Len(list))
    /\ Represents(acc.bar.vwap, acc.notional, acc.volume)

Fits(acc, key, list, s, c) ==
    /\ acc \in Accumulator
    /\ acc.period_ns = LengthOf(key[2])
    /\ IF acc.bar_start_ns = 0 THEN c = 0 /\ s = Len(list) ELSE Builds(acc, key, list, s, c)

LEMMA AppendTick ==
    ASSUME NEW list \in Seq(Tick), NEW tick \in Tick
    PROVE  /\ Append(list, tick) \in Seq(Tick)
           /\ Len(list) \in Nat /\ Len(Append(list, tick)) = Len(list) + 1
           /\ \A i \in 1 .. Len(list) : Append(list, tick)[i] = list[i] /\ list[i] \in Tick
           /\ Append(list, tick)[Len(list) + 1] = tick
           /\ Lasts(list) \in [1 .. Len(list) -> Nat]
           /\ \A i \in 1 .. Len(list) : Lasts(Append(list, tick))[i] = Lasts(list)[i]
           /\ Lasts(Append(list, tick))[Len(list) + 1] = tick.last
<1>1. /\ Append(list, tick) \in Seq(Tick)
      /\ Len(list) \in Nat /\ Len(Append(list, tick)) = Len(list) + 1
      /\ \A i \in 1 .. Len(list) : Append(list, tick)[i] = list[i] /\ list[i] \in Tick
      /\ Append(list, tick)[Len(list) + 1] = tick
  BY AppendProperties, LenProperties, ElementOfSeq
<1>2. \A i \in 1 .. Len(list) : list[i].last \in Nat
  BY <1>1 DEF Tick
<1>3. \A i \in 1 .. Len(list) : i \in 1 .. Len(list) + 1
  BY <1>1
<1>4. Len(list) + 1 \in 1 .. Len(list) + 1
  BY <1>1
<1>5. Lasts(list) \in [1 .. Len(list) -> Nat]
  BY <1>2 DEF Lasts
<1>6. /\ \A i \in 1 .. Len(list) : Lasts(Append(list, tick))[i] = Lasts(list)[i]
      /\ Lasts(Append(list, tick))[Len(list) + 1] = tick.last
  BY <1>1, <1>3, <1>4 DEF Lasts
<1> QED
  BY <1>1, <1>5, <1>6

\* A period begins at the last multiple of its length, which is not 0.
LEMMA AlignedStart ==
    ASSUME NEW ts \in Nat, NEW period \in Nat, period > 0, period <= ts
    PROVE  LET begin == align_to_period_start(ts, period)
           IN  /\ begin \in Nat /\ begin > 0 /\ \E a \in Nat : begin = a * period
               /\ begin <= ts /\ ts < begin + period
               /\ \A b \in Nat : b * period <= ts => b * period <= begin
<1> DEFINE a == ts \div period
<1>1. a \in Int /\ ts = period * a + (ts % period) /\ ts % period \in 0 .. period - 1
  OBVIOUS
<1>2. align_to_period_start(ts, period) = a * period
  BY DEF align_to_period_start
<1> HIDE DEF a
<1>3. a * period \in Int /\ a * period <= ts /\ ts < a * period + period
  <2>1. a * period = period * a /\ a * period \in Int
    BY <1>1
  <2> QED
    BY <1>1, <2>1
<1>4. a > 0
  <2>1. a <= 0 => a * period <= 0
    BY <1>1
  <2> QED
    BY <1>1, <1>3, <2>1
<1>5. a * period > 0
  BY <1>1, <1>4
<1>6. ASSUME NEW b \in Nat, b * period <= ts
      PROVE  b * period <= a * period
  <2>1. CASE b <= a
    BY <1>1, <2>1
  <2>2. CASE b > a
    <3>1. (b - a) * period >= period
      BY <1>1, <2>2
    <3>2. b * period = a * period + (b - a) * period
      BY <1>1
    <3> QED
      BY <1>1, <1>3, <1>6, <3>1, <3>2
  <2> QED
    BY <1>1, <2>1, <2>2
<1> QED
  BY <1>1, <1>2, <1>3, <1>4, <1>5, <1>6

\* What period_to_ns accepts has a length, and the clock is past it.
LEMMA PeriodLength ==
    ASSUME NEW p \in Periods
    PROVE  /\ LengthOf(p) \in Nat
           /\ ValidPeriod(p) => LengthOf(p) > 0 /\ LengthOf(p) <= StartTime
           /\ ~ValidPeriod(p) => LengthOf(p) = 0
<1>1. p.amount \in Int
  BY FeedAssumption
<1>2. ASSUME ValidPeriod(p)
      PROVE  period_to_ns(p) \in Nat /\ period_to_ns(p) > 0
  <2>1. p.amount > 0 /\ p.unit \in {"s", "m", "h", "d"}
    BY <1>2 DEF ValidPeriod, UnitLength
  <2>2. UnitLength[p.unit] \in {1, 60, 3600, 86400}
    BY <2>1 DEF UnitLength
  <2> QED
    BY <1>1, <2>1, <2>2 DEF period_to_ns
<1> QED
  BY <1>2, ClockAssumption DEF LengthOf

\* One tick has the sum of its own price.
LEMMA SumOfOne ==
    ASSUME NEW x \in Int, NEW w, w[x] \in Int
    PROVE  Sum(w, x .. x) = w[x]
<1>1. x .. x = {x} /\ IsFiniteSet({x}) /\ {x} \ {x} = {}
  <2>1. x .. x = {x}
    OBVIOUS
  <2>2. IsFiniteSet({x})
    BY FS_Singleton
  <2> QED
    BY <2>1, <2>2
<1>2. \A y \in {x} : w[y] \in Int
  OBVIOUS
<1>3. Sum(w, {x}) = w[x] + Sum(w, {})
  BY <1>1, <1>2, SumRemove
<1> QED
  BY <1>1, <1>3, SumEmpty

\* start_bar makes the bar of the tick alone.
LEMMA StartFits ==
    ASSUME NEW key \in Keys, NEW acc \in Accumulator, acc.period_ns = LengthOf(key[2]),
           acc.period_ns > 0, NEW tick \in Tick, StartTime <= tick.ts,
           NEW list \in Seq(Tick), NEW s \in Nat, NEW c \in Nat, c = Len(list) - s,
           \A i \in s + 1 .. Len(list) :
               list[i].ts < align_to_period_start(tick.ts, acc.period_ns)
    PROVE  /\ start_bar(acc, key[1], key[2], tick).bar_start_ns # 0
           /\ Fits(start_bar(acc, key[1], key[2], tick), key, Append(list, tick), s, c)
<1> DEFINE n == Len(list)
           new == start_bar(acc, key[1], key[2], tick)
           after == Append(list, tick)
           begin == align_to_period_start(tick.ts, acc.period_ns)
<1>1. /\ n \in Nat /\ Len(after) = n + 1 /\ after[n + 1] = tick
      /\ \A i \in 1 .. n : after[i] = list[i]
      /\ Lasts(after)[n + 1] = tick.last
  BY AppendTick
<1>2. /\ key[1] \in Symbols /\ key[2] \in Periods
      /\ acc.period_ns \in Nat /\ tick.ts \in Nat /\ tick.last \in Nat
  BY DEF Keys, Accumulator, Tick
<1>3. acc.period_ns <= tick.ts
  <2>1. ValidPeriod(key[2]) /\ acc.period_ns <= StartTime
    BY <1>2, PeriodLength
  <2> QED
    BY <1>2, <2>1, FeedAssumption
<1>4. /\ begin \in Nat /\ begin > 0 /\ \E a \in Nat : begin = a * acc.period_ns
      /\ begin <= tick.ts /\ tick.ts < begin + acc.period_ns
  BY <1>2, <1>3, AlignedStart
<1> DEFINE bar == [symbol |-> key[1], period |-> key[2], open |-> tick.last, high |-> tick.last,
                   low |-> tick.last, close |-> tick.last, volume |-> 1,
                   vwap |-> Rat(tick.last), ts |-> begin]
<1>5. /\ new.period_ns = acc.period_ns /\ new.bar_start_ns = begin
      /\ new.notional = tick.last /\ new.volume = 1 /\ new.bar = bar
      /\ new = [period_ns |-> acc.period_ns, bar_start_ns |-> begin, notional |-> tick.last,
                volume |-> 1, bar |-> bar]
  BY DEF start_bar
<1>6. Rat(tick.last) \in Rational /\ Represents(Rat(tick.last), tick.last, 1)
  BY <1>2, RatRepresents
<1>7. bar \in Bar
  BY <1>2, <1>4, <1>6 DEF Bar
<1> HIDE DEF new, begin, after
<1>8. new \in Accumulator
  BY <1>2, <1>4, <1>5, <1>7 DEF Accumulator
<1>9. First(new, after) = n + 1
  BY <1>1, <1>5 DEF First
<1>10. \A i \in n + 1 .. n + 1 : i = n + 1
  BY <1>1
<1>11. Sum(Lasts(after), n + 1 .. n + 1) = tick.last
  <2> DEFINE x == n + 1
             w == Lasts(after)
  <2>1. x \in Int /\ w[x] = tick.last /\ w[x] \in Int
    BY <1>1, <1>2
  <2> HIDE DEF x, w
  <2>2. Sum(w, x .. x) = w[x]
    BY <2>1, SumOfOne
  <2> QED
    BY <2>1, <2>2 DEF x, w
<1>12. c + 1 = Len(after) - s
  BY <1>1
<1>13. \A i \in s + 1 .. First(new, after) - 1 : after[i].ts < begin
  <2>1. \A i \in s + 1 .. First(new, after) - 1 : i \in s + 1 .. n /\ i \in 1 .. n
    BY <1>1, <1>9
  <2> QED
    BY <1>1, <2>1 DEF begin
<1>14. \A i \in First(new, after) .. Len(after) :
          /\ begin <= after[i].ts
          /\ after[i].ts < begin + acc.period_ns
          /\ bar.low <= after[i].last /\ after[i].last <= bar.high
  BY <1>1, <1>2, <1>4, <1>9, <1>10
<1>15. \E i \in First(new, after) .. Len(after) : after[i].last = bar.low /\ after[i].last = bar.high
  <2>1. n + 1 \in First(new, after) .. Len(after)
    BY <1>1, <1>9
  <2> QED
    BY <1>1, <2>1
<1>16. bar.open = after[First(new, after)].last /\ bar.close = after[Len(after)].last
  BY <1>1, <1>9
<1>17. bar.symbol = key[1] /\ bar.period = key[2] /\ bar.ts = begin /\ bar.volume = 1
       /\ bar.vwap = Rat(tick.last)
  OBVIOUS
<1> HIDE DEF bar
<1>18. Builds(new, key, after, s, c)
  <2>1. tick.last = Sum(Lasts(after), First(new, after) .. Len(after))
    BY <1>1, <1>9, <1>11
  <2>2. begin <= after[First(new, after)].ts
    BY <1>1, <1>4, <1>9
  <2> QED
    BY <1>4, <1>5, <1>6, <1>7, <1>12, <1>13, <1>14, <1>15, <1>16, <1>17, <2>1, <2>2 DEF Builds
<1> QED
  BY <1>4, <1>5, <1>8, <1>18 DEF Fits, new, after

\* The tick after the end of a bar starts the next one.
LEMMA CompletionFits ==
    ASSUME NEW key \in Keys, NEW list \in Seq(Tick), NEW s \in Nat, NEW c \in Nat, NEW acc,
           Fits(acc, key, list, s, c), acc.bar_start_ns # 0,
           NEW tick \in Tick, StartTime <= tick.ts,
           tick.ts >= acc.bar_start_ns + acc.period_ns
    PROVE  /\ start_bar(acc, key[1], key[2], tick).bar_start_ns # 0
           /\ Fits(start_bar(acc, key[1], key[2], tick), key, Append(list, tick), s,
                   c + acc.volume)
<1> DEFINE begin == align_to_period_start(tick.ts, acc.period_ns)
           p == acc.period_ns
           old == acc.bar_start_ns
           v == acc.volume
           n == Len(list)
<1>1. /\ acc \in Accumulator /\ acc.period_ns = LengthOf(key[2]) /\ Builds(acc, key, list, s, c)
      /\ n \in Nat
  BY LenProperties DEF Fits
<1>2. p \in Nat /\ p > 0 /\ old \in Nat /\ v \in Nat /\ v > 0 /\ c + v = n - s /\ tick.ts \in Nat
  BY <1>1 DEF Accumulator, Builds, Tick
<1>3. PICK a \in Nat : old = a * p
  BY <1>1 DEF Builds
<1>4. /\ begin \in Nat
      /\ \A b \in Nat : b * p <= tick.ts => b * p <= begin
  <2>1. p <= tick.ts
    BY <1>2
  <2> QED
    BY <1>2, <2>1, AlignedStart
<1>5. old + p <= begin
  <2>1. (a + 1) * p = old + p /\ a + 1 \in Nat
    <3> HIDE DEF p, old
    <3> QED
      BY <1>2, <1>3
  <2>2. (a + 1) * p <= tick.ts
    BY <2>1
  <2>3. (a + 1) * p <= begin
    BY <1>4, <2>1, <2>2
  <2> QED
    BY <2>1, <2>3
<1>6. ASSUME NEW i \in s + 1 .. n
      PROVE  list[i].ts < begin
  <2>1. i \in 1 .. n /\ list[i].ts \in Nat
    <3>1. i \in 1 .. n
      BY <1>1
    <3>2. list[i] \in Tick
      BY <3>1, ElementOfSeq
    <3> QED
      BY <3>1, <3>2 DEF Tick
  <2>2. i \in First(acc, list) .. n \/ i \in s + 1 .. First(acc, list) - 1
    BY <1>1, <1>2 DEF First
  <2>3. list[i].ts < old + p
    <3>1. CASE i \in First(acc, list) .. n
      BY <1>1, <3>1 DEF Builds
    <3>2. CASE i \in s + 1 .. First(acc, list) - 1
      <4>1. list[i].ts < old
        BY <1>1, <3>2 DEF Builds
      <4> QED
        BY <1>2, <2>1, <4>1
    <3> QED
      BY <2>2, <3>1, <3>2
  <2> QED
    BY SMTT(30), <1>2, <1>4, <1>5, <2>1, <2>3
<1>7. c + v \in Nat /\ c + v = n - s
  BY <1>2
<1> QED
  BY <1>1, <1>2, <1>6, <1>7, StartFits

LEMMA MaxMin ==
    ASSUME NEW S \in SUBSET Int, NEW x \in S
    PROVE  /\ (\A y \in S : y <= x) => Max(S) = x
           /\ (\A y \in S : x <= y) => Min(S) = x
<1>1. ASSUME \A y \in S : y <= x
      PROVE  Max(S) = x
  <2>1. \A z \in S : (\A y \in S : y <= z) => z = x
    BY <1>1
  <2>2. Max(S) \in S /\ \A y \in S : y <= Max(S)
    BY <1>1 DEF Max
  <2> QED
    BY <2>1, <2>2
<1>2. ASSUME \A y \in S : x <= y
      PROVE  Min(S) = x
  <2>1. \A z \in S : (\A y \in S : z <= y) => z = x
    BY <1>2
  <2>2. Min(S) \in S /\ \A y \in S : Min(S) <= y
    BY <1>2 DEF Min
  <2> QED
    BY <2>1, <2>2
<1> QED
  BY <1>1, <1>2

LEMMA MaxMinOfTwo ==
    ASSUME NEW x \in Nat, NEW y \in Nat
    PROVE  /\ Max({x, y}) = IF x < y THEN y ELSE x
           /\ Min({x, y}) = IF y < x THEN y ELSE x
<1>1. {x, y} \in SUBSET Int
  OBVIOUS
<1>2. CASE x < y
  <2>1. (\A z \in {x, y} : z <= y) /\ (\A z \in {x, y} : x <= z) /\ ~(y < x)
    BY <1>2
  <2> QED
    BY <1>1, <1>2, <2>1, MaxMin
<1>3. CASE y < x
  <2>1. (\A z \in {x, y} : z <= x) /\ (\A z \in {x, y} : y <= z) /\ ~(x < y)
    BY <1>3
  <2> QED
    BY <1>1, <1>3, <2>1, MaxMin
<1>4. CASE x = y
  <2>1. (\A z \in {x, y} : z <= x) /\ (\A z \in {x, y} : x <= z)
    BY <1>4
  <2> QED
    BY <1>1, <1>4, <2>1, MaxMin
<1> QED
  BY <1>2, <1>3, <1>4

Complete(acc, tick) == tick.ts >= acc.bar_start_ns + acc.period_ns

\* What update_bar assigns, and what it leaves.
Changed(bar, high, low, close, volume, vwap) ==
    [bar EXCEPT !.high = high, !.low = low, !.close = close, !.volume = volume, !.vwap = vwap]

LEMMA ChangedBar ==
    ASSUME NEW bar \in Bar, NEW high, NEW low, NEW close, NEW volume, NEW vwap
    PROVE  Changed(bar, high, low, close, volume, vwap)
           = [symbol |-> bar.symbol, period |-> bar.period, open |-> bar.open, high |-> high,
              low |-> low, close |-> close, volume |-> volume, vwap |-> vwap, ts |-> bar.ts]
<1> DEFINE b1 == [bar EXCEPT !.high = high]
           b2 == [b1 EXCEPT !.low = low]
           b3 == [b2 EXCEPT !.close = close]
           b4 == [b3 EXCEPT !.volume = volume]
           b5 == [b4 EXCEPT !.vwap = vwap]
           Parts(h, l, c, v, w) ==
               [symbol |-> bar.symbol, period |-> bar.period, open |-> bar.open, high |-> h,
                low |-> l, close |-> c, volume |-> v, vwap |-> w, ts |-> bar.ts]
<1>1. b1 = Parts(high, bar.low, bar.close, bar.volume, bar.vwap)
  BY DEF Bar
<1> HIDE DEF b1
<1>2. b2 = Parts(high, low, bar.close, bar.volume, bar.vwap)
  BY <1>1
<1> HIDE DEF b2
<1>3. b3 = Parts(high, low, close, bar.volume, bar.vwap)
  BY <1>2
<1> HIDE DEF b3
<1>4. b4 = Parts(high, low, close, volume, bar.vwap)
  BY <1>3
<1> HIDE DEF b4
<1>5. b5 = Parts(high, low, close, volume, vwap)
  BY <1>4
<1> HIDE DEF b5, Parts
<1>6. b5 = Changed(bar, high, low, close, volume, vwap)
  BY Zenon DEF b1, b2, b3, b4, b5, Changed
<1> QED
  BY <1>5, <1>6 DEF Parts

\* update_bar adds the tick to the bar it falls in.
LEMMA UpdateFits ==
    ASSUME NEW key \in Keys, NEW list \in Seq(Tick), NEW s \in Nat, NEW c \in Nat, NEW acc,
           Fits(acc, key, list, s, c), acc.bar_start_ns # 0,
           NEW tick \in Tick, ~Complete(acc, tick)
    PROVE  /\ update_bar(acc, tick).bar_start_ns # 0
           /\ Fits(update_bar(acc, tick), key, Append(list, tick), s, c)
<1> DEFINE n == Len(list)
           new == update_bar(acc, tick)
           after == Append(list, tick)
           bar == acc.bar
           first == First(acc, list)
           notional == acc.notional + tick.last
           volume == acc.volume + 1
           high == Max({bar.high, tick.last})
           low == Min({bar.low, tick.last})
           vwap == Ratio(notional, volume)
           bar2 == Changed(bar, high, low, tick.last, bar.volume + 1, vwap)
<1>1. /\ n \in Nat /\ Len(after) = n + 1 /\ after[n + 1] = tick
      /\ \A i \in 1 .. n : after[i] = list[i] /\ list[i] \in Tick
      /\ Lasts(after)[n + 1] = tick.last
      /\ \A i \in 1 .. n : Lasts(after)[i] = Lasts(list)[i] /\ Lasts(list)[i] \in Nat
  BY AppendTick
<1>2. /\ acc \in Accumulator /\ acc.period_ns = LengthOf(key[2]) /\ Builds(acc, key, list, s, c)
      /\ bar \in Bar
  BY DEF Fits, Builds
<1>3. /\ acc.notional \in Nat /\ acc.volume \in Nat /\ acc.volume > 0
      /\ acc.bar_start_ns \in Nat /\ acc.period_ns \in Nat
      /\ tick.last \in Nat /\ tick.ts \in Nat
      /\ bar.high \in Nat /\ bar.low \in Nat /\ bar.volume = acc.volume
      /\ c + acc.volume = n - s
      /\ tick.ts < acc.bar_start_ns + acc.period_ns
  <2>1. /\ acc.notional \in Nat /\ acc.volume \in Nat
        /\ acc.bar_start_ns \in Nat /\ acc.period_ns \in Nat
    BY <1>2 DEF Accumulator
  <2>2. tick.last \in Nat /\ tick.ts \in Nat
    BY DEF Tick
  <2>3. bar.high \in Nat /\ bar.low \in Nat
    BY <1>2 DEF Bar
  <2>4. bar.volume = acc.volume /\ acc.volume > 0 /\ c + acc.volume = n - s
    BY <1>2 DEF Builds
  <2>5. tick.ts < acc.bar_start_ns + acc.period_ns
    BY <2>1, <2>2 DEF Complete
  <2> QED
    BY <2>1, <2>2, <2>3, <2>4, <2>5
<1>4. /\ high = (IF bar.high < tick.last THEN tick.last ELSE bar.high) /\ high \in Nat
      /\ low = (IF tick.last < bar.low THEN tick.last ELSE bar.low) /\ low \in Nat
  <2> DEFINE h == bar.high
             l == bar.low
             x == tick.last
  <2>1. h \in Nat /\ l \in Nat /\ x \in Nat
    BY <1>3
  <2> HIDE DEF h, l, x
  <2>2. Max({h, x}) = IF h < x THEN x ELSE h
    BY <2>1, MaxMinOfTwo
  <2>3. Min({l, x}) = IF x < l THEN x ELSE l
    BY <2>1, MaxMinOfTwo
  <2>4. /\ high = Max({h, x}) /\ low = Min({l, x})
    BY DEF h, l, x
  <2> HIDE DEF high, low
  <2>5. /\ high = (IF h < x THEN x ELSE h) /\ high \in Nat
        /\ low = (IF x < l THEN x ELSE l) /\ low \in Nat
    BY <2>1, <2>2, <2>3, <2>4
  <2> QED
    BY <2>5 DEF h, l, x
<1>5. /\ notional \in Nat /\ volume \in Nat /\ volume # 0
      /\ vwap \in Rational /\ Represents(vwap, notional, volume)
  <2>1. notional \in Int /\ volume \in Int /\ volume # 0 /\ notional \in Nat /\ volume \in Nat
    <3>1. notional \in Nat
      BY <1>3
    <3>2. volume \in Nat /\ volume # 0
      BY SMTT(30), <1>3
    <3> QED
      BY <3>1, <3>2
  <2> HIDE DEF notional, volume
  <2> QED
    BY <2>1, RatioRepresents
<1>6. new = [acc EXCEPT !.notional = notional, !.volume = volume, !.bar = bar2]
  <2> HIDE DEF notional, volume, high, low, vwap
  <2>1. new = [acc EXCEPT !.notional = notional, !.volume = volume,
                          !.bar.high = high, !.bar.low = low, !.bar.close = tick.last,
                          !.bar.volume = bar.volume + 1, !.bar.vwap = vwap]
    BY Zenon DEF update_bar, notional, volume, high, low, vwap
  <2> QED
    BY <1>2, <2>1 DEF Accumulator, Bar, Changed
<1> HIDE DEF notional, volume, high, low, vwap
<1>7. /\ bar2 \in Bar
      /\ bar2.symbol = bar.symbol /\ bar2.period = bar.period /\ bar2.ts = bar.ts
      /\ bar2.open = bar.open /\ bar2.close = tick.last /\ bar2.high = high /\ bar2.low = low
      /\ bar2.volume = bar.volume + 1 /\ bar2.vwap = vwap
  <2>1. /\ bar = [symbol |-> bar.symbol, period |-> bar.period, open |-> bar.open,
                   high |-> bar.high, low |-> bar.low, close |-> bar.close,
                   volume |-> bar.volume, vwap |-> bar.vwap, ts |-> bar.ts]
        /\ bar.symbol \in Symbols /\ bar.period \in Periods /\ bar.open \in Nat /\ bar.ts \in Nat
        /\ bar.volume \in Nat
    <3> HIDE DEF bar
    <3> QED
      BY <1>2 DEF Bar
  <2> HIDE DEF bar
  <2>2. bar2 = [symbol |-> bar.symbol, period |-> bar.period, open |-> bar.open,
                high |-> high, low |-> low, close |-> tick.last,
                volume |-> bar.volume + 1, vwap |-> vwap, ts |-> bar.ts]
    BY <1>2, ChangedBar
  <2>3. bar.volume + 1 \in Nat /\ tick.last \in Nat /\ high \in Nat /\ low \in Nat
        /\ vwap \in Rational
    <3>1. bar.volume + 1 \in Nat
      BY <2>1
    <3> QED
      BY <1>3, <1>4, <1>5, <3>1
  <2> HIDE DEF bar2
  <2>4. bar2 \in Bar
    BY <2>1, <2>2, <2>3 DEF Bar
  <2> QED
    BY <2>2, <2>4
<1> HIDE DEF bar2, new, after
<1>8. /\ new \in Accumulator
      /\ new.bar = bar2 /\ new.notional = notional /\ new.volume = volume
      /\ new.bar_start_ns = acc.bar_start_ns /\ new.period_ns = acc.period_ns
  BY <1>2, <1>5, <1>6, <1>7 DEF Accumulator
<1>9. /\ First(new, after) = first /\ first \in 1 .. n /\ first \in Int
  <2> DEFINE v == acc.volume
  <2>1. first = n - v + 1
    BY DEF First
  <2>2. First(new, after) = (n + 1) - (v + 1) + 1
    BY <1>1, <1>8 DEF First, volume
  <2>3. v \in Nat /\ v > 0 /\ c + v = n - s /\ n \in Nat
    BY <1>1, <1>3
  <2> HIDE DEF v, n, first
  <2> QED
    BY <2>1, <2>2, <2>3
<1> HIDE DEF first, n
<1>10. \A i \in first .. n + 1 : i = n + 1 \/ (i \in first .. n /\ i \in 1 .. n)
  BY <1>1, <1>9
<1>11. first \in first .. n /\ first \in first .. n + 1 /\ n + 1 \in first .. n + 1
       /\ \A i \in first .. n : i \in first .. n + 1 /\ i \in 1 .. n
  BY <1>1, <1>9
<1>12. /\ acc.bar_start_ns <= list[first].ts
       /\ \A i \in first .. n : /\ list[i].ts < acc.bar_start_ns + acc.period_ns
                                /\ bar.low <= list[i].last /\ list[i].last <= bar.high
       /\ \A i \in s + 1 .. first - 1 : list[i].ts < acc.bar_start_ns
       /\ bar.open = list[first].last
       /\ acc.notional = Sum(Lasts(list), first .. n)
       /\ bar.symbol = key[1] /\ bar.period = key[2] /\ bar.ts = acc.bar_start_ns
       /\ acc.period_ns > 0 /\ \E a \in Nat : acc.bar_start_ns = a * acc.period_ns
  BY <1>2 DEF Builds, first, n
<1>13. /\ \E i \in first .. n : list[i].last = bar.low
       /\ \E i \in first .. n : list[i].last = bar.high
  BY <1>2 DEF Builds, first, n
<1>14. \A i \in 1 .. n : list[i].last \in Nat /\ list[i].ts \in Nat
  BY <1>1 DEF Tick
<1> HIDE DEF bar
<1>15. acc.bar_start_ns <= after[first].ts
  BY <1>1, <1>9, <1>12
<1>16. ASSUME NEW i \in first .. n + 1
       PROVE  /\ after[i].ts < acc.bar_start_ns + acc.period_ns
              /\ low <= after[i].last /\ after[i].last <= high
  <2>1. CASE i = n + 1
    BY SMTT(30), <1>1, <1>3, <1>4, <2>1
  <2>2. CASE i \in first .. n /\ i \in 1 .. n
    <3>1. after[i] = list[i] /\ list[i].last \in Nat /\ list[i].ts \in Nat
      BY <1>1, <1>14, <2>2
    <3>2. /\ list[i].ts < acc.bar_start_ns + acc.period_ns
          /\ bar.low <= list[i].last /\ list[i].last <= bar.high
      BY <1>12, <2>2
    <3>3. after[i].ts < acc.bar_start_ns + acc.period_ns
      BY <3>1, <3>2
    <3> DEFINE x == list[i].last
               h == bar.high
               l == bar.low
    <3>4. x \in Nat /\ h \in Nat /\ l \in Nat /\ tick.last \in Nat /\ l <= x /\ x <= h
          /\ high = (IF h < tick.last THEN tick.last ELSE h)
          /\ low = (IF tick.last < l THEN tick.last ELSE l)
          /\ after[i].last = x
      BY <1>3, <1>4, <3>1, <3>2
    <3> HIDE DEF x, h, l
    <3>5. low <= x /\ x <= high
      BY <3>4
    <3> QED
      BY <3>3, <3>4, <3>5
  <2> QED
    BY <1>10, <2>1, <2>2
<1>17. \A i \in s + 1 .. first - 1 : after[i].ts < acc.bar_start_ns
  <2>1. \A i \in s + 1 .. first - 1 : i \in 1 .. n
    BY <1>1, <1>9
  <2> QED
    BY <1>1, <1>12, <2>1
<1>18. bar.open = after[first].last
  BY <1>1, <1>9, <1>12
<1>19. \E i \in first .. n + 1 : after[i].last = low
  <2>1. CASE tick.last < bar.low
    BY <1>1, <1>4, <1>11, <2>1
  <2>2. CASE ~(tick.last < bar.low)
    <3>1. PICK i \in first .. n : list[i].last = bar.low
      BY <1>13
    <3>2. after[i] = list[i] /\ i \in first .. n + 1
      BY <1>1, <1>11
    <3> QED
      BY <1>4, <2>2, <3>1, <3>2
  <2> QED
    BY <2>1, <2>2
<1>20. \E i \in first .. n + 1 : after[i].last = high
  <2>1. CASE bar.high < tick.last
    BY <1>1, <1>4, <1>11, <2>1
  <2>2. CASE ~(bar.high < tick.last)
    <3>1. PICK i \in first .. n : list[i].last = bar.high
      BY <1>13
    <3>2. after[i] = list[i] /\ i \in first .. n + 1
      BY <1>1, <1>11
    <3> QED
      BY <1>4, <2>2, <3>1, <3>2
  <2> QED
    BY <2>1, <2>2
<1>21. Sum(Lasts(after), first .. n + 1) = notional
  <2> DEFINE w == Lasts(after)
             x == n + 1
             S == first .. x
  <2>1. IsFiniteSet(S) /\ x \in S /\ S \ {x} = first .. n
    <3>1. n + 1 \in Int /\ n \in Int /\ first \in Int /\ first <= n
      BY <1>1, <1>9
    <3>2. IsFiniteSet(first .. n + 1)
      BY <3>1, FS_Interval
    <3>3. (first .. n + 1) \ {n + 1} = first .. n
      BY <3>1
    <3> QED
      BY <3>1, <3>2, <3>3
  <2>2. ASSUME NEW y \in S
        PROVE  w[y] \in Int
    <3>1. CASE y = n + 1
      BY <1>1, <1>3, <3>1
    <3>2. CASE y \in 1 .. n
      BY <1>1, <3>2
    <3> QED
      BY <1>10, <3>1, <3>2
  <2> HIDE DEF S, w, x
  <2>3. Sum(w, S) = w[x] + Sum(w, S \ {x})
    BY <2>1, <2>2, SumRemove
  <2>4. Sum(w, first .. n) = Sum(Lasts(list), first .. n)
    <3>1. IsFiniteSet(first .. n)
      BY <1>1, <1>9, FS_Interval
    <3>2. \A y \in first .. n : w[y] = Lasts(list)[y]
      BY <1>1, <1>11 DEF w
    <3> QED
      BY <3>1, <3>2, SumSame
  <2>5. Sum(w, S) = tick.last + acc.notional
    BY <1>1, <1>12, <2>1, <2>3, <2>4 DEF w, x
  <2> QED
    BY <1>3, <2>5 DEF S, w, x, notional
<1>22. /\ acc.volume + 1 = volume /\ c + volume = Len(after) - s /\ volume > 0
  <2> DEFINE v == acc.volume
  <2>1. v \in Nat /\ c + v = n - s /\ n \in Nat /\ Len(after) = n + 1 /\ volume = v + 1
    BY <1>1, <1>3 DEF volume
  <2> HIDE DEF v
  <2>2. c + (v + 1) = (n + 1) - s /\ v + 1 > 0
    BY <2>1
  <2> QED
    BY <2>1, <2>2 DEF v
<1>23. Builds(new, key, after, s, c)
  BY <1>1, <1>3, <1>5, <1>7, <1>8, <1>9, <1>12, <1>15, <1>16, <1>17, <1>18, <1>19, <1>20, <1>21, <1>22
     DEF Builds
<1> QED
  BY <1>2, <1>8, <1>23 DEF Fits, new, after

------------------------------------------------------------------------------
(* The inductive invariant.                                                 *)

Pass == [pc : {"pricing"}, symbols : SUBSET Symbols, now : Nat, ticks : SUBSET Symbols]

Delivery == [pc : {"ticking", "closing"}, symbols : SUBSET Symbols, now : Nat,
             ticks : SUBSET Symbols, tick : Tick, bars : SUBSET (Bar \cup {NoBar})]

InPass == emit.pc \in {"pricing", "ticking", "closing"}

FeedType ==
    /\ symbols_ \in SUBSET Symbols
    /\ tick_subscriptions_ \in [Symbols -> Nat]
    /\ bar_subscriptions_ \in [Keys -> Nat]
    /\ DOMAIN accumulators_ \in SUBSET Keys
    /\ emit \in {[pc |-> "idle"], [pc |-> "dead"]} \cup Pass \cup Delivery
    /\ tape \in [Symbols -> Seq(Tick)]
    /\ since \in [Keys -> Nat]
    /\ closed \in [Keys -> Nat]

RegistryType ==
    /\ tick_subs_ \in [Symbols -> [Managers -> Nat]]
    /\ bar_subs_ \in [Keys -> [Managers -> Nat]]
    /\ last_tick \in [Managers -> [Symbols -> Nat]]

\* A pass has read a clock that shows StartTime or later.
PassIsDated == InPass => StartTime <= emit.now

\* Each accumulator holds what its symbol's tape says.
BarsFit == \A k \in DOMAIN accumulators_ : Fits(accumulators_[k], k, tape[k[1]], since[k], closed[k])

\* Invalid periods have been noticed.
BadPeriodsKnown == \A k \in DOMAIN accumulators_ : ~ValidPeriod(k[2]) => badPeriods

\* The feed counts what the registry lists, and more.
ListsCounted ==
    kind = "simulated" =>
        /\ \A s \in Symbols : tick_subscriptions_[s] >= Sum(tick_subs_[s], Managers)
        /\ \A k \in Keys : bar_subscriptions_[k] >= Sum(bar_subs_[k], Managers)

CountedArePriced ==
    /\ \A s \in Symbols : tick_subscriptions_[s] > 0 => s \in symbols_
    /\ \A k \in Keys : bar_subscriptions_[k] > 0 => k[1] \in symbols_ /\ k \in DOMAIN accumulators_

\* The lists are empty before there is a feed.
ListsNeedAFeed ==
    kind = None =>
        \A m \in Managers : /\ \A s \in Symbols : tick_subs_[s][m] = 0
                            /\ \A k \in Keys : bar_subs_[k][m] = 0

ListsRequested ==
    kind = "adapter" =>
        \A k \in Keys, m \in Managers : bar_subs_[k][m] > 0 => k[2] \in Periods_Of(subscriptions_, k[1])

\* Only subscribers hear ticks, and the copy a pass works from has them.
HearersListed ==
    \A m \in Managers, s \in Symbols : last_tick[m][s] > 0 => tick_subs_[s][m] > 0

HearersCopied ==
    \A m \in Managers, s \in Symbols :
        (/\ last_tick[m][s] > 0
         /\ \/ emit.pc \in {"pricing", "ticking", "closing"} /\ s \in emit.symbols
            \/ emit.pc = "ticking" /\ s = emit.tick.symbol)
        => s \in emit.ticks

TickIsLatest ==
    emit.pc = "ticking" => /\ emit.tick.n = Len(tape[emit.tick.symbol])
                           /\ emit.tick.symbol \notin emit.symbols

MarketInv ==
    /\ FeedType /\ RegistryType /\ PassIsDated /\ BarsFit /\ BadPeriodsKnown
    /\ ListsCounted /\ CountedArePriced /\ ListsNeedAFeed /\ ListsRequested
    /\ HearersListed /\ HearersCopied /\ TickIsLatest
    /\ CrashesAreExplained /\ TicksArriveWithoutGaps
    /\ (emit.pc = "dead" => crashed)

LEMMA MarketInit_Inv == MarketInit => MarketInv
<1> SUFFICES ASSUME MarketInit PROVE MarketInv
  OBVIOUS
<1> USE DEF MarketInit, FeedInit, AdapterFeedInit
<1>1. FeedType
  <2>1. <<>> \in Seq(Tick) /\ DOMAIN <<>> = {}
    OBVIOUS
  <2> QED
    BY <2>1, FeedAssumption DEF FeedType
<1>2. RegistryType
  BY DEF RegistryType
<1>3. PassIsDated
  BY DEF PassIsDated, InPass
<1>4. HearersCopied /\ TickIsLatest /\ (emit.pc = "dead" => crashed)
  BY DEF HearersCopied, TickIsLatest
<1>5. BarsFit /\ BadPeriodsKnown
  <2>1. DOMAIN accumulators_ = {}
    OBVIOUS
  <2> QED
    BY <2>1 DEF BarsFit, BadPeriodsKnown
<1>6. ListsCounted /\ CountedArePriced /\ ListsNeedAFeed /\ ListsRequested
  <2>1. \A s \in Symbols : Sum(tick_subs_[s], Managers) = 0
    BY RegistryAssumption, SumZero
  <2>2. \A k \in Keys : Sum(bar_subs_[k], Managers) = 0
    BY RegistryAssumption, SumZero
  <2> QED
    BY <2>1, <2>2 DEF ListsCounted, CountedArePriced, ListsNeedAFeed, ListsRequested
<1>7. HearersListed /\ CrashesAreExplained /\ TicksArriveWithoutGaps
  BY DEF HearersListed, CrashesAreExplained, TicksArriveWithoutGaps
<1> QED
  BY <1>1, <1>2, <1>3, <1>4, <1>5, <1>6, <1>7 DEF MarketInv

\* What the feed's thread works with is not changed by the registry.
LEMMA SameBars ==
    ASSUME MarketInv, UNCHANGED <<accumulators_, emit, crashed, tape, since, closed, badPeriods>>
    PROVE  PassIsDated' /\ BarsFit' /\ BadPeriodsKnown' /\ TickIsLatest'
           /\ (emit.pc = "dead" => crashed)'
BY DEF MarketInv, PassIsDated, BarsFit, BadPeriodsKnown, TickIsLatest, InPass

\* A list counts one more when a manager is added to it, and no more when one is removed.
LEMMA ListGrows ==
    ASSUME NEW list \in [Managers -> Nat], NEW m \in Managers
    PROVE  /\ Sum(list, Managers) \in Nat
           /\ Sum([list EXCEPT ![m] = @ + 1], Managers) = Sum(list, Managers) + 1
           /\ Sum([list EXCEPT ![m] = 0], Managers) <= Sum(list, Managers)
           /\ list[m] <= Sum(list, Managers)
           /\ (\A n \in Managers : ~(list[n] > 0)) => Sum(list, Managers) = 0
<1> DEFINE more == [list EXCEPT ![m] = @ + 1]
           less == [list EXCEPT ![m] = 0]
<1>1. /\ \A n \in Managers : list[n] \in Int /\ more[n] \in Int /\ less[n] \in Int /\ list[n] \in Nat
      /\ \A n \in Managers \ {m} : list[n] = more[n] /\ list[n] = less[n]
      /\ more[m] = list[m] + 1 /\ less[m] = 0 /\ list[m] \in Nat
  OBVIOUS
<1> HIDE DEF more, less
<1>2. Sum(list, Managers) \in Nat /\ list[m] <= Sum(list, Managers)
  BY <1>1, RegistryAssumption, SumNat
<1>3. Sum(more, Managers) = Sum(list, Managers) - list[m] + more[m]
  BY <1>1, RegistryAssumption, SumChange
<1>4. Sum(less, Managers) = Sum(list, Managers) - list[m] + less[m]
  <2>1. /\ \A n \in Managers : list[n] \in Int /\ less[n] \in Int
        /\ \A n \in Managers \ {m} : list[n] = less[n]
    BY <1>1
  <2> QED
    BY <2>1, RegistryAssumption, SumChange
<1>5. (\A n \in Managers : ~(list[n] > 0)) => Sum(list, Managers) = 0
  <2> SUFFICES ASSUME \A n \in Managers : ~(list[n] > 0) PROVE Sum(list, Managers) = 0
    OBVIOUS
  <2>1. \A n \in Managers : list[n] = 0
    BY <1>1
  <2> QED
    BY <2>1, RegistryAssumption, SumZero
<1>6. Sum(more, Managers) = Sum(list, Managers) + 1 /\ Sum(less, Managers) <= Sum(list, Managers)
  BY <1>1, <1>2, <1>3, <1>4
<1> QED
  BY <1>2, <1>5, <1>6 DEF more, less

LEMMA RegisterFeed_Inv ==
    ASSUME MarketInv, NEW k \in {"simulated", "adapter"}, register_feed(k)
    PROVE  MarketInv'
<1> USE DEF register_feed, feedVars, subscriptions
<1>1. PassIsDated' /\ BarsFit' /\ BadPeriodsKnown' /\ TickIsLatest'
      /\ (emit.pc = "dead" => crashed)'
  BY SameBars
<1>2. FeedType' /\ RegistryType'
  BY DEF MarketInv, FeedType, RegistryType
<1>3. CountedArePriced' /\ HearersListed' /\ HearersCopied' /\ TicksArriveWithoutGaps'
  BY DEF MarketInv, CountedArePriced, HearersListed, HearersCopied, TicksArriveWithoutGaps
<1>4. CrashesAreExplained'
  BY DEF MarketInv, CrashesAreExplained, Start, adapterFeedVars
<1>5. kind = None /\ ListsNeedAFeed /\ tick_subs_' = tick_subs_ /\ bar_subs_' = bar_subs_
      /\ tick_subscriptions_' = tick_subscriptions_ /\ bar_subscriptions_' = bar_subscriptions_
      /\ kind' = k
  BY DEF MarketInv
<1>6. ListsCounted'
  <2>1. \A s \in Symbols : Sum(tick_subs_[s], Managers) = 0 /\ tick_subscriptions_[s] \in Nat
    BY <1>5, RegistryAssumption, SumZero DEF ListsNeedAFeed, MarketInv, FeedType
  <2>2. \A key \in Keys : Sum(bar_subs_[key], Managers) = 0 /\ bar_subscriptions_[key] \in Nat
    BY <1>5, RegistryAssumption, SumZero DEF ListsNeedAFeed, MarketInv, FeedType
  <2> QED
    BY <1>5, <2>1, <2>2 DEF ListsCounted
<1>7. ListsNeedAFeed' /\ ListsRequested'
  <2>1. ListsNeedAFeed'
    BY <1>5 DEF ListsNeedAFeed
  <2>2. \A key \in Keys, m \in Managers : ~(bar_subs_[key][m] > 0)
    BY <1>5 DEF ListsNeedAFeed
  <2> QED
    BY <1>5, <2>1, <2>2 DEF ListsRequested
<1> QED
  BY <1>1, <1>2, <1>3, <1>4, <1>6, <1>7 DEF MarketInv

LEMMA SubscribeTicks_Inv ==
    ASSUME MarketInv, NEW m \in Managers, NEW symbol \in Symbols, kind = "simulated",
           register_subscription(m, symbol, None)
    PROVE  MarketInv'
<1>1. /\ symbols_' = symbols_ \cup {symbol}
      /\ tick_subscriptions_' = [tick_subscriptions_ EXCEPT ![symbol] = @ + 1]
      /\ tick_subs_' = [tick_subs_ EXCEPT ![symbol][m] = @ + 1]
      /\ UNCHANGED <<bar_subscriptions_, accumulators_, since, closed, badPeriods, emit,
                     crashed, tape, subscriptions_, stream, requested, torn, bar_subs_, kind,
                     last_tick>>
  BY DEF register_subscription, SubscribeTicks, adapterFeedVars
<1>2. FeedType /\ RegistryType
  BY DEF MarketInv
<1>3. PassIsDated' /\ BarsFit' /\ BadPeriodsKnown' /\ TickIsLatest'
      /\ (emit.pc = "dead" => crashed)'
  BY <1>1, SameBars
<1>4. /\ tick_subs_' \in [Symbols -> [Managers -> Nat]]
      /\ tick_subs_'[symbol] = [tick_subs_[symbol] EXCEPT ![m] = @ + 1]
      /\ \A s \in Symbols : s # symbol => tick_subs_'[s] = tick_subs_[s]
      /\ \A s \in Symbols, n \in Managers : tick_subs_[s][n] > 0 => tick_subs_'[s][n] > 0
      /\ tick_subs_[symbol] \in [Managers -> Nat]
  BY <1>1, <1>2 DEF RegistryType
<1>5. /\ tick_subscriptions_' \in [Symbols -> Nat]
      /\ tick_subscriptions_'[symbol] = tick_subscriptions_[symbol] + 1
      /\ tick_subscriptions_[symbol] \in Nat
      /\ \A s \in Symbols : s # symbol => tick_subscriptions_'[s] = tick_subscriptions_[s]
  BY <1>1, <1>2 DEF FeedType
<1>6. FeedType'
  BY <1>1, <1>2, <1>5 DEF FeedType
<1>7. RegistryType'
  BY <1>1, <1>2, <1>4 DEF RegistryType
<1>8. CrashesAreExplained' /\ ListsRequested' /\ ListsNeedAFeed'
  BY <1>1 DEF MarketInv, CrashesAreExplained, ListsRequested, ListsNeedAFeed,
              register_subscription
<1>9. CountedArePriced'
  BY <1>1, <1>5 DEF MarketInv, CountedArePriced
<1>10. ListsCounted'
  <2>1. \A s \in Symbols : tick_subscriptions_[s] >= Sum(tick_subs_[s], Managers)
    BY DEF MarketInv, ListsCounted
  <2>2. /\ Sum(tick_subs_[symbol], Managers) \in Nat
        /\ Sum(tick_subs_'[symbol], Managers) = Sum(tick_subs_[symbol], Managers) + 1
    BY <1>4, ListGrows
  <2>3. tick_subscriptions_'[symbol] >= Sum(tick_subs_'[symbol], Managers)
    BY <1>5, <2>1, <2>2
  <2>4. \A s \in Symbols : tick_subscriptions_'[s] >= Sum(tick_subs_'[s], Managers)
    BY <1>4, <1>5, <2>1, <2>3
  <2> QED
    BY <1>1, <2>4 DEF MarketInv, ListsCounted
<1>11. HearersListed'
  BY <1>1, <1>4 DEF MarketInv, HearersListed
<1>12. HearersCopied'
  BY <1>1 DEF MarketInv, HearersCopied
<1>13. TicksArriveWithoutGaps'
  <2>1. HearersListed
    BY DEF MarketInv
  <2> QED
    BY <1>1, <2>1 DEF MarketInv, TicksArriveWithoutGaps, HearersListed
<1> QED
  BY <1>3, <1>6, <1>7, <1>8, <1>9, <1>10, <1>11, <1>12, <1>13 DEF MarketInv

LEMMA SubscribeBars_Inv ==
    ASSUME MarketInv, NEW m \in Managers, NEW symbol \in Symbols, NEW period \in Periods,
           period # None, kind = "simulated", register_subscription(m, symbol, period)
    PROVE  MarketInv'
<1> DEFINE key == <<symbol, period>>
<1>1. /\ symbols_' = symbols_ \cup {symbol}
      /\ bar_subscriptions_' = [bar_subscriptions_ EXCEPT ![key] = @ + 1]
      /\ badPeriods' = (badPeriods \/ ~ValidPeriod(period))
      /\ \/ bar_subs_' = bar_subs_
         \/ bar_subs_' = [bar_subs_ EXCEPT ![key][m] = @ + 1]
      /\ UNCHANGED <<tick_subscriptions_, emit, crashed, tape, subscriptions_, stream,
                     requested, torn, tick_subs_, kind, last_tick>>
  BY DEF register_subscription, SubscribeBars, adapterFeedVars
<1>2. FeedType /\ RegistryType /\ key \in Keys /\ key[1] = symbol /\ key[2] = period
  BY DEF MarketInv, Keys
<1>3. IF key \notin DOMAIN accumulators_
      THEN /\ accumulators_' = [k \in DOMAIN accumulators_ \cup {key} |->
                  IF k = key THEN [EmptyAccumulator EXCEPT !.period_ns = LengthOf(period)]
                  ELSE accumulators_[k]]
           /\ since' = [since EXCEPT ![key] = Len(tape[symbol])]
           /\ closed' = [closed EXCEPT ![key] = 0]
      ELSE UNCHANGED <<accumulators_, since, closed>>
  BY DEF register_subscription, SubscribeBars, LengthOf
<1>4. /\ DOMAIN accumulators_' = DOMAIN accumulators_ \cup {key}
      /\ \A k \in DOMAIN accumulators_ : accumulators_'[k] = accumulators_[k]
  <2>1. CASE key \notin DOMAIN accumulators_
    BY <1>3, <2>1
  <2>2. CASE key \in DOMAIN accumulators_
    <3>1. DOMAIN accumulators_ \cup {key} = DOMAIN accumulators_
      BY <2>2
    <3> QED
      BY <1>3, <2>2, <3>1
  <2> QED
    BY <2>1, <2>2
<1>5. Len(tape[symbol]) \in Nat
  BY <1>2, LenProperties DEF FeedType
<1>6. since' \in [Keys -> Nat] /\ closed' \in [Keys -> Nat]
  <2>1. since \in [Keys -> Nat] /\ closed \in [Keys -> Nat]
    BY <1>2 DEF FeedType
  <2>2. CASE key \notin DOMAIN accumulators_
    <3>1. /\ since' = [since EXCEPT ![key] = Len(tape[symbol])]
          /\ closed' = [closed EXCEPT ![key] = 0]
      BY <1>3, <2>2
    <3> HIDE DEF key
    <3> QED
      BY <1>2, <1>5, <2>1, <3>1
  <2>3. CASE key \in DOMAIN accumulators_
    BY <1>3, <2>1, <2>3
  <2> QED
    BY <2>2, <2>3
<1>7. /\ bar_subscriptions_' \in [Keys -> Nat]
      /\ bar_subscriptions_'[key] = bar_subscriptions_[key] + 1
      /\ bar_subscriptions_[key] \in Nat
      /\ \A k \in Keys : k # key => bar_subscriptions_'[k] = bar_subscriptions_[k]
  BY <1>1, <1>2 DEF FeedType
<1>8. FeedType'
  <2>1. DOMAIN accumulators_' \in SUBSET Keys
    BY <1>2, <1>4 DEF FeedType
  <2> QED
    BY <1>1, <1>2, <1>6, <1>7, <2>1 DEF FeedType
<1>9. /\ bar_subs_' \in [Keys -> [Managers -> Nat]] /\ bar_subs_[key] \in [Managers -> Nat]
      /\ bar_subs_'[key] = bar_subs_[key] \/ bar_subs_'[key] = [bar_subs_[key] EXCEPT ![m] = @ + 1]
      /\ \A k \in Keys : k # key => bar_subs_'[k] = bar_subs_[k]
  <2>1. bar_subs_ \in [Keys -> [Managers -> Nat]] /\ key \in Keys
    BY <1>2 DEF RegistryType
  <2>2. CASE bar_subs_' = bar_subs_
    BY <2>1, <2>2
  <2>3. CASE bar_subs_' = [bar_subs_ EXCEPT ![key][m] = @ + 1]
    <3> DEFINE list == bar_subs_[key]
               more == [list EXCEPT ![m] = @ + 1]
    <3> HIDE DEF key
    <3>1. list \in [Managers -> Nat] /\ more \in [Managers -> Nat]
      BY <2>1
    <3>2. bar_subs_' = [bar_subs_ EXCEPT ![key] = more]
      BY <2>3
    <3> HIDE DEF more
    <3>3. /\ bar_subs_' \in [Keys -> [Managers -> Nat]] /\ bar_subs_'[key] = more
          /\ \A k \in Keys : k # key => bar_subs_'[k] = bar_subs_[k]
      BY <2>1, <3>1, <3>2
    <3> QED
      BY <3>1, <3>3 DEF more
  <2> QED
    BY <1>1, <2>2, <2>3
<1>10. RegistryType'
  BY <1>1, <1>2, <1>9 DEF RegistryType
<1>11. PassIsDated' /\ TickIsLatest' /\ (emit.pc = "dead" => crashed)'
       /\ HearersListed' /\ HearersCopied' /\ TicksArriveWithoutGaps'
  BY <1>1 DEF MarketInv, PassIsDated, InPass, TickIsLatest, HearersListed, HearersCopied,
              TicksArriveWithoutGaps
<1>12. BadPeriodsKnown' /\ CrashesAreExplained'
  BY <1>1, <1>2, <1>4 DEF MarketInv, BadPeriodsKnown, CrashesAreExplained
<1>13. BarsFit'
  <2> SUFFICES ASSUME NEW k \in DOMAIN accumulators_'
               PROVE  Fits(accumulators_'[k], k, tape[k[1]], since'[k], closed'[k])
    BY <1>1 DEF BarsFit
  <2>1. CASE k \in DOMAIN accumulators_
    <3>1. since'[k] = since[k] /\ closed'[k] = closed[k]
      BY <1>2, <1>3, <2>1 DEF FeedType
    <3> QED
      BY <1>4, <2>1, <3>1 DEF MarketInv, BarsFit
  <2>2. CASE k \notin DOMAIN accumulators_
    <3>1. k = key /\ key \notin DOMAIN accumulators_
      BY <1>4, <2>2
    <3>2. accumulators_'[key] = [EmptyAccumulator EXCEPT !.period_ns = LengthOf(period)]
      BY <1>3, <3>1
    <3>3. since'[key] = Len(tape[symbol]) /\ closed'[key] = 0
      BY <1>2, <1>3, <3>1 DEF FeedType
    <3>4. LengthOf(period) \in Nat
      BY PeriodLength
    <3> DEFINE acc == accumulators_'[key]
    <3>5. acc = [period_ns |-> LengthOf(period), bar_start_ns |-> 0, bar |-> NoBar,
                 notional |-> 0, volume |-> 0]
      BY <3>2 DEF EmptyAccumulator
    <3> HIDE DEF acc
    <3>6. acc \in Accumulator /\ acc.period_ns = LengthOf(period) /\ acc.bar_start_ns = 0
      BY <3>4, <3>5 DEF Accumulator
    <3> QED
      BY <1>2, <3>1, <3>3, <3>6 DEF Fits, acc
  <2> QED
    BY <2>1, <2>2
<1>14. CountedArePriced'
  BY <1>1, <1>2, <1>4, <1>7 DEF MarketInv, CountedArePriced
<1>15. ListsCounted'
  <2>1. /\ \A k \in Keys : bar_subscriptions_[k] >= Sum(bar_subs_[k], Managers)
        /\ \A s \in Symbols : tick_subscriptions_[s] >= Sum(tick_subs_[s], Managers)
    BY DEF MarketInv, ListsCounted
  <2>2. /\ Sum(bar_subs_[key], Managers) \in Nat
        /\ \/ Sum(bar_subs_'[key], Managers) = Sum(bar_subs_[key], Managers)
           \/ Sum(bar_subs_'[key], Managers) = Sum(bar_subs_[key], Managers) + 1
    BY <1>9, ListGrows
  <2>3. bar_subscriptions_'[key] >= Sum(bar_subs_'[key], Managers)
    <3>1. bar_subscriptions_[key] >= Sum(bar_subs_[key], Managers)
      BY <1>2, <2>1
    <3> HIDE DEF key
    <3> QED
      BY <1>7, <2>2, <3>1
  <2>4. \A k \in Keys : bar_subscriptions_'[k] >= Sum(bar_subs_'[k], Managers)
    BY <1>7, <1>9, <2>1, <2>3
  <2> QED
    BY <1>1, <2>1, <2>4 DEF ListsCounted
<1>16. ListsNeedAFeed' /\ ListsRequested'
  BY <1>1 DEF MarketInv, ListsNeedAFeed, ListsRequested, register_subscription
<1> QED
  BY <1>8, <1>10, <1>11, <1>12, <1>13, <1>14, <1>15, <1>16 DEF MarketInv

LEMMA AdapterSubscription_Inv ==
    ASSUME MarketInv, NEW m \in Managers, NEW symbol \in Symbols, NEW period \in Periods \cup {None},
           kind # "simulated", register_subscription(m, symbol, period)
    PROVE  MarketInv'
<1>1. /\ kind # None /\ AdapterSubscribe(symbol, period)
      /\ \/ /\ period = None
            /\ tick_subs_' = [tick_subs_ EXCEPT ![symbol][m] = @ + 1] /\ bar_subs_' = bar_subs_
         \/ /\ period # None
            /\ bar_subs_' = [bar_subs_ EXCEPT ![<<symbol, period>>][m] = @ + 1]
            /\ tick_subs_' = tick_subs_
      /\ UNCHANGED <<symbols_, tick_subscriptions_, bar_subscriptions_, accumulators_, emit,
                     crashed, tape, since, closed, badPeriods, kind, last_tick>>
  BY DEF register_subscription, feedVars, subscriptions
<1>2. FeedType /\ RegistryType
  BY DEF MarketInv
<1>3. PassIsDated' /\ BarsFit' /\ BadPeriodsKnown' /\ TickIsLatest'
      /\ (emit.pc = "dead" => crashed)'
  BY <1>1, SameBars
<1>4. /\ tick_subs_' \in [Symbols -> [Managers -> Nat]]
      /\ \A s \in Symbols, n \in Managers : tick_subs_[s][n] > 0 => tick_subs_'[s][n] > 0
  <2>1. tick_subs_ \in [Symbols -> [Managers -> Nat]]
    BY <1>2 DEF RegistryType
  <2>2. CASE tick_subs_' = tick_subs_
    BY <2>1, <2>2
  <2>3. CASE tick_subs_' = [tick_subs_ EXCEPT ![symbol][m] = @ + 1]
    BY <2>1, <2>3
  <2> QED
    BY <1>1, <2>2, <2>3
<1>5. /\ bar_subs_' \in [Keys -> [Managers -> Nat]]
      /\ \A k \in Keys, n \in Managers :
            bar_subs_'[k][n] > 0 => \/ bar_subs_[k][n] > 0
                                    \/ k = <<symbol, period>> /\ period # None
  <2>1. bar_subs_ \in [Keys -> [Managers -> Nat]]
    BY <1>2 DEF RegistryType
  <2>2. CASE period = None
    BY <1>1, <2>1, <2>2
  <2>3. CASE period # None
    <3> DEFINE key == <<symbol, period>>
               list == bar_subs_[key]
               more == [list EXCEPT ![m] = @ + 1]
    <3>1. key \in Keys
      BY <2>3 DEF Keys
    <3> HIDE DEF key
    <3>2. list \in [Managers -> Nat] /\ more \in [Managers -> Nat]
      BY <2>1, <3>1
    <3>3. bar_subs_' = [bar_subs_ EXCEPT ![key] = more]
      BY <1>1, <2>3 DEF key
    <3> HIDE DEF more
    <3>4. /\ bar_subs_' \in [Keys -> [Managers -> Nat]]
          /\ \A k \in Keys : k # key => bar_subs_'[k] = bar_subs_[k]
      BY <2>1, <3>1, <3>2, <3>3
    <3> QED
      BY <2>3, <3>4 DEF key
  <2> QED
    BY <2>2, <2>3
<1>6. FeedType' /\ RegistryType'
  BY <1>1, <1>2, <1>4, <1>5 DEF FeedType, RegistryType
<1>7. CrashesAreExplained'
  BY <1>1 DEF MarketInv, CrashesAreExplained, AdapterSubscribe
<1>8. CountedArePriced' /\ ListsCounted' /\ ListsNeedAFeed'
  BY <1>1 DEF MarketInv, CountedArePriced, ListsCounted, ListsNeedAFeed
<1>9. HearersListed' /\ HearersCopied'
  BY <1>1, <1>4 DEF MarketInv, HearersListed, HearersCopied
<1>10. TicksArriveWithoutGaps'
  <2>1. HearersListed
    BY DEF MarketInv
  <2> QED
    BY <1>1, <2>1 DEF MarketInv, TicksArriveWithoutGaps, HearersListed
<1>11. ListsRequested'
  <2>1. subscriptions_' = [s \in DOMAIN subscriptions_ \cup {symbol} |->
           IF s = symbol THEN Periods_Of(subscriptions_, s) \cup ({period} \ {None})
           ELSE subscriptions_[s]]
    BY <1>1 DEF AdapterSubscribe
  <2>2. /\ \A s : Periods_Of(subscriptions_, s) \subseteq Periods_Of(subscriptions_', s)
        /\ period # None => period \in Periods_Of(subscriptions_', symbol)
    BY <2>1 DEF Periods_Of
  <2> SUFFICES ASSUME kind = "adapter", NEW k \in Keys, NEW n \in Managers, bar_subs_'[k][n] > 0
               PROVE  k[2] \in Periods_Of(subscriptions_', k[1])
    BY <1>1 DEF ListsRequested
  <2>3. CASE bar_subs_[k][n] > 0
    BY <2>2, <2>3 DEF MarketInv, ListsRequested
  <2>4. CASE k = <<symbol, period>> /\ period # None
    BY <2>2, <2>4
  <2> QED
    BY <1>5, <2>3, <2>4
<1> QED
  BY <1>3, <1>6, <1>7, <1>8, <1>9, <1>10, <1>11 DEF MarketInv

LEMMA RegisterSubscription_Inv ==
    ASSUME MarketInv, NEW m \in Managers, NEW symbol \in Symbols, NEW period \in Periods \cup {None},
           register_subscription(m, symbol, period)
    PROVE  MarketInv'
<1>1. CASE kind = "simulated" /\ period = None
  BY <1>1, SubscribeTicks_Inv
<1>2. CASE kind = "simulated" /\ period # None
  <2>1. period \in Periods
    BY <1>2
  <2> QED
    BY <1>2, <2>1, SubscribeBars_Inv
<1>3. CASE kind # "simulated"
  BY <1>3, AdapterSubscription_Inv
<1> QED
  BY <1>1, <1>2, <1>3

LEMMA UnregisterManager_Inv ==
    ASSUME MarketInv, NEW m \in Managers, unregister_manager(m)
    PROVE  MarketInv'
<1>1. /\ tick_subs_' = [s \in Symbols |-> [tick_subs_[s] EXCEPT ![m] = 0]]
      /\ bar_subs_' = [k \in Keys |-> [bar_subs_[k] EXCEPT ![m] = 0]]
      /\ last_tick' = [last_tick EXCEPT ![m] = [s \in Symbols |-> 0]]
      /\ UNCHANGED <<symbols_, tick_subscriptions_, bar_subscriptions_, accumulators_, emit,
                     crashed, tape, since, closed, badPeriods, subscriptions_, stream, requested,
                     torn, kind>>
  BY DEF unregister_manager, feedVars, subscriptions, adapterFeedVars
<1>2. FeedType /\ RegistryType
  BY DEF MarketInv
<1>3. PassIsDated' /\ BarsFit' /\ BadPeriodsKnown' /\ TickIsLatest'
      /\ (emit.pc = "dead" => crashed)'
  BY <1>1, SameBars
<1>4. /\ tick_subs_' \in [Symbols -> [Managers -> Nat]]
      /\ bar_subs_' \in [Keys -> [Managers -> Nat]]
      /\ last_tick' \in [Managers -> [Symbols -> Nat]]
  BY <1>1, <1>2 DEF RegistryType
<1>5. /\ \A n \in Managers, s \in Symbols :
            /\ tick_subs_'[s][n] = IF n = m THEN 0 ELSE tick_subs_[s][n]
            /\ last_tick'[n][s] = IF n = m THEN 0 ELSE last_tick[n][s]
      /\ \A n \in Managers, k \in Keys : bar_subs_'[k][n] = IF n = m THEN 0 ELSE bar_subs_[k][n]
  BY <1>1, <1>2 DEF RegistryType
<1>6. FeedType' /\ RegistryType'
  BY <1>1, <1>2, <1>4 DEF FeedType, RegistryType
<1>7. CrashesAreExplained' /\ CountedArePriced'
  BY <1>1 DEF MarketInv, CrashesAreExplained, CountedArePriced
<1>8. ListsNeedAFeed'
  BY <1>1, <1>5 DEF MarketInv, ListsNeedAFeed
<1>9. ListsRequested'
  BY <1>1, <1>5 DEF MarketInv, ListsRequested
<1>10. HearersListed'
  BY <1>5 DEF MarketInv, HearersListed
<1>11. HearersCopied'
  BY <1>1, <1>5 DEF MarketInv, HearersCopied
<1>12. TicksArriveWithoutGaps'
  BY <1>1, <1>5 DEF MarketInv, TicksArriveWithoutGaps
<1>13. ListsCounted'
  <2> SUFFICES ASSUME kind = "simulated"
               PROVE  /\ \A s \in Symbols : tick_subscriptions_[s] >= Sum(tick_subs_'[s], Managers)
                      /\ \A k \in Keys : bar_subscriptions_[k] >= Sum(bar_subs_'[k], Managers)
    BY <1>1 DEF ListsCounted
  <2>1. ASSUME NEW s \in Symbols
        PROVE  tick_subscriptions_[s] >= Sum(tick_subs_'[s], Managers)
    <3>1. tick_subs_[s] \in [Managers -> Nat] /\ tick_subs_'[s] \in [Managers -> Nat]
      BY <1>2, <1>4 DEF RegistryType
    <3>2. tick_subs_'[s] = [tick_subs_[s] EXCEPT ![m] = 0]
      BY <1>1
    <3>3. /\ Sum(tick_subs_'[s], Managers) <= Sum(tick_subs_[s], Managers)
          /\ Sum(tick_subs_[s], Managers) \in Nat
      BY <3>1, <3>2, ListGrows
    <3>4. Sum(tick_subs_'[s], Managers) \in Nat
      BY <3>1, ListGrows
    <3> QED
      BY <1>2, <3>3, <3>4 DEF MarketInv, ListsCounted, FeedType
  <2>2. ASSUME NEW k \in Keys
        PROVE  bar_subscriptions_[k] >= Sum(bar_subs_'[k], Managers)
    <3>1. bar_subs_[k] \in [Managers -> Nat] /\ bar_subs_'[k] \in [Managers -> Nat]
      BY <1>2, <1>4 DEF RegistryType
    <3>2. bar_subs_'[k] = [bar_subs_[k] EXCEPT ![m] = 0]
      BY <1>1
    <3>3. /\ Sum(bar_subs_'[k], Managers) <= Sum(bar_subs_[k], Managers)
          /\ Sum(bar_subs_[k], Managers) \in Nat
      BY <3>1, <3>2, ListGrows
    <3>4. Sum(bar_subs_'[k], Managers) \in Nat
      BY <3>1, ListGrows
    <3> QED
      BY <1>2, <3>3, <3>4 DEF MarketInv, ListsCounted, FeedType
  <2> QED
    BY <2>1, <2>2
<1> QED
  BY <1>3, <1>6, <1>7, <1>8, <1>9, <1>10, <1>11, <1>12, <1>13 DEF MarketInv

LEMMA UnsubscribeTicks_Inv ==
    ASSUME MarketInv, NEW symbol \in Symbols, unsubscribe(symbol, None)
    PROVE  MarketInv'
<1>1. /\ kind = "simulated"
      /\ tick_subscriptions_[symbol] > Sum(tick_subs_[symbol], Managers)
      /\ UnsubscribeTicks(symbol)
      /\ UNCHANGED <<bar_subscriptions_, accumulators_, emit, crashed, tape, since, closed,
                     badPeriods, subscriptions_, stream, requested, torn, kind, tick_subs_,
                     bar_subs_, last_tick>>
  BY DEF unsubscribe, UnsubscribeTicks, adapterFeedVars, registryVars, Registered, Sum
<1>2. FeedType /\ RegistryType
  BY DEF MarketInv
<1>3. PassIsDated' /\ BarsFit' /\ BadPeriodsKnown' /\ TickIsLatest'
      /\ (emit.pc = "dead" => crashed)'
  BY <1>1, SameBars
<1>4. Sum(tick_subs_[symbol], Managers) \in Nat /\ tick_subscriptions_[symbol] \in Nat
  <2>1. IsFiniteSet(Managers) /\ \A m \in Managers : tick_subs_[symbol][m] \in Nat
    BY <1>2, RegistryAssumption DEF RegistryType
  <2> QED
    BY <1>2, <2>1, SumNat DEF FeedType
<1>5. /\ tick_subscriptions_' \in [Symbols -> Nat]
      /\ tick_subscriptions_'[symbol] = tick_subscriptions_[symbol] - 1
      /\ \A s \in Symbols : s # symbol => tick_subscriptions_'[s] = tick_subscriptions_[s]
  BY <1>1, <1>2, <1>4 DEF UnsubscribeTicks, FeedType
<1>6. symbols_' \in SUBSET Symbols
  BY <1>1, <1>2 DEF UnsubscribeTicks, FeedType
<1>7. FeedType' /\ RegistryType'
  BY <1>1, <1>2, <1>5, <1>6 DEF FeedType, RegistryType
<1>8. CrashesAreExplained' /\ ListsNeedAFeed' /\ ListsRequested' /\ HearersListed' /\ HearersCopied'
      /\ TicksArriveWithoutGaps'
  BY <1>1 DEF MarketInv, CrashesAreExplained, ListsNeedAFeed, ListsRequested, HearersListed,
              HearersCopied, TicksArriveWithoutGaps
<1>9. ListsCounted'
  <2>1. tick_subscriptions_'[symbol] >= Sum(tick_subs_[symbol], Managers)
    BY <1>1, <1>4, <1>5
  <2> QED
    BY <1>1, <1>5, <2>1 DEF MarketInv, ListsCounted
<1>10. CountedArePriced'
  <2>1. \A s \in symbols_ : s # symbol => s \in symbols_'
    BY <1>1 DEF UnsubscribeTicks
  <2>2. ASSUME NEW s \in Symbols, tick_subscriptions_'[s] > 0
        PROVE  s \in symbols_'
    <3>1. CASE s = symbol
      <4>1. StillSubscribed(symbol, tick_subscriptions_', bar_subscriptions_)
        BY <2>2, <3>1 DEF StillSubscribed
      <4>2. symbol \in symbols_
        BY <1>1, <1>4 DEF MarketInv, CountedArePriced
      <4> QED
        BY <1>1, <3>1, <4>1, <4>2 DEF UnsubscribeTicks
    <3>2. CASE s # symbol
      BY <1>5, <2>1, <2>2, <3>2 DEF MarketInv, CountedArePriced
    <3> QED
      BY <3>1, <3>2
  <2>3. ASSUME NEW k \in Keys, bar_subscriptions_[k] > 0
        PROVE  k[1] \in symbols_' /\ k \in DOMAIN accumulators_
    <3>1. k[1] \in symbols_ /\ k \in DOMAIN accumulators_ /\ k = <<k[1], k[2]>> /\ k[2] \in Periods
      BY <2>3 DEF MarketInv, CountedArePriced, Keys
    <3>2. CASE k[1] = symbol
      <4>1. StillSubscribed(symbol, tick_subscriptions_', bar_subscriptions_)
        BY <2>3, <3>1, <3>2 DEF StillSubscribed
      <4> QED
        BY <1>1, <3>1, <4>1 DEF UnsubscribeTicks
    <3>3. CASE k[1] # symbol
      BY <2>1, <3>1, <3>3
    <3> QED
      BY <3>1, <3>2, <3>3
  <2> QED
    BY <1>1, <2>2, <2>3 DEF CountedArePriced
<1> QED
  BY <1>3, <1>7, <1>8, <1>9, <1>10 DEF MarketInv

LEMMA UnsubscribeBars_Inv ==
    ASSUME MarketInv, NEW symbol \in Symbols, NEW period \in Periods, period # None,
           unsubscribe(symbol, period)
    PROVE  MarketInv'
<1> DEFINE key == <<symbol, period>>
           count == bar_subscriptions_[key]
           listed == Sum(bar_subs_[key], Managers)
<1>1. /\ kind = "simulated" /\ count > listed
      /\ bar_subscriptions_' = [bar_subscriptions_ EXCEPT ![key] = IF @ > 0 THEN @ - 1 ELSE 0]
      /\ accumulators_' = IF count = 1 THEN [k \in DOMAIN accumulators_ \ {key} |-> accumulators_[k]]
                          ELSE accumulators_
      /\ symbols_' = IF StillSubscribed(symbol, tick_subscriptions_, bar_subscriptions_')
                     THEN symbols_ ELSE symbols_ \ {symbol}
      /\ UNCHANGED <<tick_subscriptions_, emit, crashed, tape, since, closed,
                     badPeriods, subscriptions_, stream, requested, torn, kind, tick_subs_,
                     bar_subs_, last_tick>>
  BY DEF unsubscribe, UnsubscribeBars, adapterFeedVars, registryVars, Registered, Sum
<1>2. FeedType /\ RegistryType /\ key \in Keys /\ key[1] = symbol /\ key[2] = period
  BY DEF MarketInv, Keys
<1>3. listed \in Nat /\ count \in Nat /\ count > 0
  <2>1. IsFiniteSet(Managers) /\ \A m \in Managers : bar_subs_[key][m] \in Nat
    BY <1>2, RegistryAssumption DEF RegistryType
  <2>2. listed \in Nat
    <3> HIDE DEF key
    <3> QED
      BY <2>1, SumNat
  <2>3. count \in Nat
    BY <1>2 DEF FeedType
  <2> HIDE DEF count, listed
  <2> QED
    BY <1>1, <2>2, <2>3
<1>4. /\ bar_subscriptions_' \in [Keys -> Nat]
      /\ bar_subscriptions_'[key] = count - 1
      /\ \A k \in Keys : k # key => bar_subscriptions_'[k] = bar_subscriptions_[k]
  <2>1. bar_subscriptions_' = [bar_subscriptions_ EXCEPT ![key] = count - 1] /\ count - 1 \in Nat
    <3>1. bar_subscriptions_' = [bar_subscriptions_ EXCEPT ![key] = IF count > 0 THEN count - 1 ELSE 0]
      BY <1>1
    <3> HIDE DEF count
    <3>2. count - 1 \in Nat /\ (IF count > 0 THEN count - 1 ELSE 0) = count - 1
      BY <1>3
    <3> QED
      BY <3>1, <3>2
  <2> HIDE DEF key, count
  <2> QED
    BY <1>2, <2>1 DEF FeedType
<1> HIDE DEF key
<1>5. /\ DOMAIN accumulators_' \in SUBSET DOMAIN accumulators_
      /\ \A k \in DOMAIN accumulators_' : accumulators_'[k] = accumulators_[k]
      /\ \A k \in DOMAIN accumulators_ : k # key \/ count # 1 => k \in DOMAIN accumulators_'
  <2>1. CASE count = 1
    BY <1>1, <2>1
  <2>2. CASE count # 1
    BY <1>1, <2>2
  <2> QED
    BY <2>1, <2>2
<1>6. FeedType' /\ RegistryType'
  <2>1. symbols_' \in SUBSET Symbols /\ DOMAIN accumulators_' \in SUBSET Keys
    BY <1>1, <1>2, <1>5 DEF FeedType
  <2> QED
    BY <1>1, <1>2, <1>4, <2>1 DEF FeedType, RegistryType
<1>7. PassIsDated' /\ TickIsLatest' /\ (emit.pc = "dead" => crashed)'
      /\ CrashesAreExplained' /\ ListsNeedAFeed' /\ ListsRequested' /\ HearersListed'
      /\ HearersCopied' /\ TicksArriveWithoutGaps'
  BY <1>1 DEF MarketInv, PassIsDated, InPass, TickIsLatest, CrashesAreExplained,
              ListsNeedAFeed, ListsRequested, HearersListed, HearersCopied, TicksArriveWithoutGaps
<1>8. BarsFit' /\ BadPeriodsKnown'
  BY <1>1, <1>5 DEF MarketInv, BarsFit, BadPeriodsKnown
<1>9. ListsCounted'
  <2>1. bar_subscriptions_'[key] >= Sum(bar_subs_[key], Managers)
    <3>1. bar_subscriptions_'[key] >= listed
      <4> HIDE DEF count, listed
      <4> QED
        BY <1>1, <1>3, <1>4
    <3> QED
      BY <3>1
  <2> QED
    BY <1>1, <1>4, <2>1 DEF MarketInv, ListsCounted
<1>10. CountedArePriced'
  <2>1. \A s \in symbols_ : s # symbol => s \in symbols_'
    BY <1>1
  <2>2. ASSUME NEW s \in Symbols, tick_subscriptions_[s] > 0
        PROVE  s \in symbols_'
    <3>1. s \in symbols_
      BY <2>2 DEF MarketInv, CountedArePriced
    <3>2. s = symbol => StillSubscribed(symbol, tick_subscriptions_, bar_subscriptions_')
      BY <2>2 DEF StillSubscribed
    <3> QED
      BY <1>1, <2>1, <3>1, <3>2
  <2>3. ASSUME NEW k \in Keys, bar_subscriptions_'[k] > 0
        PROVE  k[1] \in symbols_' /\ k \in DOMAIN accumulators_'
    <3>1. bar_subscriptions_[k] > 0 /\ (k = key => count # 1)
      <4>1. CASE k = key
        BY <1>3, <1>4, <2>3, <4>1
      <4>2. CASE k # key
        BY <1>4, <2>3, <4>2
      <4> QED
        BY <4>1, <4>2
    <3>2. k[1] \in symbols_ /\ k \in DOMAIN accumulators_ /\ k = <<k[1], k[2]>> /\ k[2] \in Periods
      BY <3>1 DEF MarketInv, CountedArePriced, Keys
    <3>3. k[1] = symbol => StillSubscribed(symbol, tick_subscriptions_, bar_subscriptions_')
      BY <2>3, <3>2 DEF StillSubscribed
    <3>4. k[1] \in symbols_'
      BY <1>1, <2>1, <3>2, <3>3
    <3> QED
      BY <1>5, <3>1, <3>2, <3>4
  <2> QED
    BY <1>1, <2>2, <2>3 DEF CountedArePriced
<1> QED
  BY <1>6, <1>7, <1>8, <1>9, <1>10 DEF MarketInv

\* What the registry keeps is not changed by the feed's thread.
LEMMA SameLists ==
    ASSUME MarketInv, UNCHANGED <<subscriptions, subscriptions_, tick_subs_, bar_subs_, kind>>,
           DOMAIN accumulators_' = DOMAIN accumulators_
    PROVE  ListsCounted' /\ CountedArePriced' /\ ListsNeedAFeed' /\ ListsRequested'
BY DEF MarketInv, subscriptions, ListsCounted, CountedArePriced, ListsNeedAFeed, ListsRequested

LEMMA Snapshot_Inv ==
    ASSUME MarketInv, kind = "simulated", NEW now \in StartTime .. MaxTime, Snapshot(now),
           UNCHANGED <<last_tick, adapterFeedVars, kind, running_, tick_subs_, bar_subs_, made>>
    PROVE  MarketInv'
<1>1. /\ emit' = [pc |-> "pricing", symbols |-> symbols_, now |-> now,
                  ticks |-> {s \in Symbols : tick_subscriptions_[s] > 0}]
      /\ UNCHANGED <<subscriptions, symbols_, tick_subscriptions_, bar_subscriptions_, crashed,
                     since, badPeriods, accumulators_, tape, closed, subscriptions_, torn>>
  BY DEF Snapshot, emitUnchanged, subscriptions, adapterFeedVars
<1>2. FeedType /\ RegistryType
  BY DEF MarketInv
<1>3. now \in Nat /\ StartTime <= now
  BY FeedAssumption
<1>4. emit' \in Pass
  BY <1>1, <1>2, <1>3 DEF Pass, FeedType
<1>5. FeedType' /\ RegistryType'
  BY <1>1, <1>2, <1>3, <1>4 DEF FeedType, RegistryType
<1>6. PassIsDated' /\ TickIsLatest' /\ (emit.pc = "dead" => crashed)'
  BY <1>1, <1>3 DEF PassIsDated, TickIsLatest
<1>7. BarsFit' /\ BadPeriodsKnown' /\ CrashesAreExplained' /\ HearersListed'
  BY <1>1 DEF MarketInv, BarsFit, BadPeriodsKnown, CrashesAreExplained, HearersListed, adapterFeedVars
<1>8. ListsCounted' /\ CountedArePriced' /\ ListsNeedAFeed' /\ ListsRequested'
  BY <1>1, SameLists
<1>9. HearersCopied'
  <2> SUFFICES ASSUME NEW m \in Managers, NEW s \in Symbols, last_tick[m][s] > 0
               PROVE  tick_subscriptions_[s] > 0
    BY <1>1 DEF HearersCopied
  <2>1. tick_subs_[s][m] > 0 /\ tick_subs_[s] \in [Managers -> Nat]
    BY <1>2 DEF MarketInv, HearersListed, RegistryType
  <2>2. tick_subs_[s][m] <= Sum(tick_subs_[s], Managers) /\ Sum(tick_subs_[s], Managers) \in Nat
        /\ tick_subs_[s][m] \in Nat
    BY <2>1, ListGrows
  <2>3. tick_subscriptions_[s] >= Sum(tick_subs_[s], Managers) /\ tick_subscriptions_[s] \in Nat
    BY <1>2 DEF MarketInv, ListsCounted, FeedType
  <2> QED
    BY <2>1, <2>2, <2>3
<1>10. TicksArriveWithoutGaps'
  <2>1. emit.pc = "idle"
    BY DEF Snapshot
  <2> QED
    BY <1>1, <2>1 DEF MarketInv, TicksArriveWithoutGaps
<1> QED
  BY <1>5, <1>6, <1>7, <1>8, <1>9, <1>10 DEF MarketInv

\* Each bar of the priced symbol takes the tick, and what it completes is counted.
LEMMA AccumulateFits ==
    ASSUME MarketInv, NEW k \in DOMAIN accumulators_, NEW tick \in Tick,
           accumulators_[k].period_ns # 0, StartTime <= tick.ts
    PROVE  /\ Fits(Accumulate(k, tick), k, Append(tape[k[1]], tick), since[k],
                   IF Completes(k, tick) THEN closed[k] + accumulators_[k].bar.volume ELSE closed[k])
           /\ Completes(k, tick) => accumulators_[k].bar.volume \in Nat
           /\ accumulators_[k].bar \in Bar \cup {NoBar}
<1> DEFINE acc == accumulators_[k]
           list == tape[k[1]]
           s == since[k]
           c == closed[k]
<1>1. /\ k \in Keys /\ k[1] \in Symbols /\ k[2] \in Periods /\ list \in Seq(Tick) /\ s \in Nat
      /\ c \in Nat /\ Fits(acc, k, list, s, c)
  <2>1. k \in Keys
    BY DEF MarketInv, FeedType
  <2>2. k[1] \in Symbols /\ k[2] \in Periods
    BY <2>1 DEF Keys
  <2> QED
    BY <2>1, <2>2 DEF MarketInv, FeedType, BarsFit
<1>2. acc \in Accumulator /\ acc.period_ns = LengthOf(k[2]) /\ acc.period_ns > 0
      /\ acc.bar \in Bar \cup {NoBar}
  BY <1>1 DEF Fits, Accumulator
<1>3. CASE acc.bar_start_ns = 0
  <2>1. c = 0 /\ s = Len(list) /\ Len(list) \in Nat
    BY <1>1, <1>3, LenProperties DEF Fits
  <2>2. ~Completes(k, tick) /\ Accumulate(k, tick) = start_bar(acc, k[1], k[2], tick)
    BY <1>3 DEF Completes, Accumulate
  <2>3. c = Len(list) - s /\ \A i \in s + 1 .. Len(list) : FALSE
    BY <2>1
  <2> HIDE DEF acc, list, s, c
  <2>4. Fits(start_bar(acc, k[1], k[2], tick), k, Append(list, tick), s, c)
    BY <1>1, <1>2, <2>3, StartFits
  <2> QED
    BY <1>2, <2>2, <2>4 DEF acc, list, s, c
<1>4. CASE acc.bar_start_ns # 0 /\ Completes(k, tick)
  <2>1. /\ tick.ts >= acc.bar_start_ns + acc.period_ns
        /\ Accumulate(k, tick) = start_bar(acc, k[1], k[2], tick)
        /\ acc.bar.volume = acc.volume /\ acc.volume \in Nat
    BY <1>1, <1>2, <1>4 DEF Completes, Accumulate, Fits, Builds, Accumulator
  <2> HIDE DEF acc, list, s, c
  <2>2. Fits(start_bar(acc, k[1], k[2], tick), k, Append(list, tick), s, c + acc.volume)
    BY <1>1, <1>4, <2>1, CompletionFits
  <2> QED
    BY <1>2, <1>4, <2>1, <2>2 DEF acc, list, s, c
<1>5. CASE acc.bar_start_ns # 0 /\ ~Completes(k, tick)
  <2>1. ~Complete(acc, tick) /\ Accumulate(k, tick) = update_bar(acc, tick)
    BY <1>5 DEF Completes, Accumulate, Complete
  <2> HIDE DEF acc, list, s, c
  <2>2. Fits(update_bar(acc, tick), k, Append(list, tick), s, c)
    BY <1>1, <1>5, <2>1, UpdateFits
  <2> QED
    BY <1>2, <1>5, <2>1, <2>2 DEF acc, list, s, c
<1> QED
  BY <1>3, <1>4, <1>5

LEMMA PriceCrash_Inv ==
    ASSUME MarketInv, NEW symbol \in Symbols, NEW last \in Prices, Price(symbol, last),
           \E k \in BuildsFor(symbol) : accumulators_[k].period_ns = 0,
           UNCHANGED <<last_tick, adapterFeedVars, kind, running_, tick_subs_, bar_subs_, made>>
    PROVE  MarketInv'
<1>1. /\ crashed' = TRUE /\ emit' = [pc |-> "dead"]
      /\ UNCHANGED <<accumulators_, tape, closed, subscriptions, symbols_, tick_subscriptions_,
                     bar_subscriptions_, since, badPeriods, subscriptions_, torn>>
  BY DEF Price, subscriptions, adapterFeedVars
<1>2. FeedType' /\ RegistryType'
  BY <1>1 DEF MarketInv, FeedType, RegistryType
<1>3. BarsFit' /\ BadPeriodsKnown' /\ HearersListed'
  BY <1>1 DEF MarketInv, BarsFit, BadPeriodsKnown, HearersListed
<1>4. PassIsDated' /\ TickIsLatest' /\ HearersCopied' /\ (emit.pc = "dead" => crashed)'
      /\ TicksArriveWithoutGaps'
  BY <1>1 DEF PassIsDated, InPass, TickIsLatest, HearersCopied, TicksArriveWithoutGaps
<1>5. ListsCounted' /\ CountedArePriced' /\ ListsNeedAFeed' /\ ListsRequested'
  BY <1>1, SameLists
<1>6. CrashesAreExplained'
  <2>1. PICK k \in BuildsFor(symbol) : accumulators_[k].period_ns = 0
    OBVIOUS
  <2>2. k \in DOMAIN accumulators_ /\ LengthOf(k[2]) = 0
    BY <2>1 DEF BuildsFor, MarketInv, BarsFit, Fits
  <2>3. k \in Keys
    BY <2>2 DEF MarketInv, FeedType
  <2>4. k[2] \in Periods
    BY <2>3 DEF Keys
  <2>5. ~ValidPeriod(k[2])
    BY <2>2, <2>4, PeriodLength
  <2>6. badPeriods
    BY <2>2, <2>5 DEF MarketInv, BadPeriodsKnown
  <2> QED
    BY <1>1, <2>6 DEF CrashesAreExplained
<1> QED
  BY <1>2, <1>3, <1>4, <1>5, <1>6 DEF MarketInv

LEMMA PriceTick_Inv ==
    ASSUME MarketInv, NEW symbol \in Symbols, NEW last \in Prices, Price(symbol, last),
           ~ \E k \in BuildsFor(symbol) : accumulators_[k].period_ns = 0,
           UNCHANGED <<last_tick, adapterFeedVars, kind, running_, tick_subs_, bar_subs_, made>>
    PROVE  MarketInv'
<1> DEFINE tick == [symbol |-> symbol, last |-> last, ts |-> emit.now, n |-> Len(tape[symbol]) + 1]
           done == {k \in BuildsFor(symbol) : Completes(k, tick)}
<1>1. /\ emit.pc = "pricing" /\ symbol \in emit.symbols
      /\ tape' = [tape EXCEPT ![symbol] = Append(@, tick)]
      /\ accumulators_' = [k \in DOMAIN accumulators_ |->
             IF k \in BuildsFor(symbol) THEN Accumulate(k, tick) ELSE accumulators_[k]]
      /\ closed' = [k \in Keys |-> IF k \in done THEN closed[k] + accumulators_[k].bar.volume
                                   ELSE closed[k]]
      /\ emit' = [pc |-> "ticking", symbols |-> emit.symbols \ {symbol},
                  now |-> emit.now, ticks |-> emit.ticks, tick |-> tick,
                  bars |-> {accumulators_[k].bar : k \in done}]
      /\ UNCHANGED <<crashed, subscriptions, symbols_, tick_subscriptions_, bar_subscriptions_,
                     since, badPeriods, subscriptions_, torn>>
  BY DEF Price, subscriptions, adapterFeedVars
<1>2. FeedType /\ RegistryType
  BY DEF MarketInv
<1>3. emit \in Pass /\ StartTime <= emit.now
  <2>1. StartTime <= emit.now
    BY <1>1 DEF MarketInv, PassIsDated, InPass
  <2>2. emit \in {[pc |-> "idle"], [pc |-> "dead"]} \cup Pass \cup Delivery
    BY <1>2 DEF FeedType
  <2> QED
    BY <1>1, <2>1, <2>2 DEF Pass, Delivery
<1>4. /\ tape[symbol] \in Seq(Tick) /\ Len(tape[symbol]) \in Nat
      /\ last \in Nat /\ tick \in Tick /\ StartTime <= tick.ts /\ tick.symbol = symbol
      /\ tick.n = Len(tape[symbol]) + 1
  <2>1. tape[symbol] \in Seq(Tick)
    BY <1>2 DEF FeedType
  <2>2. Len(tape[symbol]) \in Nat
    BY <2>1, LenProperties
  <2>3. last \in Nat
    BY FeedAssumption
  <2>4. emit.now \in Nat /\ tick.ts = emit.now
    BY <1>3 DEF Pass
  <2>5. tick \in Tick
    BY <2>2, <2>3, <2>4 DEF Tick
  <2> QED
    BY <1>3, <2>1, <2>2, <2>3, <2>4, <2>5
<1> HIDE DEF tick
<1>5. /\ tape'[symbol] = Append(tape[symbol], tick)
      /\ \A s \in Symbols : s # symbol => tape'[s] = tape[s]
      /\ tape' \in [Symbols -> Seq(Tick)]
      /\ Len(tape'[symbol]) = Len(tape[symbol]) + 1
  <2>1. Append(tape[symbol], tick) \in Seq(Tick)
        /\ Len(Append(tape[symbol], tick)) = Len(tape[symbol]) + 1
    BY <1>4, AppendTick
  <2> QED
    BY <1>1, <1>2, <2>1 DEF FeedType
<1>6. \A k \in BuildsFor(symbol) : k \in DOMAIN accumulators_ /\ k \in Keys /\ k[1] = symbol
  BY <1>2 DEF BuildsFor, FeedType
<1>7. ASSUME NEW k \in BuildsFor(symbol)
      PROVE  /\ Fits(Accumulate(k, tick), k, tape'[k[1]], since[k],
                     IF Completes(k, tick) THEN closed[k] + accumulators_[k].bar.volume ELSE closed[k])
             /\ Completes(k, tick) => accumulators_[k].bar.volume \in Nat
             /\ accumulators_[k].bar \in Bar \cup {NoBar}
  <2>1. accumulators_[k].period_ns # 0
    OBVIOUS
  <2>2. /\ Fits(Accumulate(k, tick), k, Append(tape[k[1]], tick), since[k],
                IF Completes(k, tick) THEN closed[k] + accumulators_[k].bar.volume ELSE closed[k])
        /\ Completes(k, tick) => accumulators_[k].bar.volume \in Nat
        /\ accumulators_[k].bar \in Bar \cup {NoBar}
    BY <1>4, <1>6, <2>1, AccumulateFits
  <2> QED
    BY <1>5, <1>6, <2>2
<1>8. closed' \in [Keys -> Nat]
  <2>1. \A k \in Keys : closed[k] \in Nat
    BY <1>2 DEF FeedType
  <2>2. \A k \in done : accumulators_[k].bar.volume \in Nat
    BY <1>7
  <2>3. \A k \in Keys : (IF k \in done THEN closed[k] + accumulators_[k].bar.volume ELSE closed[k]) \in Nat
    <3> HIDE DEF done
    <3> QED
      BY <2>1, <2>2
  <2> HIDE DEF done
  <2> QED
    BY <1>1, <2>3
<1>9. emit' \in Delivery
  <2>1. {accumulators_[k].bar : k \in done} \in SUBSET (Bar \cup {NoBar})
    BY <1>7
  <2>2. emit.symbols \ {symbol} \in SUBSET Symbols /\ emit.ticks \in SUBSET Symbols /\ emit.now \in Nat
    BY <1>3 DEF Pass
  <2> HIDE DEF done
  <2> QED
    BY <1>1, <1>4, <2>1, <2>2 DEF Delivery
<1>10. FeedType' /\ RegistryType'
  <2>1. DOMAIN accumulators_' = DOMAIN accumulators_
    BY <1>1
  <2> QED
    BY <1>1, <1>2, <1>5, <1>8, <1>9, <2>1 DEF FeedType, RegistryType
<1>11. BarsFit'
  <2> SUFFICES ASSUME NEW k \in DOMAIN accumulators_
               PROVE  Fits(accumulators_'[k], k, tape'[k[1]], since[k], closed'[k])
    BY <1>1 DEF BarsFit
  <2>0. k \in Keys /\ k[1] \in Symbols
    <3>1. k \in Keys
      BY <1>2 DEF FeedType
    <3> QED
      BY <3>1 DEF Keys
  <2>1. CASE k \in BuildsFor(symbol)
    <3>1. accumulators_'[k] = Accumulate(k, tick)
      BY <1>1, <2>1
    <3>2. closed'[k] = IF Completes(k, tick) THEN closed[k] + accumulators_[k].bar.volume ELSE closed[k]
      BY <1>1, <2>0, <2>1
    <3> QED
      BY <1>7, <2>1, <3>1, <3>2
  <2>2. CASE k \notin BuildsFor(symbol)
    <3>1. k[1] # symbol /\ accumulators_'[k] = accumulators_[k] /\ closed'[k] = closed[k]
      BY <1>1, <2>0, <2>2 DEF BuildsFor
    <3> QED
      BY <1>5, <2>0, <3>1 DEF MarketInv, BarsFit
  <2> QED
    BY <2>1, <2>2
<1>12. ListsCounted' /\ CountedArePriced' /\ ListsNeedAFeed' /\ ListsRequested'
  <2>1. DOMAIN accumulators_' = DOMAIN accumulators_
    BY <1>1
  <2> QED
    BY <1>1, <2>1, SameLists
<1>13. BadPeriodsKnown' /\ CrashesAreExplained' /\ HearersListed'
  BY <1>1 DEF MarketInv, BadPeriodsKnown, CrashesAreExplained, HearersListed
<1>14. /\ emit'.pc = "ticking" /\ emit'.symbols = emit.symbols \ {symbol}
       /\ emit'.now = emit.now /\ emit'.ticks = emit.ticks /\ emit'.tick = tick
  BY <1>1
<1>15. PassIsDated' /\ TickIsLatest' /\ (emit.pc = "dead" => crashed)'
  BY <1>1, <1>3, <1>4, <1>5, <1>14 DEF PassIsDated, TickIsLatest
<1>16. HearersCopied'
  BY <1>1, <1>4, <1>14 DEF MarketInv, HearersCopied
<1>17. TicksArriveWithoutGaps'
  <2> SUFFICES ASSUME NEW s \in Symbols, NEW m \in Managers, tick_subs_[s][m] > 0, last_tick[m][s] > 0,
                      ~crashed
               PROVE  \/ last_tick[m][s] = Len(tape'[s])
                      \/ /\ emit'.pc = "ticking" /\ emit'.tick.symbol = s
                         /\ last_tick[m][s] = Len(tape'[s]) - 1
    BY <1>1 DEF TicksArriveWithoutGaps
  <2>1. last_tick[m][s] = Len(tape[s])
    BY <1>1 DEF MarketInv, TicksArriveWithoutGaps
  <2> QED
    BY <1>4, <1>5, <1>14, <2>1
<1> QED
  BY <1>10, <1>11, <1>12, <1>13, <1>15, <1>16, <1>17 DEF MarketInv

\* After the tick the thread delivers the bars, then prices the next symbol of the copy.
LEMMA AfterTickIs ==
    ASSUME NEW e \in Delivery
    PROVE  /\ AfterTick(e) \in {[pc |-> "idle"]} \cup Pass \cup Delivery
           /\ AfterTick(e).pc \in {"idle", "pricing", "closing"}
           /\ AfterTick(e).pc # "idle" => /\ AfterTick(e).symbols = e.symbols
                                          /\ AfterTick(e).now = e.now
                                          /\ AfterTick(e).ticks = e.ticks
<1>1. /\ e.symbols \in SUBSET Symbols /\ e.now \in Nat /\ e.ticks \in SUBSET Symbols
      /\ [e EXCEPT !.pc = "closing"] \in Delivery
      /\ [e EXCEPT !.pc = "closing"].pc = "closing"
      /\ [e EXCEPT !.pc = "closing"].symbols = e.symbols
      /\ [e EXCEPT !.pc = "closing"].now = e.now
      /\ [e EXCEPT !.pc = "closing"].ticks = e.ticks
  BY DEF Delivery
<1>2. CASE e.bars # {}
  BY <1>1, <1>2 DEF AfterTick
<1>3. CASE e.bars = {} /\ e.symbols = {}
  BY <1>3 DEF AfterTick, AfterBars
<1>4. CASE e.bars = {} /\ e.symbols # {}
  BY <1>1, <1>4 DEF AfterTick, AfterBars, Pass
<1> QED
  BY <1>2, <1>3, <1>4

\* Delivering bars, and ticks apart from what on_tick keeps of them.
LEMMA Delivered_Inv ==
    ASSUME MarketInv, NEW e \in Delivery, emit' = AfterTick(e), emit \in Delivery,
           e.symbols = emit.symbols, e.now = emit.now, e.ticks = emit.ticks,
           UNCHANGED <<emitUnchanged, accumulators_, tape, closed,
                       adapterFeedVars, kind, running_, tick_subs_, bar_subs_, made>>
    PROVE  /\ FeedType' /\ PassIsDated' /\ BarsFit' /\ BadPeriodsKnown'
           /\ ListsCounted' /\ CountedArePriced' /\ ListsNeedAFeed' /\ ListsRequested'
           /\ TickIsLatest' /\ CrashesAreExplained' /\ (emit.pc = "dead" => crashed)'
<1>1. /\ emit' \in {[pc |-> "idle"]} \cup Pass \cup Delivery
      /\ emit'.pc \in {"idle", "pricing", "closing"}
      /\ emit'.pc # "idle" => /\ emit'.symbols = e.symbols /\ emit'.now = e.now
                              /\ emit'.ticks = e.ticks
  BY AfterTickIs
<1>2. /\ UNCHANGED <<subscriptions, symbols_, tick_subscriptions_, bar_subscriptions_, crashed,
                     since, badPeriods, subscriptions_, torn>>
  BY DEF emitUnchanged, subscriptions, adapterFeedVars
<1>3. FeedType'
  BY <1>1, <1>2 DEF MarketInv, FeedType
<1>4. StartTime <= emit.now
  <2>1. emit.pc \in {"ticking", "closing"}
    BY DEF Delivery
  <2> QED
    BY <2>1 DEF MarketInv, PassIsDated, InPass
<1>5. BarsFit' /\ BadPeriodsKnown' /\ CrashesAreExplained'
  BY <1>2 DEF MarketInv, BarsFit, BadPeriodsKnown, CrashesAreExplained
<1>6. PassIsDated' /\ TickIsLatest' /\ (emit.pc = "dead" => crashed)'
  BY <1>1, <1>4 DEF PassIsDated, InPass, TickIsLatest
<1>7. ListsCounted' /\ CountedArePriced' /\ ListsNeedAFeed' /\ ListsRequested'
  BY <1>2, SameLists
<1> QED
  BY <1>3, <1>5, <1>6, <1>7

LEMMA InDelivery ==
    ASSUME MarketInv, emit.pc \in {"ticking", "closing"}
    PROVE  /\ emit \in Delivery
           /\ emit.tick \in Tick /\ emit.tick.symbol \in Symbols /\ emit.tick.n \in Nat
           /\ emit.bars \in SUBSET (Bar \cup {NoBar})
<1>1. emit \in {[pc |-> "idle"], [pc |-> "dead"]} \cup Pass \cup Delivery
  BY DEF MarketInv, FeedType
<1>2. emit \in Delivery
  BY <1>1 DEF Pass, Delivery
<1>3. emit.tick \in Tick /\ emit.bars \in SUBSET (Bar \cup {NoBar})
  BY <1>2 DEF Delivery
<1> QED
  BY <1>2, <1>3 DEF Tick

LEMMA HandleBar_Inv ==
    ASSUME MarketInv, emit.pc = "closing", NEW bar \in emit.bars, HandleBar(bar),
           UNCHANGED <<last_tick, adapterFeedVars, kind, running_, tick_subs_, bar_subs_, made>>
    PROVE  MarketInv'
<1> DEFINE e == [emit EXCEPT !.bars = @ \ {bar}]
<1>1. emit \in Delivery /\ emit.bars \in SUBSET (Bar \cup {NoBar})
  BY InDelivery
<1>2. /\ e \in Delivery
      /\ e.symbols = emit.symbols /\ e.now = emit.now /\ e.ticks = emit.ticks
  BY <1>1 DEF Delivery
<1>3. /\ emit' = AfterTick(e)
      /\ UNCHANGED <<emitUnchanged, accumulators_, tape, closed>>
  BY DEF HandleBar
<1> HIDE DEF e
<1>4. /\ FeedType' /\ PassIsDated' /\ BarsFit' /\ BadPeriodsKnown'
      /\ ListsCounted' /\ CountedArePriced' /\ ListsNeedAFeed' /\ ListsRequested'
      /\ TickIsLatest' /\ CrashesAreExplained' /\ (emit.pc = "dead" => crashed)'
  BY <1>1, <1>2, <1>3, Delivered_Inv
<1>5. /\ emit'.pc \in {"idle", "pricing", "closing"}
      /\ emit'.pc # "idle" => emit'.symbols = emit.symbols /\ emit'.ticks = emit.ticks
  BY <1>2, <1>3, AfterTickIs
<1>6. RegistryType' /\ HearersListed'
  BY DEF MarketInv, RegistryType, HearersListed
<1>7. HearersCopied'
  BY <1>5 DEF MarketInv, HearersCopied
<1>8. crashed' = crashed
  BY <1>3 DEF emitUnchanged
<1>9. TicksArriveWithoutGaps'
  BY <1>3, <1>5, <1>8 DEF MarketInv, TicksArriveWithoutGaps
<1> QED
  BY <1>4, <1>6, <1>7, <1>9 DEF MarketInv

LEMMA HandleTick_Inv ==
    ASSUME MarketInv, HandleTick,
           IF TickWanted(emit) THEN on_tick(emit.tick.symbol, emit.tick.n) ELSE UNCHANGED last_tick,
           UNCHANGED <<adapterFeedVars, kind, running_, tick_subs_, bar_subs_, made>>
    PROVE  MarketInv'
<1> DEFINE symbol == emit.tick.symbol
           n == emit.tick.n
<1>1. /\ emit.pc = "ticking" /\ emit' = AfterTick(emit)
      /\ UNCHANGED <<emitUnchanged, accumulators_, tape, closed, crashed>>
  BY DEF HandleTick, emitUnchanged
<1>2. emit \in Delivery /\ symbol \in Symbols /\ n \in Nat
  BY <1>1, InDelivery
<1>3. /\ FeedType' /\ PassIsDated' /\ BarsFit' /\ BadPeriodsKnown'
      /\ ListsCounted' /\ CountedArePriced' /\ ListsNeedAFeed' /\ ListsRequested'
      /\ TickIsLatest' /\ CrashesAreExplained' /\ (emit.pc = "dead" => crashed)'
  BY <1>1, <1>2, Delivered_Inv
<1>4. /\ emit'.pc \in {"idle", "pricing", "closing"}
      /\ emit'.pc # "idle" => emit'.symbols = emit.symbols /\ emit'.ticks = emit.ticks
  BY <1>1, <1>2, AfterTickIs
<1>5. n = Len(tape[symbol]) /\ symbol \notin emit.symbols
  BY <1>1 DEF MarketInv, TickIsLatest
<1>6. RegistryType
  BY DEF MarketInv
<1> HIDE DEF symbol, n
<1>7. /\ last_tick' \in [Managers -> [Symbols -> Nat]]
      /\ \A m \in Managers, s \in Symbols :
            last_tick'[m][s] = IF symbol \in emit.ticks /\ s = symbol /\ tick_subs_[symbol][m] > 0
                               THEN n ELSE last_tick[m][s]
  <2>1. last_tick \in [Managers -> [Symbols -> Nat]]
    BY <1>6 DEF RegistryType
  <2>2. CASE TickWanted(emit)
    <3>1. last_tick' = [m \in Managers |->
              IF tick_subs_[symbol][m] > 0 THEN [last_tick[m] EXCEPT ![symbol] = n] ELSE last_tick[m]]
      BY <2>2 DEF on_tick, symbol, n
    <3>2. symbol \in emit.ticks
      BY <2>2 DEF TickWanted, symbol
    <3> QED
      BY <1>2, <2>1, <3>1, <3>2
  <2>3. CASE ~TickWanted(emit)
    BY <2>1, <2>3 DEF TickWanted, symbol
  <2> QED
    BY <2>2, <2>3
<1>8. RegistryType'
  BY <1>6, <1>7 DEF RegistryType
<1>9. HearersListed'
  BY <1>7 DEF MarketInv, HearersListed
<1>10. HearersCopied'
  <2> SUFFICES ASSUME NEW m \in Managers, NEW s \in Symbols, last_tick'[m][s] > 0,
                      emit'.pc # "idle", s \in emit'.symbols
               PROVE  s \in emit'.ticks
    BY <1>4 DEF HearersCopied
  <2>1. s \in emit.symbols /\ s # symbol /\ emit'.ticks = emit.ticks
    BY <1>4, <1>5
  <2>2. last_tick[m][s] > 0
    BY <1>7, <2>1
  <2> QED
    BY <1>1, <2>1, <2>2 DEF MarketInv, HearersCopied
<1>11. TicksArriveWithoutGaps'
  <2> SUFFICES ASSUME NEW s \in Symbols, NEW m \in Managers, tick_subs_[s][m] > 0,
                      last_tick'[m][s] > 0, ~crashed
               PROVE  last_tick'[m][s] = Len(tape[s])
    BY <1>1 DEF TicksArriveWithoutGaps
  <2>1. CASE s # symbol
    <3>1. last_tick'[m][s] = last_tick[m][s]
      BY <1>7, <2>1
    <3> QED
      BY <2>1, <3>1 DEF MarketInv, TicksArriveWithoutGaps, symbol
  <2>2. CASE s = symbol
    <3>1. CASE symbol \in emit.ticks
      BY <1>5, <1>7, <2>2, <3>1
    <3>2. CASE symbol \notin emit.ticks
      <4>1. last_tick[m][s] > 0
        BY <1>7, <2>2, <3>2
      <4>2. s \in emit.ticks
        BY <1>1, <2>2, <4>1 DEF MarketInv, HearersCopied, symbol
      <4> QED
        BY <2>2, <3>2, <4>2
    <3> QED
      BY <3>1, <3>2
  <2> QED
    BY <2>1, <2>2
<1> QED
  BY <1>3, <1>8, <1>9, <1>10, <1>11 DEF MarketInv

LEMMA EmitLoop_Inv == MarketInv /\ emit_loop => MarketInv'
<1> SUFFICES ASSUME MarketInv, emit_loop PROVE MarketInv'
  OBVIOUS
<1>1. /\ kind = "simulated"
      /\ UNCHANGED <<adapterFeedVars, kind, running_, tick_subs_, bar_subs_, made>>
  BY DEF emit_loop
<1>2. CASE \E now \in StartTime .. MaxTime : Snapshot(now) /\ UNCHANGED last_tick
  BY <1>1, <1>2, Snapshot_Inv
<1>3. CASE \E symbol \in Symbols, last \in Prices : Price(symbol, last) /\ UNCHANGED last_tick
  <2>1. PICK symbol \in Symbols, last \in Prices : Price(symbol, last) /\ UNCHANGED last_tick
    BY <1>3
  <2>2. CASE \E k \in BuildsFor(symbol) : accumulators_[k].period_ns = 0
    BY <1>1, <2>1, <2>2, PriceCrash_Inv
  <2>3. CASE ~ \E k \in BuildsFor(symbol) : accumulators_[k].period_ns = 0
    BY <1>1, <2>1, <2>3, PriceTick_Inv
  <2> QED
    BY <2>2, <2>3
<1>4. CASE /\ HandleTick
           /\ IF TickWanted(emit) THEN on_tick(emit.tick.symbol, emit.tick.n)
              ELSE UNCHANGED last_tick
  BY <1>1, <1>4, HandleTick_Inv
<1>5. CASE emit.pc = "closing" /\ (\E bar \in emit.bars : HandleBar(bar)) /\ UNCHANGED last_tick
  BY <1>1, <1>5, HandleBar_Inv
<1> QED
  BY <1>2, <1>3, <1>4, <1>5 DEF emit_loop

\* The adapter's stream and the end of the registry leave the lists and the bars alone.
LEMMA Others_Inv ==
    ASSUME MarketInv,
           UNCHANGED <<subscriptions, accumulators_, emit, tape, since, closed, badPeriods,
                       subscriptions_, kind, tick_subs_, bar_subs_, last_tick>>,
           crashed => crashed', CrashesAreExplained'
    PROVE  MarketInv'
<1>1. UNCHANGED <<symbols_, tick_subscriptions_, bar_subscriptions_>>
  BY DEF subscriptions
<1>2. FeedType' /\ RegistryType'
  BY <1>1 DEF MarketInv, FeedType, RegistryType
<1>3. PassIsDated' /\ BarsFit' /\ BadPeriodsKnown' /\ TickIsLatest'
      /\ (emit.pc = "dead" => crashed)'
  BY DEF MarketInv, PassIsDated, InPass, BarsFit, BadPeriodsKnown, TickIsLatest
<1>4. ListsCounted' /\ CountedArePriced' /\ ListsNeedAFeed' /\ ListsRequested'
  BY SameLists
<1>5. HearersListed' /\ HearersCopied'
  BY DEF MarketInv, HearersListed, HearersCopied
<1>6. TicksArriveWithoutGaps'
  BY DEF MarketInv, TicksArriveWithoutGaps
<1> QED
  BY <1>2, <1>3, <1>4, <1>5, <1>6 DEF MarketInv

\* The inductive invariant of market data: what each accumulator, each count of
\* subscriptions and each manager's last tick have to do with the tape.
THEOREM MarketInvariance == MarketSpec => []MarketInv
<1>1. MarketInv /\ [MarketNext]_marketVars => MarketInv'
  <2> SUFFICES ASSUME MarketInv, [MarketNext]_marketVars PROVE MarketInv'
    OBVIOUS
  <2>0. CrashesAreExplained
    BY DEF MarketInv
  <2>1. CASE \E k \in {"simulated", "adapter"} : register_feed(k)
    BY <2>1, RegisterFeed_Inv
  <2>2. CASE \E m \in Managers, symbol \in Symbols, period \in Periods \cup {None} :
                 register_subscription(m, symbol, period)
    BY <2>2, RegisterSubscription_Inv
  <2>3. CASE \E m \in Managers : unregister_manager(m)
    BY <2>3, UnregisterManager_Inv
  <2>4. CASE \E symbol \in Symbols, period \in Periods \cup {None} : unsubscribe(symbol, period)
    <3>1. PICK symbol \in Symbols, period \in Periods \cup {None} : unsubscribe(symbol, period)
      BY <2>4
    <3>2. CASE period = None
      BY <3>1, <3>2, UnsubscribeTicks_Inv
    <3>3. CASE period # None
      <4>1. period \in Periods
        BY <3>3
      <4> QED
        BY <3>1, <3>3, <4>1, UnsubscribeBars_Inv
    <3> QED
      BY <3>2, <3>3
  <2>5. CASE emit_loop
    BY <2>5, EmitLoop_Inv
  <2>6. CASE StreamLoop
    <3>1. UNCHANGED <<feedVars, subscriptions_, torn, registryVars>>
      BY <2>6 DEF StreamLoop, run_stream, OpenWith
    <3> QED
      BY <2>0, <3>1, Others_Inv DEF feedVars, registryVars, CrashesAreExplained
  <2>7. CASE ConnectionBreaks
    BY <2>0, <2>7, Others_Inv DEF ConnectionBreaks, LinkBreaks, feedVars, registryVars,
                                  CrashesAreExplained
  <2>8. CASE TornCopyCrashes
    BY <2>8, Others_Inv DEF TornCopyCrashes, adapterFeedVars, registryVars, CrashesAreExplained
  <2>9. CASE stop_all
    <3>1. UNCHANGED <<feedVars, subscriptions_, torn, kind, tick_subs_, bar_subs_, last_tick>>
      BY <2>9 DEF stop_all, Stop, adapterFeedVars
    <3> QED
      BY <2>0, <3>1, Others_Inv DEF feedVars, CrashesAreExplained
  <2>10. CASE UNCHANGED marketVars
    BY <2>0, <2>10, Others_Inv DEF marketVars, feedVars, adapterFeedVars, registryVars,
                                   CrashesAreExplained
  <2> QED
    BY <2>1, <2>2, <2>3, <2>4, <2>5, <2>6, <2>7, <2>8, <2>9, <2>10 DEF MarketNext
<1> QED
  BY <1>1, MarketInit_Inv, PTL DEF MarketSpec

------------------------------------------------------------------------------
(* What the runs check.                                                     *)

\* The process dies in a feed only of a period that period_to_ns rejected in
\* SimulatedFeed::subscribe, or of a copy of subscriptions_ torn in run_stream.
THEOREM CrashesExplained == MarketSpec => []CrashesAreExplained
<1>1. MarketInv => CrashesAreExplained
  BY DEF MarketInv
<1> QED
  BY <1>1, MarketInvariance, PTL

\* on_tick hands a subscribed manager every tick after its first, in order: the
\* copy of the tick subscriptions that emit_loop works from misses none of them.
THEOREM NoGapsInTicks == MarketSpec => []TicksArriveWithoutGaps
<1>1. MarketInv => TicksArriveWithoutGaps
  BY DEF MarketInv
<1> QED
  BY <1>1, MarketInvariance, PTL

\* Whoever register_subscription has put in a list has a feed that prices the
\* symbol, builds the bar or requests it from the adapter, for any number of
\* managers and whatever unregister_manager and unsubscribe have removed.
THEOREM SubscribersFed == MarketSpec => []SubscribersAreFed
<1>1. MarketInv => SubscribersAreFed
  <2> SUFFICES ASSUME MarketInv PROVE SubscribersAreFed
    OBVIOUS
  <2>1. FeedType /\ RegistryType /\ ListsCounted /\ CountedArePriced /\ ListsRequested
    BY DEF MarketInv
  <2>2. \A list : Registered(list) = Sum(list, Managers)
    BY DEF Registered, Sum
  <2>3. ASSUME NEW s \in Symbols, kind = "simulated"
        PROVE  /\ tick_subscriptions_[s] >= Registered(tick_subs_[s])
               /\ Registered(tick_subs_[s]) > 0 => s \in symbols_
    <3>1. IsFiniteSet(Managers) /\ \A m \in Managers : tick_subs_[s][m] \in Nat
      BY <2>1, RegistryAssumption DEF RegistryType
    <3>2. Sum(tick_subs_[s], Managers) \in Nat
      BY <3>1, SumNat
    <3>3. /\ tick_subscriptions_[s] >= Sum(tick_subs_[s], Managers) /\ tick_subscriptions_[s] \in Nat
          /\ tick_subscriptions_[s] > 0 => s \in symbols_
      BY <2>1, <2>3 DEF ListsCounted, CountedArePriced, FeedType
    <3> QED
      BY <2>2, <3>2, <3>3
  <2>4. ASSUME NEW k \in Keys, kind = "simulated", Registered(bar_subs_[k]) > 0
        PROVE  k[1] \in symbols_ /\ k \in DOMAIN accumulators_
    <3>1. IsFiniteSet(Managers) /\ \A m \in Managers : bar_subs_[k][m] \in Nat
      BY <2>1, RegistryAssumption DEF RegistryType
    <3>2. Sum(bar_subs_[k], Managers) \in Nat
      BY <3>1, SumNat
    <3>3. /\ bar_subscriptions_[k] >= Sum(bar_subs_[k], Managers) /\ bar_subscriptions_[k] \in Nat
          /\ bar_subscriptions_[k] > 0 => k[1] \in symbols_ /\ k \in DOMAIN accumulators_
      BY <2>1, <2>4 DEF ListsCounted, CountedArePriced, FeedType
    <3> QED
      BY <2>2, <2>4, <3>2, <3>3
  <2>5. ASSUME NEW k \in Keys, kind = "adapter", Registered(bar_subs_[k]) > 0
        PROVE  k[2] \in Periods_Of(subscriptions_, k[1])
    <3>1. IsFiniteSet(Managers) /\ \A m \in Managers : bar_subs_[k][m] \in Nat
      BY <2>1, RegistryAssumption DEF RegistryType
    <3>2. Sum(bar_subs_[k], Managers) # 0
      BY <2>2, <2>5
    <3>3. \E m \in Managers : bar_subs_[k][m] # 0
      BY <3>1, <3>2, SumZero
    <3>4. \E m \in Managers : bar_subs_[k][m] > 0
      BY <3>1, <3>3
    <3> QED
      BY <2>1, <2>5, <3>4 DEF ListsRequested
  <2> QED
    BY <2>3, <2>4, <2>5 DEF SubscribersAreFed
<1> QED
  BY <1>1, MarketInvariance, PTL

\* Every tick priced since SimulatedFeed::subscribe made the accumulator is in
\* the bar being built or in one that was completed, and in one only.
THEOREM NoTickLost == MarketSpec => []NoTickIsLost
<1>1. MarketInv => NoTickIsLost
  BY DEF MarketInv, BarsFit, Fits, Builds, NoTickIsLost, Building
<1> QED
  BY <1>1, MarketInvariance, PTL

\* The fold of the ticks' prices is their sum.
LEMMA LastsSum ==
    ASSUME NEW list \in Seq(Tick), NEW S \in SUBSET (1 .. Len(list))
    PROVE  MapThenSumSet(LAMBDA i : list[i].last, S) = Sum(Lasts(list), S)
<1> DEFINE w == Lasts(list)
           Along(it) == it = [s \in SUBSET S |-> IF s = {} THEN 0
                              ELSE list[Pick(s)].last + it[s \ {Pick(s)}]]
<1>1. MapThenSumSet(LAMBDA i : list[i].last, S) = (CHOOSE it : Along(it))[S]
  BY DEF MapThenSumSet, MapThenFoldSet, Pick
<1>2. \A it : SumsOver(it, w, S) <=> Along(it)
  <2>1. \A s \in SUBSET S : s # {} => w[Pick(s)] = list[Pick(s)].last
    BY PickIn DEF Lasts
  <2> HIDE DEF w
  <2> QED
    BY <2>1 DEF SumsOver
<1>3. (CHOOSE it : SumsOver(it, w, S)) = (CHOOSE it : Along(it))
  <2> HIDE DEF Along, w
  <2> QED
    BY <1>2
<1>4. Sum(w, S) = (CHOOSE it : SumsOver(it, w, S))[S]
  BY DEF Sum, MapThenSumSet, MapThenFoldSet, SumsOver, Pick
<1> QED
  BY <1>1, <1>3, <1>4

\* The volume-weighted price times the volume is what was paid.
LEMMA VwapIs ==
    ASSUME NEW r \in Rational, NEW n \in Nat, NEW v \in Nat, v > 0, Represents(r, n, v)
    PROVE  RatEq(RatScale(v, r), Rat(n))
<1>1. RatScale(v, r) \in Rational /\ Represents(RatScale(v, r), v * n, v)
  BY ScaleRepresents
<1> DEFINE x == RatScale(v, r)
           a == x.num
           b == x.den
<1>2. a \in Int /\ b \in Int /\ a * v = (v * n) * b
  BY <1>1 DEF Rational, Represents
<1> HIDE DEF a, b, x
<1>3. a * v = (n * b) * v /\ n * b \in Int
  BY <1>2
<1>4. a = n * b
  BY <1>2, <1>3, Cancel
<1>5. a * 1 = n * b
  BY <1>2, <1>4
<1> QED
  BY <1>5 DEF RatEq, Rat, a, b, x

TicksIn(bar, list, s) ==
    {i \in s + 1 .. Len(list) : \E j \in s + 1 .. i : list[j].ts >= bar.ts}

Summary(bar, list, ticks) ==
    /\ ticks # {} /\ ticks \in SUBSET (1 .. Len(list))
    /\ bar.open = list[Min(ticks)].last
    /\ bar.close = list[Max(ticks)].last
    /\ bar.high = Max({list[i].last : i \in ticks})
    /\ bar.low = Min({list[i].last : i \in ticks})
    /\ bar.volume = Cardinality(ticks)
    /\ RatEq(RatScale(bar.volume, bar.vwap), Rat(Sum(Lasts(list), ticks)))
    /\ \A i \in ticks : list[i].ts < bar.ts + period_to_ns(bar.period)

\* The ticks from the first that reached the period of a bar are the last ones
\* of the tape, and it summarises them.
LEMMA BarSummary ==
    ASSUME NEW key \in Keys, NEW list \in Seq(Tick), NEW s \in Nat, NEW c \in Nat, NEW acc,
           Fits(acc, key, list, s, c), acc.bar_start_ns # 0
    PROVE  Summary(acc.bar, list, TicksIn(acc.bar, list, s))
<1> DEFINE bar == acc.bar
           n == Len(list)
           first == First(acc, list)
           v == acc.volume
           p == acc.period_ns
           b == acc.bar_start_ns
           ticks == TicksIn(bar, list, s)
           lasts == {list[i].last : i \in first .. n}
<1>1. /\ acc \in Accumulator /\ p = LengthOf(key[2]) /\ Builds(acc, key, list, s, c) /\ n \in Nat
  BY LenProperties DEF Fits
<1>2. /\ bar \in Bar /\ bar.symbol = key[1] /\ bar.period = key[2] /\ bar.ts = b /\ bar.volume = v
      /\ v > 0 /\ c + v = n - s /\ p > 0
      /\ b <= list[first].ts
      /\ \A i \in first .. n : /\ list[i].ts < b + p
                               /\ bar.low <= list[i].last /\ list[i].last <= bar.high
      /\ \A i \in s + 1 .. first - 1 : list[i].ts < b
      /\ bar.open = list[first].last /\ bar.close = list[n].last
      /\ \E i \in first .. n : list[i].last = bar.low
      /\ \E i \in first .. n : list[i].last = bar.high
      /\ acc.notional = Sum(Lasts(list), first .. n)
      /\ Represents(bar.vwap, acc.notional, v)
  BY <1>1 DEF Builds
<1>3. v \in Nat /\ p \in Nat /\ b \in Nat /\ acc.notional \in Nat /\ first = n - v + 1
  BY <1>1 DEF Accumulator, First
<1>4. bar.vwap \in Rational /\ bar.low \in Nat /\ bar.high \in Nat
  BY <1>2 DEF Bar
<1>5. period_to_ns(bar.period) = p
  <2>1. key[2] \in Periods
    BY DEF Keys
  <2>2. ValidPeriod(key[2])
    BY <1>1, <1>2, <2>1, PeriodLength
  <2> QED
    BY <1>1, <1>2, <2>2 DEF LengthOf
<1>6. \A i \in 1 .. n : list[i].ts \in Nat /\ list[i].last \in Nat
  <2>1. \A i \in 1 .. n : list[i] \in Tick
    BY ElementOfSeq
  <2> QED
    BY <2>1 DEF Tick
<1>7. ticks = {i \in s + 1 .. n : \E j \in s + 1 .. i : list[j].ts >= b}
  BY <1>2 DEF TicksIn
<1> HIDE DEF bar, n, first, v, p, b, ticks
<1>8. first \in Int /\ s < first /\ first <= n /\ n \in Int /\ first >= 1
  <2>1. v \in Nat /\ v > 0 /\ c + v = n - s /\ n \in Nat /\ first = n - v + 1
    BY <1>1, <1>2, <1>3
  <2> QED
    BY <2>1
<1>9. ticks = first .. n
  <2>1. ASSUME NEW i \in first .. n
        PROVE  i \in ticks
    <3>1. i \in s + 1 .. n /\ first \in s + 1 .. i /\ first \in 1 .. n
      BY <1>8
    <3>2. list[first].ts >= b
      BY <1>2, <1>3, <1>6, <3>1
    <3> QED
      BY <1>7, <3>1, <3>2
  <2>2. ASSUME NEW i \in ticks
        PROVE  i \in first .. n
    <3>1. i \in s + 1 .. n /\ \E j \in s + 1 .. i : list[j].ts >= b
      BY <1>7
    <3>2. CASE i < first
      <4>1. PICK j \in s + 1 .. i : list[j].ts >= b
        BY <3>1
      <4>2. j \in s + 1 .. first - 1 /\ j \in 1 .. n
        BY <1>8, <3>1, <3>2
      <4>3. list[j].ts < b /\ list[j].ts \in Nat
        BY <1>2, <1>6, <4>2
      <4> QED
        BY <1>3, <4>1, <4>3
    <3>3. CASE ~(i < first)
      BY <1>8, <3>1, <3>3
    <3> QED
      BY <3>2, <3>3
  <2> QED
    BY <2>1, <2>2
<1>10. ticks # {} /\ ticks \in SUBSET (1 .. n) /\ first \in ticks /\ n \in ticks
       /\ ticks \in SUBSET Int /\ (\A i \in ticks : i <= n) /\ (\A i \in ticks : first <= i)
  <2>1. first \in first .. n /\ n \in first .. n /\ \A i \in first .. n : i \in 1 .. n
    BY <1>8
  <2>2. \A i \in first .. n : i \in Int /\ i <= n /\ first <= i
    BY <1>8
  <2> QED
    BY <1>9, <2>1, <2>2
<1>11. Min(ticks) = first /\ Max(ticks) = n
  BY <1>10, MaxMin
<1>12. bar.open = list[Min(ticks)].last /\ bar.close = list[Max(ticks)].last
  BY <1>2, <1>11
<1>13. /\ lasts \in SUBSET Int /\ bar.high \in lasts /\ bar.low \in lasts
       /\ (\A y \in lasts : y <= bar.high) /\ (\A y \in lasts : bar.low <= y)
  <2>1. \A i \in first .. n : i \in 1 .. n
    BY <1>8
  <2>2. lasts \in SUBSET Int
    BY <1>6, <2>1
  <2> QED
    BY <1>2, <2>2
<1> HIDE DEF lasts
<1>14. Max(lasts) = bar.high /\ Min(lasts) = bar.low
  BY <1>13, MaxMin
<1>15. bar.high = Max({list[i].last : i \in ticks}) /\ bar.low = Min({list[i].last : i \in ticks})
  BY <1>9, <1>14 DEF lasts
<1>16. bar.volume = Cardinality(ticks)
  <2>1. Cardinality(first .. n) = IF first > n THEN 0 ELSE n - first + 1
    BY <1>8, FS_Interval
  <2>2. n - first + 1 = v
    BY <1>1, <1>3
  <2> QED
    BY <1>2, <1>8, <1>9, <2>1, <2>2
<1>17. RatEq(RatScale(bar.volume, bar.vwap), Rat(Sum(Lasts(list), ticks)))
  <2> DEFINE total == acc.notional
             w == bar.vwap
  <2>1. total \in Nat /\ w \in Rational /\ Represents(w, total, v) /\ v \in Nat /\ v > 0
    BY <1>2, <1>3, <1>4
  <2>2. total = Sum(Lasts(list), ticks)
    BY <1>2, <1>9
  <2> HIDE DEF total, w
  <2>3. RatEq(RatScale(v, w), Rat(total))
    BY <2>1, VwapIs
  <2> QED
    BY <1>2, <2>2, <2>3 DEF w
<1>18. \A i \in ticks : list[i].ts < bar.ts + period_to_ns(bar.period)
  BY <1>2, <1>5, <1>9
<1>19. Summary(bar, list, ticks)
  BY <1>10, <1>12, <1>15, <1>16, <1>17, <1>18 DEF Summary, n
<1> QED
  BY <1>19 DEF bar, ticks

\* start_bar, update_bar and the completion of bars in emit_loop make each bar
\* the summary of exactly the ticks from the first that reached its period, none
\* of them past the period's end, wherever the clock steps.
THEOREM BarsAreRight == MarketSpec => []BarsSummariseTheirTicks
<1>1. MarketInv => BarsSummariseTheirTicks
  <2> SUFFICES ASSUME MarketInv, NEW k \in Building
               PROVE  /\ Summarises(accumulators_[k].bar, TicksOf(accumulators_[k].bar))
                      /\ EndsAfter(accumulators_[k].bar, TicksOf(accumulators_[k].bar))
    BY DEF BarsSummariseTheirTicks
  <2> DEFINE acc == accumulators_[k]
             bar == acc.bar
             list == tape[bar.symbol]
             ticks == TicksOf(bar)
  <2>1. /\ k \in DOMAIN accumulators_ /\ k \in Keys /\ acc.bar_start_ns # 0
        /\ Fits(acc, k, tape[k[1]], since[k], closed[k])
    BY DEF Building, MarketInv, BarsFit, FeedType
  <2>2. k[1] \in Symbols /\ k = <<k[1], k[2]>>
    BY <2>1 DEF Keys
  <2>3. tape[k[1]] \in Seq(Tick) /\ since[k] \in Nat /\ closed[k] \in Nat
    BY <2>1, <2>2 DEF MarketInv, FeedType
  <2>4. bar.symbol = k[1] /\ bar.period = k[2]
    BY <2>1 DEF Fits, Builds
  <2>5. list \in Seq(Tick) /\ Fits(acc, k, list, since[k], closed[k])
    BY <2>1, <2>3, <2>4
  <2>6. ticks = TicksIn(bar, list, since[k])
    BY <2>2, <2>4 DEF TicksOf, TicksIn
  <2> HIDE DEF list, acc, bar
  <2>7. Summary(bar, list, ticks)
    <3>1. Summary(acc.bar, list, TicksIn(acc.bar, list, since[k]))
      <4> HIDE DEF ticks
      <4> QED
        BY <2>1, <2>3, <2>5, BarSummary
    <3> QED
      BY <2>6, <3>1 DEF bar
  <2> HIDE DEF ticks
  <2>8. RatEq(RatScale(bar.volume, bar.vwap), Rat(MapThenSumSet(LAMBDA i : list[i].last, ticks)))
    <3>1. MapThenSumSet(LAMBDA i : list[i].last, ticks) = Sum(Lasts(list), ticks)
      BY <2>5, <2>7, LastsSum DEF MapThenSumSet, MapThenFoldSet, Summary
    <3> QED
      BY <2>7, <3>1 DEF Summary
  <2>9. Summarises(bar, ticks) /\ EndsAfter(bar, ticks)
    BY <2>7, <2>8 DEF Summary, Summarises, EndsAfter, list
  <2> QED
    BY <2>9 DEF ticks, bar, acc
<1> QED
  BY <1>1, MarketInvariance, PTL
==============================================================================
