---------------------------- MODULE ProfitProofs -----------------------------
(***************************************************************************)
(* Theorems about money: what fills do to a position and to the average    *)
(* price of an order, for every sequence of fills, any quantities, prices  *)
(* and sides.                                                              *)
(***************************************************************************)
EXTENDS PositionQueries, AlpacaGateway, Arithmetic, SequenceTheorems

------------------------------------------------------------------------------
(* A fill of a position.                                                    *)

\* The position is worth what the fills cost: its profit and its price are
\* fractions with  profit = money + quantity * price.
Accounts(pos, money) ==
    Represents(pos.rPnL, money * pos.avgPrice.den + pos.quantity * pos.avgPrice.num,
               pos.avgPrice.den)

PositionParts(pos) ==
    /\ pos.quantity \in Int
    /\ pos.avgPrice \in Rational /\ pos.rPnL \in Rational
    /\ pos.avgPrice.num \in Int /\ pos.avgPrice.den \in Int /\ pos.avgPrice.den > 0

LEMMA PartsOf ==
    ASSUME NEW pos \in Position
    PROVE  PositionParts(pos)
BY DEF PositionParts, Position, Rational

\* ProfitIdentity in these terms.
LEMMA AccountsIs ==
    ASSUME NEW pos \in Position, NEW money \in Int
    PROVE  Accounts(pos, money) <=>
               RatEq(pos.rPnL, RatAdd(Rat(money), RatScale(pos.quantity, pos.avgPrice)))
<1> DEFINE Q == pos.quantity
           p == pos.avgPrice.num
           q == pos.avgPrice.den
           s == RatScale(Q, pos.avgPrice)
           t == RatAdd(Rat(money), s)
<1>1. Q \in Int /\ p \in Int /\ q \in Int /\ q # 0
  BY PartsOf DEF PositionParts
<1>2. pos.avgPrice \in Rational /\ pos.rPnL \in Rational
  BY PartsOf DEF PositionParts
<1>3. s \in Rational /\ Represents(s, Q * p, q)
  BY <1>1, <1>2, RepresentsSelf, ScaleRepresents
<1>4. t \in Rational /\ Represents(t, money * q + (Q * p) * 1, 1 * q)
  BY <1>1, <1>3, RatRepresents, AddRepresents
<1>5. Represents(t, money * q + Q * p, q)
  <2>1. money * q + (Q * p) * 1 = money * q + Q * p /\ 1 * q = q
    BY <1>1
  <2> QED
    BY <1>4, <2>1
<1>6. RatEq(t, pos.rPnL) <=> Represents(pos.rPnL, money * q + Q * p, q)
  BY <1>1, <1>2, <1>4, <1>5, RepresentsEq
<1>7. RatEq(t, pos.rPnL) <=> RatEq(pos.rPnL, t)
  BY <1>2, <1>4 DEF RatEq, Rational
<1> QED
  BY <1>6, <1>7 DEF Accounts

\* Signs and magnitudes.
LEMMA SameSign ==
    ASSUME NEW x \in Int, NEW y \in Int, x * y > 0
    PROVE  x + y # 0 /\ x * (x + y) > 0
OBVIOUS

\* What a fill on the other side closes: all of the position, or itself.
LEMMA ClosedUnits ==
    ASSUME NEW x \in Int, NEW y \in Int, x * y < 0
    PROVE  LET closed == Lesser(Abs(x), Abs(y))
           IN  (IF x > 0 THEN closed ELSE -closed) =
                   IF x + y = 0 \/ x * (x + y) < 0 THEN x ELSE -y
<1>1. (x > 0 /\ y < 0) \/ (x < 0 /\ y > 0)
  OBVIOUS
<1>2. CASE x > 0 /\ y < 0
  <2>1. Abs(x) = x /\ Abs(y) = -y
    BY <1>2 DEF Abs
  <2>2. (x + y = 0 \/ x * (x + y) < 0) <=> ~(-y < x)
    BY <1>2
  <2> QED
    BY <1>2, <2>1, <2>2 DEF Lesser
<1>3. CASE x < 0 /\ y > 0
  <2>1. Abs(x) = -x /\ Abs(y) = y
    BY <1>3 DEF Abs
  <2>2. (x + y = 0 \/ x * (x + y) < 0) <=> ~(y < -x)
    BY <1>3
  <2> QED
    BY <1>3, <2>1, <2>2 DEF Lesser
<1> QED
  BY <1>1, <1>2, <1>3

\* The weighted average of a holding and of what is added to it at a price.
LEMMA WeightedRepresents ==
    ASSUME NEW avg \in Rational, NEW k \in Int, NEW worth \in Int, NEW total \in Int, total # 0
    PROVE  LET price == RatDiv(RatAdd(RatScale(k, avg), Rat(worth)), total)
           IN  /\ price \in Rational
               /\ Represents(price, k * avg.num + worth * avg.den, avg.den * total)
<1> DEFINE p == avg.num
           q == avg.den
           s == RatScale(k, avg)
           t == RatAdd(s, Rat(worth))
<1>1. p \in Int /\ q \in Int /\ q # 0 /\ k * p \in Int
  BY DEF Rational
<1>2. s \in Rational /\ Represents(s, k * p, q)
  BY <1>1, RepresentsSelf, ScaleRepresents
<1>3. t \in Rational /\ Represents(t, (k * p) * 1 + worth * q, q * 1)
  BY <1>1, <1>2, RatRepresents, AddRepresents
<1>4. Represents(t, k * p + worth * q, q)
  <2>1. (k * p) * 1 + worth * q = k * p + worth * q /\ q * 1 = q
    BY <1>1
  <2> QED
    BY <1>3, <2>1
<1>5. k * p + worth * q \in Int
  BY <1>1
<1> QED
  BY <1>1, <1>3, <1>4, <1>5, DivRepresents

\* Closing `units' of the position, a signed quantity, realises the difference
\* to its price.
LEMMA ClosingPays ==
    ASSUME NEW pos \in Position, NEW money \in Int, Accounts(pos, money),
           NEW units \in Int, NEW fill_price \in Int
    PROVE  LET gain == RatScale(units, RatSub(Rat(fill_price), pos.avgPrice))
               q    == pos.avgPrice.den
           IN  /\ RatAdd(pos.rPnL, gain) \in Rational
               /\ Represents(RatAdd(pos.rPnL, gain),
                      (money + units * fill_price) * q
                          + (pos.quantity - units) * pos.avgPrice.num, q)
<1> DEFINE Q == pos.quantity
           p == pos.avgPrice.num
           q == pos.avgPrice.den
           f == fill_price
           c == units
           m == money
           diff == RatSub(Rat(f), pos.avgPrice)
           gain == RatScale(c, diff)
<1>1. /\ Q \in Int /\ p \in Int /\ q \in Int /\ q # 0 /\ f \in Int /\ c \in Int /\ m \in Int
      /\ pos.avgPrice \in Rational /\ pos.rPnL \in Rational
  BY PartsOf DEF PositionParts
<1>2. /\ RatScale(-1, pos.avgPrice) \in Rational
      /\ Represents(RatScale(-1, pos.avgPrice), (-1) * p, q)
  <2>1. \A k \in Int : /\ RatScale(k, pos.avgPrice) \in Rational
                       /\ Represents(RatScale(k, pos.avgPrice), k * p, q)
    BY <1>1, RepresentsSelf, ScaleRepresents
  <2> QED
    BY <2>1
<1>3. diff \in Rational /\ Represents(diff, f * q + ((-1) * p) * 1, 1 * q)
  <2>1. (-1) * p \in Int
    BY <1>1
  <2> QED
    BY <1>1, <1>2, <2>1, RatRepresents, AddRepresents DEF RatSub
<1>4. Represents(diff, f * q - p, q)
  <2>1. f * q + ((-1) * p) * 1 = f * q - p /\ 1 * q = q
    BY <1>1
  <2> QED
    BY <1>3, <2>1
<1>5. gain \in Rational /\ Represents(gain, c * (f * q - p), q)
  <2>1. f * q - p \in Int
    BY <1>1
  <2> QED
    BY <1>1, <1>3, <1>4, <2>1, ScaleRepresents
<1> DEFINE sum == RatAdd(pos.rPnL, gain)
<1>6. /\ sum \in Rational
      /\ Represents(sum, (m * q + Q * p) * q + (c * (f * q - p)) * q, q * q)
  <2>1. m * q + Q * p \in Int /\ c * (f * q - p) \in Int
    BY <1>1
  <2>2. Represents(pos.rPnL, m * q + Q * p, q)
    BY DEF Accounts
  <2> QED
    BY <1>1, <1>5, <2>1, <2>2, AddRepresents
<1>7. Represents(sum, (m + c * f) * q + (Q - c) * p, q)
  <2> DEFINE n == (m + c * f) * q + (Q - c) * p
  <2>1. n \in Int /\ n * q = (m * q + Q * p) * q + (c * (f * q - p)) * q
    BY <1>1
  <2>2. Represents(sum, n * q, q * q)
    BY <1>6, <2>1
  <2> HIDE DEF n, sum
  <2>3. Represents(sum, n, q)
    BY <1>1, <1>6, <2>1, <2>2, RepresentsReduced
  <2> QED
    BY <2>3 DEF n
<1> QED
  BY <1>6, <1>7

\* Whole numbers of a common factor.
LEMMA RepresentsWhole ==
    ASSUME NEW r \in Rational, NEW n \in Int, NEW k \in Int, k # 0, Represents(r, n * k, k)
    PROVE  Represents(r, n, 1)
<1> DEFINE a == r.num
           b == r.den
<1>1. a \in Int /\ b \in Int /\ a * k = (n * k) * b
  BY DEF Rational, Represents
<1> HIDE DEF a, b
<1>2. a * k = (n * b) * k
  BY <1>1
<1>3. a = n * b
  BY <1>1, <1>2, Cancel
<1> QED
  BY <1>1, <1>3 DEF Represents, a, b

\* What adding to a position does to its books: a / b is the profit, p / q the
\* price before, P / D the weighted price after.
Adds(m, g, f, Q, p, q, P, D, a, b) ==
    /\ P * (q * (Q + g)) = (Q * p + (g * f) * q) * D
    /\ a * q = (m * q + Q * p) * b

Kept(m, g, f, Q, P, D, a, b) == a * D = ((m - g * f) * D + (Q + g) * P) * b

LEMMA AddingKeepsBooks ==
    ASSUME NEW m \in Int, NEW g \in Int, NEW f \in Int, NEW Q \in Int, NEW p \in Int,
           NEW q \in Int, NEW P \in Int, NEW D \in Int, NEW a \in Int, NEW b \in Int,
           q # 0, Adds(m, g, f, Q, p, q, P, D, a, b)
    PROVE  Kept(m, g, f, Q, P, D, a, b)
<1>0. /\ P * (q * (Q + g)) = (Q * p + (g * f) * q) * D
      /\ a * q = (m * q + Q * p) * b
  BY DEF Adds
<1> DEFINE n == (m - g * f) * D + (Q + g) * P
<1>1. n \in Int
  OBVIOUS
<1>2. n * q = (m * q + Q * p) * D
  <2>1. n * q = (m - g * f) * D * q + P * (q * (Q + g))
    OBVIOUS
  <2>2. (m - g * f) * D * q + (Q * p + (g * f) * q) * D = (m * q + Q * p) * D
    OBVIOUS
  <2> QED
    BY <1>0, <2>1, <2>2
<1> HIDE DEF n
<1>3. (a * D) * q = ((m * q + Q * p) * b) * D
  BY <1>0
<1>4. ((m * q + Q * p) * b) * D = (n * b) * q
  <2>1. ((m * q + Q * p) * b) * D = ((m * q + Q * p) * D) * b
    OBVIOUS
  <2>2. (n * q) * b = (n * b) * q
    BY <1>1
  <2> QED
    BY <1>2, <2>1, <2>2
<1>5. a * D = n * b
  <2>1. a * D \in Int /\ n * b \in Int
    BY <1>1
  <2> QED
    BY <1>3, <1>4, <2>1, Cancel
<1> QED
  BY <1>5 DEF Kept, n

\* FilledPosition accounts for the cash the fill moves, whichever branch it takes.
LEMMA FillAccounts ==
    ASSUME NEW pos \in Position, NEW money \in Int, Accounts(pos, money),
           NEW qty \in Nat, qty > 0, NEW price \in Nat, price > 0, NEW side
    PROVE  /\ FilledPosition(pos, qty, price, side) \in Position
           /\ Accounts(FilledPosition(pos, qty, price, side),
                       money - signed_fill(side, qty) * price)
<1> DEFINE Q == pos.quantity
           p == pos.avgPrice.num
           q == pos.avgPrice.den
           f == price
           g == signed_fill(side, qty)
           m == money
           new == FilledPosition(pos, qty, price, side)
           avg == AvgAfter(pos, g, f)
           P == avg.num
           D == avg.den
<1>1. /\ Q \in Int /\ p \in Int /\ q \in Int /\ q # 0 /\ f \in Int /\ m \in Int
      /\ pos.avgPrice \in Rational /\ pos.rPnL \in Rational
  BY PartsOf DEF PositionParts
<1>2. g \in Int /\ g # 0
  BY DEF signed_fill
<1>3. new \in Position
  BY FilledPositionType
<1>4. /\ new.quantity = Q + g
      /\ new.avgPrice = avg
      /\ new.rPnL = IF Reduces(Q, g) THEN RatAdd(pos.rPnL, RealizedBy(pos, g, f)) ELSE pos.rPnL
  BY DEF FilledPosition
<1>5. avg \in Rational /\ P \in Int /\ D \in Int /\ D # 0
  BY <1>3, <1>4, PartsOf DEF PositionParts
<1>6. SUFFICES Represents(new.rPnL, (m - g * f) * D + (Q + g) * P, D)
  BY <1>3, <1>4 DEF Accounts
<1>7. CASE Q = 0
  <2>1. avg = Rat(IF g = 0 THEN 0 ELSE f) /\ ~Reduces(Q, g)
    BY <1>1, <1>2, <1>7 DEF AvgAfter, Reduces
  <2>2. P = f /\ D = 1
    BY <1>2, <2>1 DEF Rat
  <2>3. Represents(pos.rPnL, m * q, q)
    <3>1. m * q + Q * p = m * q
      BY <1>1, <1>7
    <3> QED
      BY <3>1 DEF Accounts
  <2>4. Represents(pos.rPnL, m, 1)
    <3> HIDE DEF m, q
    <3> QED
      BY <1>1, <2>3, RepresentsWhole
  <2>5. (m - g * f) * D + (Q + g) * P = m
    BY <1>1, <1>2, <1>7, <2>2
  <2> QED
    BY <1>4, <2>1, <2>2, <2>4, <2>5
<1>8. CASE Q # 0 /\ Q * g > 0
  <2>1. ~Reduces(Q, g) /\ Q + g # 0 /\ ~(Q * (Q + g) < 0)
    BY <1>1, <1>2, <1>8, SameSign DEF Reduces
  <2>2. avg = RatDiv(RatAdd(RatScale(Q, pos.avgPrice), Rat(g * f)), Q + g)
    BY <1>1, <1>2, <1>8, <2>1 DEF AvgAfter
  <2>3. Represents(avg, Q * p + (g * f) * q, q * (Q + g))
    <3> DEFINE worth == g * f
               total == Q + g
    <3>1. worth \in Int /\ total \in Int /\ total # 0
      BY <1>1, <1>2, <2>1
    <3> HIDE DEF worth, total, avg
    <3>2. avg = RatDiv(RatAdd(RatScale(Q, pos.avgPrice), Rat(worth)), total)
      BY <2>2 DEF worth, total
    <3>3. Represents(avg, Q * p + worth * q, q * total)
      BY <1>1, <3>1, <3>2, WeightedRepresents
    <3> QED
      BY <3>3 DEF worth, total
  <2>4. P * (q * (Q + g)) = (Q * p + (g * f) * q) * D
    BY <2>3 DEF Represents
  <2>5. pos.rPnL.num * q = (m * q + Q * p) * pos.rPnL.den
    BY DEF Accounts, Represents
  <2>6. Represents(pos.rPnL, (m - g * f) * D + (Q + g) * P, D)
    <3>1. pos.rPnL.num \in Int /\ pos.rPnL.den \in Int
      BY <1>1 DEF Rational
    <3> DEFINE a == pos.rPnL.num
               b == pos.rPnL.den
    <3>2. a * q = (m * q + Q * p) * b /\ a \in Int /\ b \in Int
      BY <2>5, <3>1
    <3> HIDE DEF P, D, Q, p, q, f, g, m, a, b
    <3>3. Adds(m, g, f, Q, p, q, P, D, a, b)
      BY <2>4, <3>2 DEF Adds
    <3>4. Kept(m, g, f, Q, P, D, a, b)
      BY <1>1, <1>2, <1>5, <3>2, <3>3, AddingKeepsBooks
    <3> QED
      BY <3>4 DEF Kept, Represents, a, b
  <2> QED
    BY <1>4, <2>1, <2>6
<1>9. CASE Q # 0 /\ Q * g < 0
  <2> DEFINE c == IF (Q + g) = 0 \/ Q * (Q + g) < 0 THEN Q ELSE -g
             sum == RatAdd(pos.rPnL, RatScale(c, RatSub(Rat(f), pos.avgPrice)))
  <2>1. c \in Int
    BY <1>1, <1>2
  <2>2. RealizedBy(pos, g, f) = RatScale(c, RatSub(Rat(f), pos.avgPrice))
    BY <1>1, <1>2, <1>9, ClosedUnits DEF RealizedBy
  <2>3. new.rPnL = sum
    BY <1>4, <1>9, <2>2 DEF Reduces
  <2>4. sum \in Rational /\ Represents(sum, (m + c * f) * q + (Q - c) * p, q)
    BY <1>1, <2>1, ClosingPays
  <2>5. CASE Q + g = 0 \/ Q * (Q + g) < 0
    <3>1. c = Q
      BY <2>5
    <3>2. D = 1 /\ (Q + g) * P = (Q + g) * f
      <4>1. avg = Rat(IF Q + g = 0 THEN 0 ELSE f)
        <5>1. CASE Q + g = 0
          BY <1>1, <1>2, <1>9, <5>1 DEF AvgAfter
        <5>2. CASE Q + g # 0 /\ Q * (Q + g) < 0
          BY <1>1, <1>2, <1>9, <5>2 DEF AvgAfter
        <5> QED
          BY <2>5, <5>1, <5>2
      <4>2. D = 1 /\ P = IF Q + g = 0 THEN 0 ELSE f
        BY <4>1 DEF Rat
      <4> QED
        BY <1>1, <1>2, <4>2
    <3>3. (m + c * f) * q + (Q - c) * p = (m + Q * f) * q
      BY <1>1, <3>1
    <3>4. Represents(sum, (m + Q * f) * q, q)
      BY <2>4, <3>3
    <3>5. m + Q * f \in Int
      BY <1>1
    <3>6. Represents(sum, m + Q * f, 1)
      <4> DEFINE n == m + Q * f
      <4>1. n \in Int /\ Represents(sum, n * q, q)
        BY <3>4, <3>5
      <4> HIDE DEF n, sum, q
      <4>2. Represents(sum, n, 1)
        BY <1>1, <2>4, <4>1, RepresentsWhole
      <4> QED
        BY <4>2 DEF n
    <3>7. (m - g * f) * D + (Q + g) * P = m + Q * f
      BY <1>1, <1>2, <3>2
    <3> QED
      BY <2>3, <3>2, <3>6, <3>7
  <2>6. CASE ~(Q + g = 0 \/ Q * (Q + g) < 0)
    <3>1. c = -g
      BY <2>6
    <3>2. avg = pos.avgPrice
      BY <1>1, <1>2, <1>9, <2>6 DEF AvgAfter
    <3>3. P = p /\ D = q
      BY <3>2
    <3>4. (m + c * f) * q + (Q - c) * p = (m - g * f) * q + (Q + g) * p
      BY <1>1, <1>2, <3>1
    <3> QED
      BY <2>3, <2>4, <3>3, <3>4
  <2> QED
    BY <2>5, <2>6
<1>10. Q * g \in Int /\ (Q # 0 => Q * g # 0)
  BY SMTT(30), <1>1, <1>2, NonZeroProduct
<1> QED
  BY <1>7, <1>8, <1>9, <1>10

------------------------------------------------------------------------------
(* The entry price.                                                         *)

\* P / D is the mean of the price p / q of x units and the price f of y units.
Mean(x, y, p, q, f, P, D) == P * (q * (x + y)) = (x * p + (y * f) * q) * D

AtLeast(P, D, low) == low * D <= P
AtMost(P, D, high) == P <= high * D

LEMMA MeanAtLeast ==
    ASSUME NEW x \in Int, NEW y \in Int, NEW p \in Int, NEW q \in Int, NEW f \in Int,
           NEW P \in Int, NEW D \in Int, NEW low \in Int,
           x > 0, y > 0, q > 0, D > 0, Mean(x, y, p, q, f, P, D),
           AtLeast(p, q, low), low <= f
    PROVE  AtLeast(P, D, low)
<1>1. P * (q * (x + y)) = (x * p + (y * f) * q) * D /\ low * q <= p
  BY DEF Mean, AtLeast
<1> DEFINE k == q * (x + y)
<1>2. k \in Int /\ k > 0
  OBVIOUS
<1>3. (low * D) * k <= P * k
  <2>1. (low * D) * k = (x * (low * q) + (y * low) * q) * D
    OBVIOUS
  <2>2. x * (low * q) <= x * p
    BY <1>1
  <2>3. (y * low) * q <= (y * f) * q
    <3>1. y * low <= y * f
      OBVIOUS
    <3> QED
      BY <3>1
  <2>4. (x * (low * q) + (y * low) * q) * D <= (x * p + (y * f) * q) * D
    <3> DEFINE a == x * (low * q) + (y * low) * q
               b == x * p + (y * f) * q
    <3>1. a \in Int /\ b \in Int /\ a <= b
      BY <2>2, <2>3
    <3> HIDE DEF a, b
    <3>2. a * D <= b * D
      BY <3>1
    <3> QED
      BY <3>2 DEF a, b
  <2> QED
    BY <1>1, <2>1, <2>4
<1>4. low * D \in Int
  OBVIOUS
<1> HIDE DEF k
<1>5. low * D <= P
  BY <1>2, <1>3, <1>4, CancelLeq
<1> QED
  BY <1>5 DEF AtLeast

LEMMA MeanAtMost ==
    ASSUME NEW x \in Int, NEW y \in Int, NEW p \in Int, NEW q \in Int, NEW f \in Int,
           NEW P \in Int, NEW D \in Int, NEW high \in Int,
           x > 0, y > 0, q > 0, D > 0, Mean(x, y, p, q, f, P, D),
           AtMost(p, q, high), f <= high
    PROVE  AtMost(P, D, high)
<1>1. Mean(x, y, -p, q, -f, -P, D)
  <2>1. (x * (-p) + (y * (-f)) * q) * D = -((x * p + (y * f) * q) * D)
    OBVIOUS
  <2>2. (-P) * (q * (x + y)) = -(P * (q * (x + y)))
    OBVIOUS
  <2> QED
    BY <2>1, <2>2 DEF Mean
<1>2. AtLeast(-p, q, -high)
  <2>1. (-high) * q = -(high * q)
    OBVIOUS
  <2> QED
    BY <2>1 DEF AtLeast, AtMost
<1>3. -p \in Int /\ -f \in Int /\ -P \in Int /\ -high \in Int /\ -high <= -f
  OBVIOUS
<1>4. AtLeast(-P, D, -high)
  <2> DEFINE pp == -p
             ff == -f
             PP == -P
             hh == -high
  <2>1. /\ pp \in Int /\ ff \in Int /\ PP \in Int /\ hh \in Int /\ hh <= ff
        /\ Mean(x, y, pp, q, ff, PP, D) /\ AtLeast(pp, q, hh)
    BY <1>1, <1>2, <1>3
  <2> HIDE DEF pp, ff, PP, hh
  <2>2. AtLeast(PP, D, hh)
    BY <2>1, MeanAtLeast
  <2> QED
    BY <2>2 DEF PP, hh
<1>5. (-high) * D = -(high * D)
  OBVIOUS
<1> QED
  BY <1>4, <1>5 DEF AtLeast, AtMost

\* The price of a position lies between these two, or there is no position.
PricedBetween(pos, low, high) ==
    IF pos.quantity = 0
    THEN pos.avgPrice = Rat(0)
    ELSE AtLeast(pos.avgPrice.num, pos.avgPrice.den, low)
         /\ AtMost(pos.avgPrice.num, pos.avgPrice.den, high)

\* A fill widens the range by its own price at most.
LEMMA FillPricedBetween ==
    ASSUME NEW pos \in Position, NEW low \in Int, NEW high \in Int,
           PricedBetween(pos, low, high),
           NEW qty \in Nat, qty > 0, NEW price \in Nat, price > 0, NEW side,
           NEW low2 \in Int, NEW high2 \in Int,
           low2 <= price, price <= high2,
           pos.quantity # 0 => low2 <= low /\ high <= high2
    PROVE  PricedBetween(FilledPosition(pos, qty, price, side), low2, high2)
<1> DEFINE Q == pos.quantity
           p == pos.avgPrice.num
           q == pos.avgPrice.den
           g == signed_fill(side, qty)
           new == FilledPosition(pos, qty, price, side)
           avg == AvgAfter(pos, g, price)
           P == avg.num
           D == avg.den
<1>1. /\ Q \in Int /\ p \in Int /\ q \in Int /\ q > 0 /\ price \in Int
      /\ pos.avgPrice \in Rational /\ pos.rPnL \in Rational
  BY PartsOf DEF PositionParts
<1>2. g \in Int /\ g # 0
  BY DEF signed_fill
<1>3. new.quantity = Q + g /\ new.avgPrice = avg
  BY DEF FilledPosition
<1>4. avg \in Rational /\ P \in Int /\ D \in Int /\ D > 0
  BY <1>3, FilledPositionType, PartsOf DEF PositionParts
<1>5. ASSUME Q # 0
      PROVE  AtLeast(p, q, low2) /\ AtMost(p, q, high2)
  <2>1. low * q <= p /\ p <= high * q
    BY <1>5 DEF PricedBetween, AtLeast, AtMost
  <2> HIDE DEF p, q, Q
  <2>2. low2 * q <= low * q /\ high * q <= high2 * q
    BY <1>1, <1>5 DEF Q
  <2>3. low2 * q \in Int /\ low * q \in Int /\ high * q \in Int /\ high2 * q \in Int
    BY <1>1
  <2> QED
    BY <1>1, <2>1, <2>2, <2>3 DEF AtLeast, AtMost
<1>6. SUFFICES ASSUME Q + g # 0
               PROVE  AtLeast(P, D, low2) /\ AtMost(P, D, high2)
  <2>1. Q + g = 0 => avg = Rat(0)
    BY <1>1, <1>2 DEF AvgAfter
  <2> QED
    BY <1>3, <2>1 DEF PricedBetween
<1>7. CASE avg = Rat(price)
  <2>1. P = price /\ D = 1
    BY <1>7 DEF Rat
  <2> QED
    BY <2>1 DEF AtLeast, AtMost
<1>8. CASE avg = pos.avgPrice /\ Q # 0
  BY <1>5, <1>8
<1>9. CASE Q # 0 /\ Q * g > 0 /\ ~(Q * (Q + g) < 0)
  <2>1. avg = RatDiv(RatAdd(RatScale(Q, pos.avgPrice), Rat(g * price)), Q + g)
    BY <1>1, <1>2, <1>6, <1>9 DEF AvgAfter
  <2>2. Represents(avg, Q * p + (g * price) * q, q * (Q + g))
    <3> DEFINE worth == g * price
               total == Q + g
    <3>1. worth \in Int /\ total \in Int /\ total # 0
      BY <1>1, <1>2, <1>6
    <3> HIDE DEF worth, total, avg
    <3>2. avg = RatDiv(RatAdd(RatScale(Q, pos.avgPrice), Rat(worth)), total)
      BY <2>1 DEF worth, total
    <3>3. Represents(avg, Q * p + worth * q, q * total)
      BY <1>1, <3>1, <3>2, WeightedRepresents
    <3> QED
      BY <3>3 DEF worth, total
  <2>3. Mean(Q, g, p, q, price, P, D)
    BY <2>2 DEF Represents, Mean
  <2> HIDE DEF P, D, Q, p, q, g
  <2>4. CASE Q > 0 /\ g > 0
    BY <1>1, <1>2, <1>4, <1>5, <1>9, <2>3, <2>4, MeanAtLeast, MeanAtMost
  <2>5. CASE Q < 0 /\ g < 0
    <3> DEFINE x == -Q
               y == -g
    <3>1. x \in Int /\ x > 0 /\ y \in Int /\ y > 0
      BY <1>1, <1>2, <2>5
    <3>2. Mean(x, y, p, q, price, P, D)
      <4> DEFINE left == P * (q * (Q + g))
                 right == (Q * p + (g * price) * q) * D
      <4>1. left \in Int /\ P * (q * (-Q + -g)) = -left
        BY <1>1, <1>2, <1>4
      <4>2. right \in Int /\ ((-Q) * p + ((-g) * price) * q) * D = -right
        BY <1>1, <1>2, <1>4
      <4>3. left = right
        BY <2>3 DEF Mean
      <4> HIDE DEF left, right
      <4>4. P * (q * (-Q + -g)) = ((-Q) * p + ((-g) * price) * q) * D
        BY <4>1, <4>2, <4>3
      <4> QED
        BY <4>4, Zenon DEF Mean
    <3> HIDE DEF x, y
    <3> QED
      BY <1>1, <1>4, <1>5, <1>9, <3>1, <3>2, MeanAtLeast, MeanAtMost
  <2>6. (Q > 0 /\ g > 0) \/ (Q < 0 /\ g < 0)
    BY <1>1, <1>2, <1>9
  <2> QED
    BY <2>4, <2>5, <2>6
<1>10. \/ avg = Rat(price)
       \/ avg = pos.avgPrice /\ Q # 0
       \/ Q # 0 /\ Q * g > 0 /\ ~(Q * (Q + g) < 0)
  BY <1>1, <1>2, <1>6 DEF AvgAfter
<1> QED
  BY <1>7, <1>8, <1>9, <1>10

------------------------------------------------------------------------------
(* A sequence of fills.                                                     *)

\* The statement touches only two of the columns that matter here.
Row == [order |-> CHOOSE signal \in Signals : TRUE, status |-> row.status, broker_id |-> None,
        filled_quantity |-> row.filled_quantity, avg_fill_price |-> row.avg_fill_price]

AccountInv ==
    /\ position \in Position
    /\ row = Row
    /\ row.filled_quantity \in Nat
    /\ row.avg_fill_price \in Rational
    /\ cash \in Int
    /\ turnover \in Int
    /\ Accounts(position, cash)
    /\ Represents(row.avg_fill_price, turnover, row.filled_quantity)
    /\ position.quantity # 0 =>
           \E low, high \in Prices : PricedBetween(position, low, high)
    /\ position.quantity = 0 => position.avgPrice = Rat(0)

LEMMA AccountInvInit == AccountInit => AccountInv
<1> SUFFICES ASSUME AccountInit PROVE AccountInv
  OBVIOUS
<1>1. /\ position = FlatPosition /\ cash = 0 /\ turnover = 0
      /\ row = NewRow(CHOOSE signal \in Signals : TRUE, "SUBMITTED", None)
  BY DEF AccountInit
<1>2. /\ FlatPosition \in Position
      /\ FlatPosition.quantity = 0 /\ FlatPosition.avgPrice = Rat(0)
      /\ FlatPosition.rPnL = Rat(0) /\ Rat(0) \in Rational
  BY RatType DEF FlatPosition, Position
<1>3. row.filled_quantity = 0 /\ row.avg_fill_price = Rat(0) /\ row = Row
  BY <1>1 DEF NewRow, Row
<1>4. Accounts(position, cash)
  BY <1>1, <1>2 DEF Accounts, Represents, Rat
<1>5. Represents(row.avg_fill_price, turnover, row.filled_quantity)
  BY <1>1, <1>3 DEF Represents, Rat
<1> QED
  BY <1>1, <1>2, <1>3, <1>4, <1>5 DEF AccountInv

\* The row: AvgFillPrice keeps its price times its quantity equal to the turnover.
LEMMA FilledRowRepresents ==
    ASSUME NEW avg \in Rational, NEW filled \in Nat, NEW turn \in Int,
           Represents(avg, turn, filled), NEW r, r.filled_quantity = filled,
           r.avg_fill_price = avg, NEW qty \in Nat, NEW price \in Nat
    PROVE  /\ AvgFillPrice(r, qty, price) \in Rational
           /\ Represents(AvgFillPrice(r, qty, price), turn + qty * price, filled + qty)
<1> DEFINE n == avg.num
           d == avg.den
<1>1. n \in Int /\ d \in Int /\ d > 0 /\ n * filled = turn * d
  BY DEF Rational, Represents
<1>2. CASE filled = 0
  <2>1. turn = 0
    <3> HIDE DEF n, d
    <3>1. turn * d = 0 * d
      BY <1>1, <1>2
    <3> QED
      BY <1>1, <3>1, Cancel
  <2>2. AvgFillPrice(r, qty, price) = Rat(price)
    BY <1>2 DEF AvgFillPrice
  <2> QED
    BY <1>2, <2>1, <2>2, RatType DEF Represents, Rat
<1>3. CASE filled # 0
  <2> DEFINE worth == price * qty
             total == filled + qty
             new == RatDiv(RatAdd(RatScale(filled, avg), Rat(worth)), total)
  <2>1. AvgFillPrice(r, qty, price) = new
    BY <1>3 DEF AvgFillPrice
  <2>2. worth \in Int /\ total \in Int /\ total # 0 /\ filled \in Int
    BY <1>3
  <2>3. new \in Rational /\ Represents(new, filled * n + worth * d, d * total)
    <3> HIDE DEF worth, total
    <3> QED
      BY <2>2, WeightedRepresents
  <2>4. Represents(new, turn + worth, total)
    <3> DEFINE gained == turn + worth
    <3>1. gained \in Int
      BY <2>2
    <3>2. gained * d = filled * n + worth * d /\ total * d = d * total
      <4> HIDE DEF n, d, worth, total
      <4> QED
        BY <1>1, <2>2
    <3>3. Represents(new, gained * d, total * d)
      BY <2>3, <3>2
    <3>4. d \in Int /\ d # 0 /\ total \in Int /\ new \in Rational
      BY <1>1, <2>2, <2>3
    <3> HIDE DEF gained, total, new, n, d
    <3>5. Represents(new, gained, total)
      BY <3>1, <3>3, <3>4, RepresentsReduced, Zenon
    <3> QED
      BY <3>5 DEF gained
  <2>5. turn + worth = turn + qty * price
    OBVIOUS
  <2> QED
    BY <2>1, <2>3, <2>4, <2>5
<1> QED
  BY <1>2, <1>3

LEMMA AccountInvNext == AccountInv /\ [AccountNext]_accountVars => AccountInv'
<1> SUFFICES ASSUME AccountInv, [AccountNext]_accountVars PROVE AccountInv'
  OBVIOUS
<1>1. CASE UNCHANGED accountVars
  BY <1>1 DEF AccountInv, accountVars, Row
<1>2. ASSUME NEW qty \in Quantities, NEW price \in Prices, NEW side \in Sides,
             ApplyFill(qty, price, side)
      PROVE  AccountInv'
  <2>1. qty \in Nat /\ price \in Nat /\ price > 0
    BY SignalAssumption, AccountAssumption
  <2>2. row.order.symbol \in Symbols
    <3>1. PICK symbol \in Symbols : TRUE
      BY AccountAssumption
    <3>2. [symbol |-> symbol, side |-> side, quantity |-> qty] \in Signals
      BY DEF Signals
    <3>3. (CHOOSE signal \in Signals : TRUE) \in Signals
      BY <3>2
    <3> QED
      BY <3>3 DEF AccountInv, Row, Signals
  <2>3. position' = IF qty = 0 THEN position ELSE FilledPosition(position, qty, price, side)
    BY <1>2, <2>1, <2>2 DEF ApplyFill, on_fill
  <2>4. /\ row' = FilledRow(row, qty, price, "PARTIALLY_FILLED")
        /\ cash' = cash - signed_fill(side, qty) * price
        /\ turnover' = turnover + qty * price
    BY <1>2 DEF ApplyFill
  <2>5. /\ row'.filled_quantity = row.filled_quantity + qty
        /\ row'.avg_fill_price = AvgFillPrice(row, qty, price)
        /\ row'.status = "PARTIALLY_FILLED"
        /\ row' = Row'
    <3> DEFINE first == CHOOSE signal \in Signals : TRUE
    <3>1. row = [order |-> first, status |-> row.status, broker_id |-> None,
                 filled_quantity |-> row.filled_quantity,
                 avg_fill_price |-> row.avg_fill_price]
      BY DEF AccountInv, Row
    <3> HIDE DEF first
    <3>2. row' = [order |-> first, status |-> "PARTIALLY_FILLED", broker_id |-> None,
                  filled_quantity |-> row.filled_quantity + qty,
                  avg_fill_price |-> AvgFillPrice(row, qty, price)]
      <4> DEFINE price2 == AvgFillPrice(row, qty, price)
                 filled2 == row.filled_quantity + qty
      <4>1. row' = [row EXCEPT !.avg_fill_price = price2, !.filled_quantity = filled2,
                               !.status = "PARTIALLY_FILLED"]
        BY <2>4 DEF FilledRow
      <4> HIDE DEF price2, filled2
      <4>2. PICK status, filled, avg :
                row = [order |-> first, status |-> status, broker_id |-> None,
                       filled_quantity |-> filled, avg_fill_price |-> avg]
        BY <3>1
      <4>3. row' = [order |-> first, status |-> "PARTIALLY_FILLED", broker_id |-> None,
                    filled_quantity |-> filled2, avg_fill_price |-> price2]
        BY <4>1, <4>2
      <4> QED
        BY <4>3 DEF price2, filled2
    <3>3. row' = [order |-> first, status |-> row'.status, broker_id |-> None,
                  filled_quantity |-> row'.filled_quantity,
                  avg_fill_price |-> row'.avg_fill_price]
      BY <3>2
    <3>4. row' = Row'
      BY <3>3 DEF Row, first
    <3> QED
      BY <3>2, <3>4
  <2>6. /\ row'.filled_quantity \in Nat /\ row'.avg_fill_price \in Rational
        /\ turnover' \in Int
        /\ Represents(row'.avg_fill_price, turnover', row'.filled_quantity)
    <3>1. /\ AvgFillPrice(row, qty, price) \in Rational
          /\ Represents(AvgFillPrice(row, qty, price), turnover + qty * price,
                        row.filled_quantity + qty)
      BY <2>1, FilledRowRepresents DEF AccountInv
    <3>2. row.filled_quantity + qty \in Nat /\ turnover + qty * price \in Int
      BY <2>1 DEF AccountInv
    <3> QED
      BY <2>4, <2>5, <3>1, <3>2
  <2>7. cash' \in Int
    <3>1. signed_fill(side, qty) \in Int
      BY <2>1 DEF signed_fill
    <3> QED
      BY <2>1, <2>4, <3>1 DEF AccountInv
  <2>8. CASE qty = 0
    <3>1. position' = position /\ cash' = cash
      BY <2>1, <2>3, <2>4, <2>8 DEF signed_fill, AccountInv
    <3> QED
      BY <2>5, <2>6, <2>7, <3>1 DEF AccountInv
  <2>9. CASE qty # 0
    <3>1. position' = FilledPosition(position, qty, price, side) /\ qty > 0
      BY <2>1, <2>3, <2>9
    <3>2. position' \in Position /\ Accounts(position', cash')
      BY <2>1, <2>4, <3>1, FillAccounts DEF AccountInv
    <3>3. CASE position.quantity = 0
      <4>1. PricedBetween(position, price, price)
        BY <3>3 DEF AccountInv, PricedBetween
      <4>2. PricedBetween(position', price, price)
        BY <2>1, <3>1, <3>3, <4>1, FillPricedBetween DEF AccountInv
      <4>3. position'.quantity = 0 => position'.avgPrice = Rat(0)
        BY <4>2 DEF PricedBetween
      <4> QED
        BY <2>5, <2>6, <2>7, <3>2, <4>2, <4>3 DEF AccountInv
    <3>4. CASE position.quantity # 0
      <4>1. PICK low \in Prices, high \in Prices : PricedBetween(position, low, high)
        BY <3>4 DEF AccountInv
      <4>2. low \in Int /\ high \in Int
        BY SignalAssumption
      <4>3. PICK low2 \in Prices : low2 <= price /\ low2 <= low
        BY <2>1, <4>2
      <4>4. PICK high2 \in Prices : price <= high2 /\ high <= high2
        BY <2>1, <4>2
      <4>5. low2 \in Int /\ high2 \in Int
        BY SignalAssumption
      <4>6. PricedBetween(position', low2, high2)
        BY <2>1, <3>1, <4>1, <4>2, <4>3, <4>4, <4>5, FillPricedBetween DEF AccountInv
      <4>7. position'.quantity = 0 => position'.avgPrice = Rat(0)
        BY <4>6 DEF PricedBetween
      <4> QED
        BY <2>5, <2>6, <2>7, <3>2, <4>6, <4>7 DEF AccountInv
    <3> QED
      BY <3>3, <3>4
  <2> QED
    BY <2>8, <2>9
<1> QED
  BY <1>1, <1>2 DEF AccountNext

\* Whatever fills an account gets, its position is a position, and what the
\* proofs below rely on stays true.
THEOREM AccountInvariance == AccountSpec => []AccountInv
BY AccountInvInit, AccountInvNext, PTL DEF AccountSpec

\* Every path through PositionKeeper::on_fill (open, add, reduce, flip, go flat)
\* splits the cash of the fills correctly between rPnL and avgPrice.
THEOREM ProfitIdentityHolds == AccountSpec => []ProfitIdentity
<1>1. AccountInv => ProfitIdentity
  BY AccountsIs DEF AccountInv, ProfitIdentity
<1> QED
  BY <1>1, AccountInvariance, PTL

\* The UPDATE of SQLiteOrderStore::apply_fill keeps the volume-weighted price of
\* all the fills of an order, for any sequence of fills.
THEOREM StoreAverageHolds == AccountSpec => []StoreAverageIsVolumeWeighted
<1>1. AccountInv => StoreAverageIsVolumeWeighted
  <2> SUFFICES ASSUME AccountInv PROVE StoreAverageIsVolumeWeighted
    OBVIOUS
  <2> DEFINE filled == row.filled_quantity
             avg == row.avg_fill_price
             s == RatScale(filled, avg)
  <2>1. /\ filled \in Int /\ avg \in Rational /\ turnover \in Int
        /\ avg.num \in Int /\ avg.den \in Int /\ avg.den # 0
        /\ avg.num * filled = turnover * avg.den
    BY DEF AccountInv, Represents, Rational
  <2>2. s \in Rational /\ Represents(s, filled * avg.num, avg.den)
    BY <2>1, RepresentsSelf, ScaleRepresents
  <2>3. Represents(s, turnover * avg.den, avg.den)
    <3>1. filled * avg.num = turnover * avg.den
      BY <2>1
    <3> QED
      BY <2>2, <3>1
  <2> HIDE DEF filled, avg, s
  <2>4. Represents(s, turnover, 1)
    BY <2>1, <2>2, <2>3, RepresentsWhole
  <2> QED
    BY <2>4 DEF StoreAverageIsVolumeWeighted, RatEq, Represents, Rat, s, filled, avg
<1> QED
  BY <1>1, AccountInvariance, PTL

\* PositionKeeper::on_fill never lets the entry price of an open position leave
\* the range of the prices paid, and gives a flat position none.
THEOREM EntryPriceHolds == AccountSpec => []EntryPriceIsAttainable
<1>1. AccountInv => EntryPriceIsAttainable
  <2> SUFFICES ASSUME AccountInv PROVE EntryPriceIsAttainable
    OBVIOUS
  <2>1. CASE position.quantity = 0
    BY <2>1 DEF AccountInv, EntryPriceIsAttainable, RatEq, Rat
  <2>2. CASE position.quantity # 0
    <3>1. PICK low \in Prices, high \in Prices : PricedBetween(position, low, high)
      BY <2>2 DEF AccountInv
    <3> DEFINE P == position.avgPrice.num
               D == position.avgPrice.den
    <3>2. P \in Int /\ D \in Int /\ low \in Int /\ high \in Int
      BY PartsOf, SignalAssumption DEF PositionParts, AccountInv
    <3>3. low * D <= P /\ P <= high * D
      BY <2>2, <3>1 DEF PricedBetween, AtLeast, AtMost
    <3>4. ~RatLess(position.avgPrice, Rat(low)) /\ ~RatLess(Rat(high), position.avgPrice)
      <4>1. ~(P * 1 < low * D) /\ ~(high * D < P * 1)
        <5> HIDE DEF P, D
        <5>1. low * D \in Int /\ high * D \in Int /\ P * 1 = P
          BY <3>2
        <5> QED
          BY <3>2, <3>3, <5>1
      <4> QED
        BY <4>1 DEF RatLess, Rat
    <3> QED
      BY <2>2, <3>4 DEF EntryPriceIsAttainable
  <2> QED
    BY <2>1, <2>2
<1> QED
  BY <1>1, AccountInvariance, PTL

------------------------------------------------------------------------------
(* The totals of an order: how they compare, and the increments reported.   *)

\* A quantity and what it cost.
Amount == [qty : Int, cost : Rational]

\* The same amount; no less than an amount: an order that executes no further
\* costs no more.
Same(a, b) == a.qty = b.qty /\ RatEq(a.cost, b.cost)
Upto(a, b) == a.qty <= b.qty /\ (a.qty = b.qty => RatEq(a.cost, b.cost))

LEMMA RatEqLaws ==
    ASSUME NEW r \in Rational, NEW s \in Rational, NEW t \in Rational
    PROVE  /\ RatEq(r, r)
           /\ RatEq(r, s) => RatEq(s, r)
           /\ RatEq(r, s) /\ RatEq(s, t) => RatEq(r, t)
<1>1. \A x, y, z \in Rational : RatEq(x, y) => (RatEq(x, z) <=> RatEq(y, z))
  <2> SUFFICES ASSUME NEW x \in Rational, NEW y \in Rational, NEW z \in Rational, RatEq(x, y)
               PROVE  RatEq(x, z) <=> RatEq(y, z)
    OBVIOUS
  <2>1. Represents(y, y.num, y.den) /\ Represents(x, y.num, y.den)
    BY RepresentsSelf DEF Represents, RatEq
  <2>2. y.num \in Int /\ y.den \in Int /\ y.den # 0
    BY DEF Rational
  <2> QED
    BY <2>1, <2>2, RepresentsEq
<1>2. \A x, y \in Rational : RatEq(x, x) /\ (RatEq(x, y) => RatEq(y, x))
  BY DEF RatEq, Rational
<1> QED
  BY <1>1, <1>2

LEMMA SameLaws ==
    ASSUME NEW a \in Amount, NEW b \in Amount, NEW c \in Amount
    PROVE  /\ Same(a, a) /\ Upto(a, a)
           /\ Same(a, b) => Same(b, a) /\ Upto(a, b)
           /\ Same(a, b) /\ Same(b, c) => Same(a, c)
           /\ Upto(a, b) /\ Upto(b, c) => Upto(a, c)
<1>1. /\ a.qty \in Int /\ b.qty \in Int /\ c.qty \in Int
      /\ a.cost \in Rational /\ b.cost \in Rational /\ c.cost \in Rational
  BY DEF Amount
<1>2. \A x, y, z \in Rational :
          /\ RatEq(x, x)
          /\ RatEq(x, y) => RatEq(y, x)
          /\ RatEq(x, y) /\ RatEq(y, z) => RatEq(x, z)
  BY RatEqLaws
<1> QED
  BY <1>1, <1>2 DEF Same, Upto

\* The price of an increment of k, taken k times and added to what was reported,
\* gives the new cost.
LEMMA IncrementPays ==
    ASSUME NEW old \in Rational, NEW prev \in Rational, NEW new \in Rational,
           RatEq(old, prev), NEW k \in Int, k > 0
    PROVE  LET price == RatDiv(RatSub(new, prev), k)
               sum   == RatAdd(old, RatScale(k, price))
           IN  price \in Rational /\ sum \in Rational /\ RatEq(sum, new)
<1> DEFINE a == prev.num
           b == prev.den
           c == new.num
           d == new.den
           minus == RatScale(-1, prev)
           diff == RatSub(new, prev)
           price == RatDiv(diff, k)
           gain == RatScale(k, price)
           sum == RatAdd(old, gain)
<1>1. /\ a \in Int /\ b \in Int /\ b # 0 /\ c \in Int /\ d \in Int /\ d # 0 /\ k # 0
      /\ (-1) * a \in Int
  BY DEF Rational
<1>2. Represents(old, a, b) /\ Represents(new, c, d)
  BY RepresentsSelf DEF Represents, RatEq
<1>3. minus \in Rational /\ Represents(minus, (-1) * a, b)
  <2>1. \A j \in Int : RatScale(j, prev) \in Rational
                       /\ Represents(RatScale(j, prev), j * a, b)
    BY <1>1, RepresentsSelf, ScaleRepresents
  <2> QED
    BY <2>1
<1> DEFINE n1 == c * b + ((-1) * a) * d
           d1 == d * b
<1>4. diff \in Rational /\ Represents(diff, n1, d1)
  BY <1>1, <1>2, <1>3, AddRepresents DEF RatSub
<1>5. n1 \in Int /\ d1 \in Int /\ d1 # 0
  <2>1. d1 \in Int /\ d1 # 0
    <3> HIDE DEF b, d
    <3> QED
      BY <1>1, NonZeroProduct
  <2> QED
    BY <1>1, <2>1
<1> DEFINE d2 == d1 * k
<1>6. price \in Rational /\ Represents(price, n1, d2)
  <2> HIDE DEF n1, d1, diff
  <2> QED
    BY <1>1, <1>4, <1>5, DivRepresents
<1>7. d2 \in Int /\ d2 # 0
  <2> HIDE DEF d1
  <2> QED
    BY <1>1, <1>5, NonZeroProduct
<1>8. gain \in Rational /\ Represents(gain, k * n1, d2) /\ k * n1 \in Int
  <2> HIDE DEF n1, d2, price
  <2>1. k * n1 \in Int
    BY <1>5
  <2>2. \A j \in Int : RatScale(j, price) \in Rational
                       /\ Represents(RatScale(j, price), j * n1, d2)
    BY <1>5, <1>6, <1>7, ScaleRepresents
  <2> QED
    BY <2>1, <2>2
<1> DEFINE n2 == k * n1
<1>9. sum \in Rational /\ Represents(sum, a * d2 + n2 * b, b * d2)
  <2>1. n2 \in Int /\ Represents(gain, n2, d2)
    BY <1>8
  <2> HIDE DEF n2, d2, gain, a, b
  <2> QED
    BY <1>1, <1>2, <1>7, <1>8, <2>1, AddRepresents
<1> DEFINE e == (b * b) * k
<1>10. e \in Int /\ e # 0
  <2> HIDE DEF b
  <2>1. b * b \in Int /\ b * b # 0
    BY <1>1, NonZeroProduct
  <2> QED
    BY <1>1, <2>1, NonZeroProduct
<1>11. a * d2 + n2 * b = c * e /\ b * d2 = d * e
  <2> HIDE DEF a, b, c, d
  <2> QED
    BY <1>1
<1>12. Represents(sum, c * e, d * e)
  BY <1>9, <1>11
<1>13. Represents(sum, c, d)
  <2> HIDE DEF sum, c, d, e
  <2> QED
    BY <1>1, <1>9, <1>10, <1>12, RepresentsReduced
<1>14. RatEq(new, sum)
  BY <1>1, <1>2, <1>9, <1>13, RepresentsEq
<1> QED
  BY <1>6, <1>9, <1>14, RatEqLaws

\* What enqueue_report adds makes the reports of the order catch up with the
\* totals of the update, when the gateway remembers the totals it reported.
LEMMA ReportCatchesUp ==
    ASSUME NEW old \in Amount, NEW prev \in Amount, NEW new \in Amount, Same(old, prev),
           Upto(prev, new), NEW average \in Rational
    PROVE  LET report == Increment(prev, new, average)
               sum    == [qty  |-> old.qty + report.qty,
                          cost |-> RatAdd(old.cost, RatScale(report.qty, report.price))]
           IN  sum \in Amount /\ Same(sum, new)
<1> DEFINE k == new.qty - prev.qty
           report == Increment(prev, new, average)
           cost == RatAdd(old.cost, RatScale(report.qty, report.price))
<1>1. /\ k \in Int /\ k >= 0 /\ old.qty + k = new.qty /\ report.qty = k
      /\ old.qty \in Int /\ new.qty \in Int
      /\ old.cost \in Rational /\ prev.cost \in Rational /\ new.cost \in Rational
      /\ RatEq(old.cost, prev.cost)
  BY DEF Amount, Same, Upto, Increment
<1>2. cost \in Rational /\ RatEq(cost, new.cost)
  <2>1. CASE k > 0
    <3>1. report.price = RatDiv(RatSub(new.cost, prev.cost), k)
      BY <2>1 DEF Increment
    <3> QED
      BY <1>1, <2>1, <3>1, IncrementPays
  <2>2. CASE k = 0
    <3>1. report.price = average
      BY <2>2 DEF Increment
    <3>2. RatEq(prev.cost, new.cost)
      BY <2>2 DEF Upto, Amount
    <3> DEFINE p == average.num
               q == average.den
               n == old.cost.num
               d == old.cost.den
    <3>3. p \in Int /\ q \in Int /\ q # 0 /\ n \in Int /\ d \in Int /\ d # 0
      BY <1>1 DEF Rational
    <3>4. RatScale(0, average) \in Rational /\ Represents(RatScale(0, average), 0 * p, q)
      <4>1. \A j \in Int : RatScale(j, average) \in Rational
                           /\ Represents(RatScale(j, average), j * p, q)
        BY <3>3, RepresentsSelf, ScaleRepresents
      <4> QED
        BY <4>1
    <3>5. 0 * p = 0
      BY <3>3
    <3>6. cost \in Rational /\ Represents(cost, n * q + 0 * d, d * q)
      BY <1>1, <2>2, <3>1, <3>3, <3>4, <3>5, RepresentsSelf, AddRepresents
    <3>7. n * q + 0 * d = n * q
      <4> HIDE DEF n, q, d
      <4> QED
        BY <3>3
    <3>8. Represents(cost, n * q, d * q)
      BY <3>6, <3>7
    <3>9. Represents(cost, n, d)
      <4> HIDE DEF cost, n, q, d
      <4> QED
        BY <3>3, <3>6, <3>8, RepresentsReduced
    <3>10. RatEq(old.cost, cost)
      BY <1>1, <3>3, <3>6, <3>9, RepresentsSelf, RepresentsEq
    <3> HIDE DEF cost
    <3> QED
      BY <1>1, <3>2, <3>6, <3>10, RatEqLaws
  <2> QED
    BY <1>1, <2>1, <2>2
<1> HIDE DEF cost
<1> QED
  BY <1>1, <1>2 DEF Amount, Same, cost

\* An amount reported n times; what counts how often the last totals were.
Times(n, a) == [qty |-> n * a.qty, cost |-> RatScale(n, a.cost)]
Copies(n) == IF n = 0 THEN 1 ELSE n

LEMMA CopiesIs ==
    ASSUME NEW n \in Nat
    PROVE  Max({1, n}) = Copies(n) /\ Copies(n) \in Nat
<1>1. \A x \in {1, n} : (\A y \in {1, n} : x >= y) <=> x = Copies(n)
  BY DEF Copies
<1>2. Copies(n) \in {1, n}
  BY DEF Copies
<1>3. (CHOOSE x \in {1, n} : \A y \in {1, n} : x >= y) = Copies(n)
  BY <1>1, <1>2
<1> QED
  BY <1>3 DEF Max, Copies

LEMMA TimesLaws ==
    ASSUME NEW a \in Amount, NEW n \in Nat
    PROVE  Times(n, a) \in Amount /\ Same(Times(1, a), a)
<1>1. a.qty \in Int /\ a.cost \in Rational
  BY DEF Amount
<1>2. n * a.qty \in Int /\ \A j \in Int : RatScale(j, a.cost) \in Rational
  <2>1. \A j \in Int : RatScale(j, a.cost) \in Rational
    BY <1>1, RatArithmeticType
  <2>2. n * a.qty \in Int
    BY <1>1
  <2> QED
    BY <2>1, <2>2
<1>3. RatEq(RatScale(1, a.cost), a.cost)
  <2> DEFINE p == a.cost.num
             q == a.cost.den
             s == RatScale(1, a.cost)
  <2>1. p \in Int /\ q \in Int /\ q # 0
    BY <1>1 DEF Rational
  <2>2. \A j \in Int : Represents(RatScale(j, a.cost), j * p, q)
    BY <1>1, <2>1, RepresentsSelf, ScaleRepresents
  <2>3. Represents(s, p, q) /\ s \in Rational
    <3>1. 1 * p = p
      BY <2>1
    <3>2. Represents(s, 1 * p, q) /\ s \in Rational
      BY <1>2, <2>2
    <3> HIDE DEF s, p
    <3> QED
      BY <3>1, <3>2
  <2> HIDE DEF s, p, q
  <2>4. RatEq(s, a.cost)
    BY <1>1, <2>1, <2>3, RepresentsSelf, RepresentsEq DEF p, q
  <2> QED
    BY <2>4 DEF s
<1>4. 1 * a.qty = a.qty
  BY <1>1
<1> QED
  BY <1>2, <1>3, <1>4 DEF Times, Amount, Same

\* One more report of an amount that was reported n times.
LEMMA TimesNext ==
    ASSUME NEW old \in Amount, NEW a \in Amount, NEW n \in Nat, Same(old, Times(n, a)),
           NEW gain \in Rational, RatEq(gain, a.cost)
    PROVE  LET sum == [qty |-> old.qty + a.qty, cost |-> RatAdd(old.cost, gain)]
           IN  sum \in Amount /\ Same(sum, Times(n + 1, a))
<1> DEFINE p == a.cost.num
           q == a.cost.den
           cost == RatAdd(old.cost, gain)
           scaled == RatScale(n, a.cost)
           next == RatScale(n + 1, a.cost)
<1>1. /\ a.qty \in Int /\ a.cost \in Rational /\ old.qty \in Int /\ old.cost \in Rational
      /\ p \in Int /\ q \in Int /\ q # 0 /\ n \in Int /\ n + 1 \in Int
      /\ old.qty = n * a.qty /\ RatEq(old.cost, scaled)
  BY DEF Amount, Rational, Same, Times
<1>2. \A j \in Int : RatScale(j, a.cost) \in Rational
                     /\ Represents(RatScale(j, a.cost), j * p, q)
  BY <1>1, RepresentsSelf, ScaleRepresents
<1>3. /\ scaled \in Rational /\ Represents(scaled, n * p, q)
      /\ next \in Rational /\ Represents(next, (n + 1) * p, q)
  BY <1>1, <1>2
<1> HIDE DEF scaled, next, cost
<1> DEFINE np == n * p
           mp == (n + 1) * p
<1>4. np \in Int /\ mp \in Int /\ np * q + p * q = mp * q
  <2> HIDE DEF p, q
  <2> QED
    BY <1>1
<1>5. Represents(scaled, np, q) /\ Represents(next, mp, q)
  BY <1>3
<1> HIDE DEF np, mp
<1>6. Represents(gain, p, q)
  <2>1. RatEq(a.cost, gain)
    BY <1>1, RatEqLaws
  <2> HIDE DEF p, q
  <2> QED
    BY <1>1, <2>1, RepresentsSelf, RepresentsEq DEF p, q
<1>7. Represents(old.cost, np, q)
  <2>1. RatEq(scaled, old.cost)
    BY <1>1, <1>3, RatEqLaws
  <2> HIDE DEF q
  <2> QED
    BY <1>1, <1>3, <1>4, <1>5, <2>1, RepresentsEq
<1> HIDE DEF p, q
<1>8. cost \in Rational /\ Represents(cost, mp * q, q * q)
  <2>1. cost \in Rational /\ Represents(cost, np * q + p * q, q * q)
    BY <1>1, <1>4, <1>6, <1>7, AddRepresents DEF cost
  <2> QED
    BY <1>4, <2>1
<1>9. Represents(cost, mp, q)
  BY <1>1, <1>4, <1>8, RepresentsReduced
<1>10. RatEq(cost, next)
  BY <1>1, <1>3, <1>4, <1>5, <1>8, <1>9, RepresentsEq
<1>11. old.qty + a.qty = (n + 1) * a.qty /\ old.qty + a.qty \in Int
  <2> DEFINE x == a.qty
             y == old.qty
  <2>1. x \in Int /\ y = n * x /\ n \in Int
    BY <1>1
  <2> HIDE DEF x, y
  <2>2. y + x = (n + 1) * x /\ y + x \in Int
    BY <2>1
  <2> QED
    BY <2>2 DEF x, y
<1> QED
  BY <1>8, <1>10, <1>11 DEF cost, next, Same, Times, Amount

\* Without totals to compare with, an update is reported in full.
LEMMA ReportedInFull ==
    ASSUME NEW new \in Amount, Upto(Nothing, new), NEW average \in Rational
    PROVE  LET report == Increment(Nothing, new, average)
               gain   == RatScale(report.qty, report.price)
           IN  /\ report.qty = new.qty
               /\ gain \in Rational /\ RatEq(gain, new.cost)
<1> DEFINE report == Increment(Nothing, new, average)
           gain == RatScale(report.qty, report.price)
           sum == RatAdd(Rat(0), gain)
<1>1. Nothing \in Amount /\ Nothing.qty = 0 /\ Nothing.cost = Rat(0) /\ new.qty \in Int
      /\ new.cost \in Rational /\ Rat(0) \in Rational
  BY RatType DEF Nothing, Amount
<1>2. Same(Nothing, Nothing)
  BY <1>1, SameLaws
<1>3. RatEq(sum, new.cost)
  BY <1>1, <1>2, ReportCatchesUp DEF Same
<1>4. report.qty = new.qty /\ report.qty \in Int
  BY <1>1 DEF Increment
<1>5. report.price \in Rational
  <2>1. CASE report.qty > 0
    <3>1. report.price = RatDiv(RatSub(new.cost, Rat(0)), new.qty)
      BY <1>1, <1>4, <2>1 DEF Increment
    <3>2. RatSub(new.cost, Rat(0)) \in Rational
      BY <1>1, RatArithmeticType
    <3> QED
      BY <1>1, <1>4, <2>1, <3>1, <3>2, RatArithmeticType
  <2>2. CASE ~(report.qty > 0)
    BY <1>1, <1>4, <2>2 DEF Increment
  <2> QED
    BY <2>1, <2>2
<1>6. gain \in Rational
  <2> HIDE DEF report
  <2> QED
    BY <1>4, <1>5, RatArithmeticType
<1> HIDE DEF report, gain
<1>7. RatEq(gain, sum)
  <2> DEFINE p == gain.num
             q == gain.den
  <2>1. p \in Int /\ q \in Int /\ q # 0
    BY <1>6 DEF Rational
  <2>2. Represents(gain, p, q) /\ Represents(Rat(0), 0, 1)
    BY <1>6, RepresentsSelf, RatRepresents
  <2> HIDE DEF p, q
  <2>3. sum \in Rational /\ Represents(sum, 0 * q + p * 1, 1 * q)
    BY <1>1, <1>6, <2>1, <2>2, AddRepresents
  <2>4. 0 * q + p * 1 = p /\ 1 * q = q
    BY <2>1
  <2>5. Represents(sum, p, q)
    BY <2>3, <2>4
  <2> HIDE DEF sum
  <2> QED
    BY <1>6, <2>1, <2>2, <2>3, <2>5, RepresentsEq
<1>8. sum \in Rational
  BY <1>1, <1>6, RatArithmeticType
<1> HIDE DEF sum
<1>9. RatEq(gain, new.cost)
  BY <1>1, <1>3, <1>6, <1>7, <1>8, RatEqLaws
<1> QED
  BY <1>4, <1>6, <1>9 DEF report, gain

------------------------------------------------------------------------------
(* The updates under way.                                                   *)

Events == {"partial_fill", "fill", "canceled", "expired", "rejected", "replaced"}

TradeUpdate == [id : BrokerIds, event : Events, filledQty : Nat, filledAvgPrice : Rational]

\* What an order has executed, as an update would show it.
Executed(order) == [qty |-> order.filled, cost |-> Rat(order.cost)]

\* An update never shows more than the order has executed, nor less than the
\* gateway was shown; updates of an order come in the order of its executions;
\* and one that ends the order is the last, but for copies of itself.
KnownUpdate(u, table) ==
    /\ table[u.id] # None
    /\ u.event # "partial_fill" => ~table[u.id].live
    /\ Upto(Totals(u), Executed(table[u.id]))

InOrder(u, later) ==
    u.id = later.id =>
        IF u.event = "partial_fill" THEN Upto(Totals(u), Totals(later)) ELSE later = u

Consistent(list, table, last) ==
    /\ list \in Seq(TradeUpdate)
    /\ \A i \in 1 .. Len(list) :
          KnownUpdate(list[i], table) /\ Upto(last[list[i].id], Totals(list[i]))
    /\ \A i, j \in 1 .. Len(list) : i < j => InOrder(list[i], list[j])

\* The order has ended and the gateway was told: what is under way about it are
\* copies, and a fill among them is one that completed it and was shown before.
Over(list, b, n, last) ==
    \A i \in 1 .. Len(list) : list[i].id = b =>
        /\ list[i].event # "partial_fill"
        /\ list[i].event = "fill" => n > 0 /\ Totals(list[i]) = last

TableType == [BrokerIds -> VenueOrder \cup {None}]
AmountType == [BrokerIds -> Amount]

\* What the venue may do to the table: orders come, execute and end.
Advances(table, after) ==
    \A b \in BrokerIds : table[b] # None =>
        /\ after[b] # None
        /\ ~table[b].live => ~after[b].live
        /\ Upto(Executed(table[b]), Executed(after[b]))

SoundOrder(b) ==
    /\ IF orders[b] = None
       THEN shown[b] = Nothing
       ELSE Upto(shown[b], Executed(orders[b])) /\ (orders[b].filled = 0 => orders[b].cost = 0)
    /\ Upto(Nothing, shown[b])
    /\ \/ finals[b] = 0 /\ Same(cum[b], shown[b])
       \/ /\ orders[b] # None /\ ~orders[b].live
          /\ cum[b] = Nothing
          /\ Over(updates, b, finals[b], shown[b])
    /\ Same(reported[b], Times(Copies(finals[b]), shown[b]))

AlpacaInv ==
    /\ orders \in TableType
    /\ cum \in AmountType /\ shown \in AmountType /\ reported \in AmountType
    /\ finals \in [BrokerIds -> Nat]
    /\ \E n \in 0 .. MaxOrders : Placed = 0 .. n - 1
    /\ Consistent(updates, orders, shown)
    /\ \A b \in BrokerIds : SoundOrder(b)

LEMMA TotalsType ==
    ASSUME NEW u \in TradeUpdate
    PROVE  Totals(u) \in Amount /\ u.id \in BrokerIds /\ u.filledAvgPrice \in Rational
<1>1. u.filledQty \in Int /\ u.filledAvgPrice \in Rational /\ u.id \in BrokerIds
  BY DEF TradeUpdate
<1> QED
  BY <1>1, RatArithmeticType DEF Totals, Amount

LEMMA ExecutedType ==
    ASSUME NEW order \in VenueOrder
    PROVE  /\ Executed(order) \in Amount
           /\ order.quantity \in Nat /\ order.filled \in Nat /\ order.cost \in Nat
           /\ order.live \in BOOLEAN
  BY RatType DEF VenueOrder, Executed, Amount

\* An update about an order shows what the order has executed.
LEMMA UpdateShows ==
    ASSUME NEW b \in BrokerIds, NEW event \in Events, NEW order \in VenueOrder,
           order.filled = 0 => order.cost = 0
    PROVE  /\ Update(b, event, order) \in TradeUpdate
           /\ Same(Totals(Update(b, event, order)), Executed(order))
<1> DEFINE u == Update(b, event, order)
           n == order.filled
           c == order.cost
           average == IF n = 0 THEN Rat(0) ELSE Ratio(c, n)
           s == RatScale(n, average)
<1>1. n \in Int /\ c \in Int /\ n \in Nat /\ (n = 0 => c = 0)
  BY ExecutedType
<1>2. u.id = b /\ u.event = event /\ u.filledQty = n /\ u.filledAvgPrice = average
  BY DEF Update
<1>3. average \in Rational /\ Represents(average, c, IF n = 0 THEN 1 ELSE n)
  <2>1. CASE n = 0
    BY <1>1, <2>1, RatRepresents
  <2>2. CASE n # 0
    BY <1>1, <2>2, RatioRepresents
  <2> QED
    BY <2>1, <2>2
<1>4. s \in Rational /\ Represents(s, c, 1)
  <2>1. CASE n = 0
    <3>1. \A j \in Int : RatScale(j, average) \in Rational
                         /\ Represents(RatScale(j, average), j * c, 1)
      BY <1>1, <1>3, <2>1, ScaleRepresents
    <3>2. n * c = c
      BY <1>1, <2>1
    <3> HIDE DEF average
    <3> QED
      BY <1>1, <3>1, <3>2
  <2>2. CASE n # 0
    <3>1. Represents(average, c, n)
      BY <1>3, <2>2
    <3> HIDE DEF average, n, c
    <3>2. \A j \in Int : RatScale(j, average) \in Rational
                         /\ Represents(RatScale(j, average), j * c, n)
      BY <1>1, <1>3, <2>2, <3>1, ScaleRepresents
    <3>3. n * c = c * n
      BY <1>1
    <3>4. s \in Rational /\ Represents(s, c * n, n)
      BY <1>1, <3>2, <3>3
    <3> HIDE DEF s
    <3> QED
      BY <1>1, <2>2, <3>4, RepresentsWhole
  <2> QED
    BY <2>1, <2>2
<1>5. RatEq(s, Rat(c))
  <2> HIDE DEF s
  <2> QED
    BY <1>1, <1>4 DEF RatEq, Represents, Rat, Rational
<1>6. u = [id |-> b, event |-> event, filledQty |-> n, filledAvgPrice |-> average]
  BY DEF Update
<1>7. u \in TradeUpdate
  <2> HIDE DEF average, n, u
  <2> QED
    BY <1>1, <1>3, <1>6 DEF TradeUpdate
<1>8. Same(Totals(u), Executed(order))
  <2>1. Totals(u).qty = n /\ Totals(u).cost = s
    BY <1>2 DEF Totals
  <2> QED
    BY <1>5, <2>1 DEF Same, Executed
<1> QED
  BY <1>7, <1>8

\* Updates stay consistent when the venue moves on,
LEMMA ConsistentAdvances ==
    ASSUME NEW list, NEW table \in TableType, NEW after \in TableType, NEW last \in AmountType,
           Consistent(list, table, last), Advances(table, after)
    PROVE  Consistent(list, after, last)
<1>1. ASSUME NEW i \in 1 .. Len(list)
      PROVE  KnownUpdate(list[i], after)
  <2> DEFINE u == list[i]
  <2>1. u \in TradeUpdate /\ KnownUpdate(u, table)
    BY ElementOfSeq DEF Consistent
  <2> HIDE DEF u
  <2>2. u.id \in BrokerIds /\ Totals(u) \in Amount
    BY <2>1, TotalsType
  <2>3. /\ table[u.id] # None /\ after[u.id] # None
        /\ ~table[u.id].live => ~after[u.id].live
        /\ Upto(Executed(table[u.id]), Executed(after[u.id]))
    BY <2>1, <2>2 DEF Advances, KnownUpdate
  <2>4. Executed(table[u.id]) \in Amount /\ Executed(after[u.id]) \in Amount
    BY <2>2, <2>3, ExecutedType DEF TableType
  <2>5. Upto(Totals(u), Executed(after[u.id]))
    BY <2>1, <2>2, <2>3, <2>4, SameLaws DEF KnownUpdate
  <2>6. KnownUpdate(u, after)
    BY <2>1, <2>3, <2>5 DEF KnownUpdate
  <2> QED
    BY <2>6 DEF u
<1> QED
  BY <1>1 DEF Consistent

\* when it sends another update about an order, once it has moved on,
LEMMA ConsistentAppend ==
    ASSUME NEW list, NEW table \in TableType, NEW last \in AmountType,
           Consistent(list, table, last),
           NEW u \in TradeUpdate, table[u.id] # None,
           u.event # "partial_fill" => ~table[u.id].live,
           Same(Totals(u), Executed(table[u.id])),
           Upto(last[u.id], Executed(table[u.id])),
           \A i \in 1 .. Len(list) : list[i].id = u.id => list[i].event = "partial_fill"
    PROVE  Consistent(Append(list, u), table, last)
<1> DEFINE new == Append(list, u)
           n == Len(list)
<1>1. /\ new \in Seq(TradeUpdate) /\ Len(new) = n + 1 /\ n \in Nat
      /\ \A i \in 1 .. n : new[i] = list[i]
      /\ new[n + 1] = u
  BY AppendProperties, LenProperties DEF Consistent
<1>2. /\ Totals(u) \in Amount /\ Executed(table[u.id]) \in Amount /\ last[u.id] \in Amount
      /\ u.id \in BrokerIds
  BY TotalsType, ExecutedType DEF TableType, AmountType
<1>3. KnownUpdate(u, table) /\ Upto(last[u.id], Totals(u))
  BY <1>2, SameLaws DEF KnownUpdate
<1>4. ASSUME NEW i \in 1 .. n, list[i].id = u.id
      PROVE  list[i].event = "partial_fill" /\ Upto(Totals(list[i]), Totals(u))
  <2>1. list[i] \in TradeUpdate /\ Upto(Totals(list[i]), Executed(table[u.id]))
    BY <1>4, ElementOfSeq DEF Consistent, KnownUpdate
  <2>2. Totals(list[i]) \in Amount
    BY <2>1, TotalsType
  <2> QED
    BY <1>2, <1>4, <2>1, <2>2, SameLaws
<1>5. \A i \in 1 .. n + 1 : i \in 1 .. n \/ i = n + 1
  BY <1>1
<1>6. ASSUME NEW i \in 1 .. Len(new)
      PROVE  KnownUpdate(new[i], table) /\ Upto(last[new[i].id], Totals(new[i]))
  <2>1. CASE i \in 1 .. n
    BY <1>1, <2>1 DEF Consistent
  <2>2. CASE i = n + 1
    BY <1>1, <1>3, <2>2
  <2> QED
    BY <1>1, <1>5, <2>1, <2>2
<1>7. ASSUME NEW i \in 1 .. Len(new), NEW j \in 1 .. Len(new), i < j
      PROVE  InOrder(new[i], new[j])
  <2>1. i \in 1 .. n /\ new[i] = list[i]
    BY <1>1, <1>7
  <2>2. CASE j \in 1 .. n
    BY <1>1, <1>7, <2>1, <2>2 DEF Consistent
  <2>3. CASE j = n + 1
    BY <1>1, <1>4, <2>1, <2>3 DEF InOrder
  <2> QED
    BY <1>1, <1>5, <2>2, <2>3
<1> QED
  BY <1>1, <1>6, <1>7 DEF Consistent

\* when an update is missed,
LEMMA ConsistentTail ==
    ASSUME NEW list, NEW table, NEW last, Consistent(list, table, last), list # <<>>
    PROVE  /\ Consistent(Tail(list), table, last)
           /\ \A i \in 1 .. Len(Tail(list)) : /\ Tail(list)[i] \in TradeUpdate
                                              /\ InOrder(Head(list), Tail(list)[i])
           /\ Head(list) \in TradeUpdate /\ KnownUpdate(Head(list), table)
           /\ Upto(last[Head(list).id], Totals(Head(list)))
<1> DEFINE n == Len(list)
           rest == Tail(list)
<1>1. /\ list \in Seq(TradeUpdate) /\ n \in Nat \ {0}
      /\ rest \in Seq(TradeUpdate) /\ Len(rest) = n - 1
      /\ \A i \in 1 .. Len(rest) : rest[i] = list[i + 1]
      /\ Head(list) = list[1] /\ Head(list) \in TradeUpdate
  BY HeadTailProperties, EmptySeq DEF Consistent
<1>2. \A i \in 1 .. Len(rest) : i + 1 \in 1 .. n /\ 1 < i + 1
  BY <1>1
<1>3. 1 \in 1 .. n
  BY <1>1
<1>4. \A i \in 1 .. Len(rest) : /\ KnownUpdate(rest[i], table)
                                /\ Upto(last[rest[i].id], Totals(rest[i]))
                                /\ InOrder(list[1], rest[i])
  BY <1>1, <1>2, <1>3 DEF Consistent
<1>5. \A i, j \in 1 .. Len(rest) : i < j => InOrder(rest[i], rest[j])
  BY <1>1, <1>2 DEF Consistent
<1>6. \A i \in 1 .. Len(rest) : rest[i] \in TradeUpdate
  BY <1>1, ElementOfSeq
<1>7. Consistent(rest, table, last)
  BY <1>1, <1>4, <1>5 DEF Consistent
<1>8. KnownUpdate(list[1], table) /\ Upto(last[list[1].id], Totals(list[1]))
  BY <1>3 DEF Consistent
<1> QED
  BY <1>1, <1>4, <1>6, <1>7, <1>8

\* or repeated,
LEMMA ConsistentRepeat ==
    ASSUME NEW list, NEW table, NEW last, Consistent(list, table, last), list # <<>>
    PROVE  /\ Consistent(<<Head(list)>> \o list, table, last)
           /\ \A b, n, a : Over(list, b, n, a) => Over(<<Head(list)>> \o list, b, n, a)
<1> DEFINE n == Len(list)
           u == Head(list)
           new == <<u>> \o list
<1>1. /\ list \in Seq(TradeUpdate) /\ n \in Nat \ {0} /\ u = list[1] /\ u \in TradeUpdate
  BY HeadTailProperties, EmptySeq DEF Consistent
<1>2. /\ new \in Seq(TradeUpdate) /\ Len(new) = n + 1
      /\ \A i \in 1 .. n + 1 : new[i] = IF i <= 1 THEN u ELSE list[i - 1]
  <2>1. <<u>> \in Seq(TradeUpdate) /\ Len(<<u>>) = 1 /\ <<u>>[1] = u
    BY <1>1
  <2>2. /\ new \in Seq(TradeUpdate) /\ Len(new) = 1 + n
        /\ \A i \in 1 .. 1 + n : new[i] = IF i <= 1 THEN <<u>>[i] ELSE list[i - 1]
    <3> HIDE DEF u
    <3> QED
      BY <1>1, <2>1, ConcatProperties
  <2>3. 1 + n = n + 1 /\ \A i \in 1 .. n + 1 : i <= 1 => i = 1
    BY <1>1
  <2> QED
    BY <1>1, <2>1, <2>2, <2>3
<1>3. /\ 1 \in 1 .. n
      /\ \A i \in 1 .. n + 1 : \/ i = 1 /\ new[i] = list[1]
                               \/ i > 1 /\ i - 1 \in 1 .. n /\ new[i] = list[i - 1]
  BY <1>1, <1>2
<1>4. InOrder(list[1], list[1])
  BY <1>1, TotalsType, SameLaws DEF InOrder
<1>5. \A i \in 1 .. n + 1 : KnownUpdate(new[i], table) /\ Upto(last[new[i].id], Totals(new[i]))
  BY <1>3 DEF Consistent
<1>6. ASSUME NEW i \in 1 .. n + 1, NEW j \in 1 .. n + 1, i < j
      PROVE  InOrder(new[i], new[j])
  <2>1. j > 1 /\ j - 1 \in 1 .. n /\ new[j] = list[j - 1]
    BY <1>1, <1>3, <1>6
  <2>2. CASE i = 1
    <3>1. new[i] = list[1]
      BY <1>3, <2>2
    <3>2. j - 1 = 1 \/ 1 < j - 1
      BY <2>1
    <3> QED
      BY <1>3, <1>4, <2>1, <3>1, <3>2 DEF Consistent
  <2>3. CASE i > 1
    <3>1. i - 1 \in 1 .. n /\ new[i] = list[i - 1] /\ i - 1 < j - 1
      BY <1>3, <1>6, <2>3
    <3> QED
      BY <2>1, <3>1 DEF Consistent
  <2> QED
    BY <1>3, <2>2, <2>3
<1>7. ASSUME NEW b, NEW m, NEW a, Over(list, b, m, a)
      PROVE  Over(new, b, m, a)
  <2> HIDE DEF new
  <2> QED
    BY <1>2, <1>3, <1>7 DEF Over
<1> HIDE DEF new
<1> QED
  BY <1>2, <1>5, <1>6, <1>7 DEF Consistent, new

\* and when the gateway has been shown the first of them.
LEMMA ConsistentShown ==
    ASSUME NEW list, NEW table, NEW last \in AmountType, Consistent(list, table, last),
           list # <<>>
    PROVE  Consistent(Tail(list), table, [last EXCEPT ![Head(list).id] = Totals(Head(list))])
<1> DEFINE u == Head(list)
           rest == Tail(list)
           new == [last EXCEPT ![u.id] = Totals(u)]
<1>1. /\ Consistent(rest, table, last) /\ u \in TradeUpdate
      /\ \A i \in 1 .. Len(rest) : rest[i] \in TradeUpdate /\ InOrder(u, rest[i])
  BY ConsistentTail
<1> HIDE DEF rest, u
<1>2. ASSUME NEW i \in 1 .. Len(rest)
      PROVE  Upto(new[rest[i].id], Totals(rest[i]))
  <2>1. rest[i].id \in BrokerIds
    BY <1>1, TotalsType
  <2>2. CASE rest[i].id = u.id
    <3>1. new[rest[i].id] = Totals(u)
      BY <2>1, <2>2 DEF AmountType
    <3>2. Upto(Totals(u), Totals(u))
      BY <1>1, TotalsType, SameLaws
    <3> QED
      BY <1>1, <2>2, <3>1, <3>2 DEF InOrder
  <2>3. CASE rest[i].id # u.id
    <3>1. new[rest[i].id] = last[rest[i].id]
      BY <2>1, <2>3 DEF AmountType
    <3> QED
      BY <1>1, <3>1 DEF Consistent
  <2> QED
    BY <2>2, <2>3
<1> QED
  BY <1>1, <1>2 DEF Consistent, u, rest

------------------------------------------------------------------------------
(* The steps of the venue and of the gateway.                               *)

SoundTable(table) ==
    \A b \in BrokerIds : table[b] # None /\ table[b].filled = 0 => table[b].cost = 0

FilledIds(table) == {b \in BrokerIds : table[b] # None}

LEMMA AdvancesItself ==
    ASSUME NEW table \in TableType
    PROVE  Advances(table, table)
<1> SUFFICES ASSUME NEW b \in BrokerIds, table[b] # None
             PROVE  Upto(Executed(table[b]), Executed(table[b]))
  BY DEF Advances
<1>1. table[b] \in VenueOrder
  BY DEF TableType
<1> QED
  BY <1>1, ExecutedType, SameLaws

\* The ids are handed out in order, so a new order takes nobody's place.
LEMMA NewOrderAdvances ==
    ASSUME AlpacaInv, Placed # BrokerIds, NEW table \in TableType, Advances(orders, table),
           FilledIds(table) = Placed, SoundTable(table), NEW quantity \in Nat
    PROVE  /\ NewOrder(table, quantity) \in TableType
           /\ Advances(orders, NewOrder(table, quantity))
           /\ SoundTable(NewOrder(table, quantity))
           /\ \E n \in 0 .. MaxOrders : FilledIds(NewOrder(table, quantity)) = 0 .. n - 1
           /\ \A b \in Placed : NewOrder(table, quantity)[b] = table[b]
<1>1. PICK n \in 0 .. MaxOrders : Placed = 0 .. n - 1
  BY DEF AlpacaInv
<1>2. n \in Nat /\ n < MaxOrders /\ MaxOrders \in Nat
  BY <1>1, OrderIdsAssumption DEF BrokerIds
<1>3. Cardinality(Placed) = n
  <2>1. Cardinality(0 .. n - 1) = IF 0 > n - 1 THEN 0 ELSE (n - 1) - 0 + 1
    BY <1>2, FS_Interval
  <2> QED
    BY <1>1, <1>2, <2>1
<1> DEFINE order == [quantity |-> quantity, filled |-> 0, cost |-> 0, live |-> TRUE]
           new == [table EXCEPT ![n] = order]
<1>4. n \in BrokerIds /\ n \notin Placed /\ NewOrder(table, quantity) = new
  <2>1. n \in BrokerIds /\ n \notin Placed
    BY <1>1, <1>2 DEF BrokerIds
  <2>2. NewOrder(table, quantity) = new
    BY <1>3, Zenon DEF NewOrder
  <2> QED
    BY <2>1, <2>2
<1>5. order \in VenueOrder /\ order # None
  <2>1. order \in VenueOrder
    BY DEF VenueOrder
  <2> QED
    BY <2>1, NoneIsNotAVenueOrder
<1>6. \A b \in BrokerIds : new[b] = IF b = n THEN order ELSE table[b]
  BY DEF TableType
<1>7. new \in TableType
  BY <1>4, <1>5 DEF TableType
<1>8. Advances(orders, new)
  BY <1>4, <1>6 DEF Advances, Placed
<1>9. SoundTable(new)
  BY <1>6 DEF SoundTable
<1>10. FilledIds(new) = 0 .. n
  <2>1. FilledIds(new) = Placed \cup {n}
    BY <1>4, <1>5, <1>6 DEF FilledIds
  <2>2. (0 .. n - 1) \cup {n} = 0 .. n
    BY <1>2
  <2> QED
    BY <1>1, <2>1, <2>2
<1>11. n + 1 \in 0 .. MaxOrders /\ (n + 1) - 1 = n
  BY <1>2
<1>12. \E m \in 0 .. MaxOrders : FilledIds(new) = 0 .. m - 1
  BY <1>10, <1>11
<1>13. \A b \in Placed : new[b] = table[b]
  BY <1>4, <1>6 DEF Placed
<1> HIDE DEF new
<1> QED
  BY <1>4, <1>7, <1>8, <1>9, <1>12, <1>13

\* A step of the venue that may send an update about an order that was live.
LEMMA VenueStep ==
    ASSUME AlpacaInv, orders' \in TableType, Advances(orders, orders'), SoundTable(orders'),
           \E n \in 0 .. MaxOrders : FilledIds(orders') = 0 .. n - 1,
           UNCHANGED <<cum, reported, shown, finals>>,
           \/ updates' = updates
           \/ \E u \in TradeUpdate :
                 /\ updates' = Append(updates, u)
                 /\ orders[u.id] # None /\ orders[u.id].live
                 /\ u.event # "partial_fill" => ~orders'[u.id].live
                 /\ Same(Totals(u), Executed(orders'[u.id]))
    PROVE  AlpacaInv'
<1>1. /\ orders \in TableType /\ cum \in AmountType /\ shown \in AmountType
      /\ reported \in AmountType /\ finals \in [BrokerIds -> Nat]
      /\ Consistent(updates, orders, shown) /\ \A b \in BrokerIds : SoundOrder(b)
  BY DEF AlpacaInv
<1>2. ASSUME NEW b \in BrokerIds, orders'[b] # None
      PROVE  Upto(shown[b], Executed(orders'[b]))
  <2>1. orders'[b] \in VenueOrder
    BY <1>2 DEF TableType
  <2>2. /\ Executed(orders'[b]) \in Amount /\ orders'[b].filled \in Nat
        /\ orders'[b].filled = 0 => orders'[b].cost = 0
    BY <1>2, <2>1, ExecutedType DEF SoundTable
  <2>3. CASE orders[b] = None
    <3>1. shown[b] = Nothing
      BY <1>1, <2>3 DEF SoundOrder
    <3> QED
      BY <2>2, <3>1 DEF Upto, Nothing, Executed, RatEq, Rat
  <2>4. CASE orders[b] # None
    <3>1. shown[b] \in Amount /\ Executed(orders[b]) \in Amount
      BY <1>1, <2>4, ExecutedType DEF AmountType, TableType
    <3>2. Upto(shown[b], Executed(orders[b])) /\ Upto(Executed(orders[b]), Executed(orders'[b]))
      BY <1>1, <2>4 DEF SoundOrder, Advances
    <3> QED
      BY <2>2, <3>1, <3>2, SameLaws
  <2> QED
    BY <2>3, <2>4
<1>3. Consistent(updates, orders', shown)
  BY <1>1, ConsistentAdvances
<1>4. /\ Consistent(updates', orders', shown)
      /\ \A b \in BrokerIds : \A n, a :
            Over(updates, b, n, a) /\ orders[b] # None /\ ~orders[b].live
                => Over(updates', b, n, a)
  <2>1. CASE updates' = updates
    BY <1>3, <2>1
  <2>2. ASSUME NEW u \in TradeUpdate, updates' = Append(updates, u),
               orders[u.id] # None, orders[u.id].live,
               u.event # "partial_fill" => ~orders'[u.id].live,
               Same(Totals(u), Executed(orders'[u.id]))
        PROVE  /\ Consistent(updates', orders', shown)
               /\ \A b \in BrokerIds : \A n, a :
                     Over(updates, b, n, a) /\ orders[b] # None /\ ~orders[b].live
                         => Over(updates', b, n, a)
    <3>1. u.id \in BrokerIds /\ orders'[u.id] # None
      BY <2>2, TotalsType DEF Advances
    <3>2. \A i \in 1 .. Len(updates) : updates[i].id = u.id => updates[i].event = "partial_fill"
      BY <1>1, <2>2 DEF Consistent, KnownUpdate
    <3>3. Upto(shown[u.id], Executed(orders'[u.id]))
      BY <1>2, <3>1
    <3>4. Consistent(Append(updates, u), orders', shown)
      <4>1. \A table \in TableType : table = orders' => Consistent(Append(updates, u), table, shown)
        BY <1>1, <1>3, <2>2, <3>1, <3>2, <3>3, ConsistentAppend
      <4> QED
        BY <4>1
    <3>5. ASSUME NEW b \in BrokerIds, NEW n, NEW a, Over(updates, b, n, a),
                 orders[b] # None, ~orders[b].live
          PROVE  Over(updates', b, n, a)
      <4>1. b # u.id
        BY <2>2, <3>5
      <4>2. /\ updates \in Seq(TradeUpdate) /\ Len(updates) \in Nat
            /\ Len(updates') = Len(updates) + 1
            /\ \A i \in 1 .. Len(updates) : updates'[i] = updates[i]
            /\ updates'[Len(updates) + 1] = u
        BY <1>1, <2>2, AppendProperties, LenProperties DEF Consistent
      <4>3. \A i \in 1 .. Len(updates') : i \in 1 .. Len(updates) \/ i = Len(updates) + 1
        BY <4>2
      <4> QED
        BY <3>5, <4>1, <4>2, <4>3 DEF Over
    <3> QED
      BY <2>2, <3>4, <3>5
  <2> QED
    BY <2>1, <2>2
<1>5. ASSUME NEW b \in BrokerIds
      PROVE  SoundOrder(b)'
  <2>1. SoundOrder(b) /\ cum'[b] = cum[b] /\ shown'[b] = shown[b] /\ reported'[b] = reported[b]
        /\ finals'[b] = finals[b]
    BY <1>1
  <2>2. orders'[b] = None => orders[b] = None
    BY DEF Advances
  <2>3. orders'[b] = None => shown'[b] = Nothing
    BY <2>1, <2>2 DEF SoundOrder
  <2>4. orders'[b] # None => /\ Upto(shown'[b], Executed(orders'[b]))
                             /\ orders'[b].filled = 0 => orders'[b].cost = 0
    BY <1>2, <2>1 DEF SoundTable
  <2>5. orders[b] # None /\ ~orders[b].live => orders'[b] # None /\ ~orders'[b].live
    BY DEF Advances
  <2>6. \/ finals'[b] = 0 /\ Same(cum'[b], shown'[b])
        \/ /\ orders'[b] # None /\ ~orders'[b].live
           /\ cum'[b] = Nothing
           /\ Over(updates', b, finals'[b], shown'[b])
    BY <1>4, <2>1, <2>5 DEF SoundOrder
  <2> QED
    BY <2>1, <2>3, <2>4, <2>6 DEF SoundOrder
<1>6. Placed' = FilledIds(orders')
  BY DEF Placed, FilledIds
<1> QED
  BY <1>1, <1>4, <1>5, <1>6 DEF AlpacaInv

LEMMA AlpacaInvInit == AlpacaInit => AlpacaInv
<1> SUFFICES ASSUME AlpacaInit PROVE AlpacaInv
  OBVIOUS
<1>1. /\ cum = [b \in BrokerIds |-> Nothing] /\ orders = [b \in BrokerIds |-> None]
      /\ updates = <<>> /\ reported = cum /\ shown = cum
      /\ finals = [b \in BrokerIds |-> 0]
  BY DEF AlpacaInit
<1>2. /\ Nothing \in Amount /\ Same(Nothing, Nothing) /\ Upto(Nothing, Nothing)
      /\ Same(Nothing, Times(Copies(0), Nothing))
  <2>1. Nothing \in Amount
    BY RatType DEF Nothing, Amount
  <2>2. Times(1, Nothing) \in Amount /\ Same(Times(1, Nothing), Nothing) /\ Copies(0) = 1
    BY <2>1, TimesLaws DEF Copies
  <2> QED
    BY <2>1, <2>2, SameLaws
<1>3. finals \in [BrokerIds -> Nat] /\ orders \in TableType /\ cum \in AmountType
  BY <1>1, <1>2 DEF TableType, AmountType
<1>4. Placed = 0 .. 0 - 1 /\ 0 \in 0 .. MaxOrders
  BY <1>1, OrderIdsAssumption DEF Placed
<1>5. Consistent(updates, orders, shown)
  BY <1>1, EmptySeq DEF Consistent
<1>6. \A b \in BrokerIds : SoundOrder(b)
  BY <1>1, <1>2 DEF SoundOrder
<1> QED
  BY <1>1, <1>3, <1>4, <1>5, <1>6 DEF AlpacaInv

\* The table as the invariant has it.
LEMMA AlpacaFacts ==
    ASSUME AlpacaInv
    PROVE  /\ orders \in TableType /\ cum \in AmountType /\ shown \in AmountType
           /\ reported \in AmountType /\ finals \in [BrokerIds -> Nat]
           /\ Consistent(updates, orders, shown)
           /\ SoundTable(orders) /\ Advances(orders, orders)
           /\ Placed = FilledIds(orders)
           /\ \E n \in 0 .. MaxOrders : FilledIds(orders) = 0 .. n - 1
           /\ \A b \in BrokerIds : SoundOrder(b)
<1>1. orders \in TableType /\ Placed = FilledIds(orders)
  BY DEF AlpacaInv, Placed, FilledIds
<1>2. SoundTable(orders)
  BY DEF AlpacaInv, SoundOrder, SoundTable
<1> QED
  BY <1>1, <1>2, AdvancesItself DEF AlpacaInv

LEMMA SubmitOrderStep ==
    ASSUME AlpacaInv, NEW quantity \in Quantities, submit_order(quantity)
    PROVE  AlpacaInv'
<1>1. /\ orders' = NewOrder(orders, quantity) /\ Placed # BrokerIds
      /\ UNCHANGED <<cum, reported, shown, finals>> /\ updates' = updates
  BY DEF submit_order
<1>2. quantity \in Nat
  BY SignalAssumption
<1> QED
  BY <1>1, <1>2, AlpacaFacts, NewOrderAdvances, VenueStep

\* An order that was live changes.
LEMMA OrderChanges ==
    ASSUME AlpacaInv, NEW b \in BrokerIds, orders[b] # None, orders[b].live,
           NEW order \in VenueOrder, Upto(Executed(orders[b]), Executed(order)),
           order.filled = 0 => order.cost = 0
    PROVE  LET after == [orders EXCEPT ![b] = order]
           IN  /\ after \in TableType /\ Advances(orders, after) /\ SoundTable(after)
               /\ FilledIds(after) = Placed
               /\ after[b] = order
<1> DEFINE after == [orders EXCEPT ![b] = order]
<1>1. orders \in TableType /\ SoundTable(orders) /\ Advances(orders, orders)
      /\ Placed = FilledIds(orders)
  BY AlpacaFacts
<1>2. \A c \in BrokerIds : after[c] = IF c = b THEN order ELSE orders[c]
  BY <1>1 DEF TableType
<1>3. order # None
  BY NoneIsNotAVenueOrder
<1>4. after \in TableType
  BY <1>1 DEF TableType
<1> HIDE DEF after
<1>5. Advances(orders, after)
  BY <1>1, <1>2, <1>3 DEF Advances
<1>6. SoundTable(after)
  BY <1>1, <1>2 DEF SoundTable
<1>7. FilledIds(after) = Placed
  BY <1>1, <1>2, <1>3 DEF FilledIds
<1> QED
  BY <1>2, <1>4, <1>5, <1>6, <1>7 DEF after

LEMMA ExecuteStep ==
    ASSUME AlpacaInv, NEW b \in BrokerIds, NEW quantity \in Quantities, NEW price \in Prices,
           Execute(b, quantity, price)
    PROVE  AlpacaInv'
<1> DEFINE order == orders[b]
           live == order.filled + quantity < order.quantity
           after == [order EXCEPT !.filled = @ + quantity,
                                  !.cost = @ + quantity * price,
                                  !.live = live]
           event == IF after.live THEN "partial_fill" ELSE "fill"
           u == Update(b, event, after)
<1>1. /\ order # None /\ order.live
      /\ orders' = [orders EXCEPT ![b] = after]
      /\ updates' = updates \/ updates' = Append(updates, u)
      /\ UNCHANGED <<cum, reported, shown, finals>>
  BY DEF Execute, Send
<1>2. quantity \in Nat /\ price \in Nat /\ quantity * price \in Nat
      /\ (quantity = 0 => quantity * price = 0)
  BY SignalAssumption
<1>3. order \in VenueOrder /\ order.filled \in Nat /\ order.cost \in Nat
      /\ (order.filled = 0 => order.cost = 0)
  BY <1>1, AlpacaFacts, ExecutedType DEF TableType, SoundTable
<1>4. /\ after \in VenueOrder
      /\ after.filled = order.filled + quantity
      /\ after.cost = order.cost + quantity * price
  <2> DEFINE filled == order.filled + quantity
             cost == order.cost + quantity * price
  <2>1. filled \in Nat /\ cost \in Nat /\ live \in BOOLEAN
    BY <1>2, <1>3
  <2>2. after = [order EXCEPT !.filled = filled, !.cost = cost, !.live = live]
    OBVIOUS
  <2> HIDE DEF after, filled, cost, live, order
  <2>3. /\ after \in VenueOrder
        /\ after.filled = filled /\ after.cost = cost
    BY <1>3, <2>1, <2>2 DEF VenueOrder
  <2> QED
    BY <2>3 DEF filled, cost
<1> HIDE DEF after, order
<1>5. Upto(Executed(order), Executed(after)) /\ (after.filled = 0 => after.cost = 0)
  BY <1>2, <1>3, <1>4 DEF Upto, Executed, RatEq, Rat
<1>6. event \in Events /\ (event # "partial_fill" => ~after.live)
  <2>1. CASE after.live
    BY <2>1 DEF Events
  <2>2. CASE ~after.live
    BY <2>2 DEF Events
  <2> QED
    BY <2>1, <2>2
<1>7. /\ orders' \in TableType /\ Advances(orders, orders') /\ SoundTable(orders')
      /\ FilledIds(orders') = Placed
      /\ orders'[b] = after
  BY <1>1, <1>3, <1>4, <1>5, OrderChanges DEF order
<1> HIDE DEF event
<1>8. u \in TradeUpdate /\ Same(Totals(u), Executed(after)) /\ u.id = b /\ u.event = event
  <2>1. u.id = b /\ u.event = event
    BY DEF Update
  <2> QED
    BY <1>4, <1>5, <1>6, <2>1, UpdateShows
<1> HIDE DEF u
<1>9. \/ updates' = updates
      \/ \E x \in TradeUpdate :
            /\ updates' = Append(updates, x)
            /\ orders[x.id] # None /\ orders[x.id].live
            /\ x.event # "partial_fill" => ~orders'[x.id].live
            /\ Same(Totals(x), Executed(orders'[x.id]))
  BY <1>1, <1>6, <1>7, <1>8 DEF order
<1>10. \E n \in 0 .. MaxOrders : FilledIds(orders') = 0 .. n - 1
  BY <1>7, AlpacaFacts
<1> QED
  BY <1>1, <1>7, <1>9, <1>10, VenueStep

\* An order that was live ends as it stands.
LEMMA OrderEnds ==
    ASSUME AlpacaInv, NEW b \in BrokerIds, orders[b] # None, orders[b].live, NEW event \in Events
    PROVE  LET after == [orders EXCEPT ![b].live = FALSE]
               u == Update(b, event, orders[b])
           IN  /\ after \in TableType /\ Advances(orders, after) /\ SoundTable(after)
               /\ FilledIds(after) = Placed
               /\ after[b] # None /\ ~after[b].live
               /\ u \in TradeUpdate /\ u.id = b /\ u.event = event
               /\ Same(Totals(u), Executed(after[b]))
<1> DEFINE order == orders[b]
           ended == [order EXCEPT !.live = FALSE]
           u == Update(b, event, order)
<1>1. order \in VenueOrder /\ (order.filled = 0 => order.cost = 0) /\ orders \in TableType
  BY AlpacaFacts DEF TableType, SoundTable
<1>2. /\ ended \in VenueOrder /\ ~ended.live
      /\ ended.filled = order.filled /\ ended.cost = order.cost
  <2> HIDE DEF order
  <2> QED
    BY <1>1 DEF VenueOrder
<1>3. [orders EXCEPT ![b].live = FALSE] = [orders EXCEPT ![b] = ended]
  BY <1>1 DEF TableType
<1> HIDE DEF ended
<1>4. Executed(ended) = Executed(order) /\ Executed(order) \in Amount
  BY <1>1, <1>2, ExecutedType DEF Executed
<1>5. Upto(Executed(order), Executed(ended))
  BY <1>4, SameLaws
<1>6. u \in TradeUpdate /\ Same(Totals(u), Executed(order)) /\ u.id = b /\ u.event = event
  <2>1. u.id = b /\ u.event = event
    BY DEF Update
  <2> HIDE DEF order
  <2> QED
    BY <1>1, <2>1, UpdateShows
<1>7. ended # None
  BY <1>2, NoneIsNotAVenueOrder
<1> HIDE DEF u
<1>8. /\ [orders EXCEPT ![b] = ended] \in TableType
      /\ Advances(orders, [orders EXCEPT ![b] = ended])
      /\ SoundTable([orders EXCEPT ![b] = ended])
      /\ FilledIds([orders EXCEPT ![b] = ended]) = Placed
      /\ [orders EXCEPT ![b] = ended][b] = ended
  BY <1>1, <1>2, <1>5, OrderChanges
<1> QED
  BY <1>2, <1>3, <1>4, <1>6, <1>7, <1>8 DEF u

LEMMA EndOrderStep ==
    ASSUME AlpacaInv, NEW b \in BrokerIds, NEW event \in Events, event # "partial_fill",
           EndOrder(b, event)
    PROVE  AlpacaInv'
<1> DEFINE u == Update(b, event, orders[b])
<1>1. /\ orders[b] # None /\ orders[b].live
      /\ orders' = [orders EXCEPT ![b].live = FALSE]
      /\ updates' = updates \/ updates' = Append(updates, u)
      /\ UNCHANGED <<cum, reported, shown, finals>>
  BY DEF EndOrder, Send
<1>2. /\ orders' \in TableType /\ Advances(orders, orders') /\ SoundTable(orders')
      /\ FilledIds(orders') = Placed
      /\ orders'[b] # None /\ ~orders'[b].live
      /\ u \in TradeUpdate /\ u.id = b /\ u.event = event
      /\ Same(Totals(u), Executed(orders'[b]))
  BY ZenonT(40), <1>1, OrderEnds
<1>3. \E n \in 0 .. MaxOrders : FilledIds(orders') = 0 .. n - 1
  BY <1>2, AlpacaFacts
<1> HIDE DEF u
<1> QED
  BY <1>1, <1>2, <1>3, VenueStep

LEMMA ReplaceOrderStep ==
    ASSUME AlpacaInv, NEW b \in BrokerIds, NEW quantity \in Quantities, replace_order(b, quantity)
    PROVE  AlpacaInv'
<1> DEFINE u == Update(b, "replaced", orders[b])
           ended == [orders EXCEPT ![b].live = FALSE]
<1>1. /\ Placed # BrokerIds /\ orders[b] # None /\ orders[b].live
      /\ orders' = NewOrder(ended, quantity)
      /\ updates' = updates \/ updates' = Append(updates, u)
      /\ UNCHANGED <<cum, reported, shown, finals>>
  BY DEF replace_order, Send
<1>2. /\ ended \in TableType /\ Advances(orders, ended) /\ SoundTable(ended)
      /\ FilledIds(ended) = Placed
      /\ ended[b] # None /\ ~ended[b].live
      /\ u \in TradeUpdate /\ u.id = b /\ u.event = "replaced"
      /\ Same(Totals(u), Executed(ended[b]))
  <2>1. PICK event \in Events : event = "replaced"
    BY DEF Events
  <2>2. /\ ended \in TableType /\ Advances(orders, ended) /\ SoundTable(ended)
        /\ FilledIds(ended) = Placed
        /\ ended[b] # None /\ ~ended[b].live
        /\ Update(b, event, orders[b]) \in TradeUpdate
        /\ Update(b, event, orders[b]).id = b
        /\ Update(b, event, orders[b]).event = event
        /\ Same(Totals(Update(b, event, orders[b])), Executed(ended[b]))
    BY <1>1, OrderEnds
  <2> QED
    BY <2>1, <2>2
<1> HIDE DEF ended, u
<1>3. quantity \in Nat /\ b \in Placed
  BY <1>1, SignalAssumption DEF Placed
<1>4. /\ orders' \in TableType /\ Advances(orders, orders') /\ SoundTable(orders')
      /\ \E n \in 0 .. MaxOrders : FilledIds(orders') = 0 .. n - 1
      /\ orders'[b] = ended[b]
  BY <1>1, <1>2, <1>3, NewOrderAdvances
<1> QED
  BY <1>1, <1>2, <1>4, VenueStep

LEMMA OverTail ==
    ASSUME NEW list \in Seq(TradeUpdate), list # <<>>, NEW b, NEW n, NEW a, Over(list, b, n, a)
    PROVE  /\ Over(Tail(list), b, n, a)
           /\ Head(list).id = b => /\ Head(list).event # "partial_fill"
                                   /\ Head(list).event = "fill" => n > 0 /\ Totals(Head(list)) = a
<1>1. /\ Len(list) \in Nat \ {0} /\ Len(Tail(list)) = Len(list) - 1 /\ Head(list) = list[1]
      /\ \A i \in 1 .. Len(Tail(list)) : Tail(list)[i] = list[i + 1]
  BY HeadTailProperties, EmptySeq
<1>2. 1 \in 1 .. Len(list) /\ \A i \in 1 .. Len(Tail(list)) : i + 1 \in 1 .. Len(list)
  BY <1>1
<1> QED
  BY <1>1, <1>2 DEF Over

\* A step that loses, repeats or discards updates and nothing else.
LEMMA StreamStep ==
    ASSUME AlpacaInv, UNCHANGED <<cum, orders, reported, shown, finals>>,
           Consistent(updates', orders, shown),
           \A b, n, a : Over(updates, b, n, a) => Over(updates', b, n, a)
    PROVE  AlpacaInv'
<1>1. \A b \in BrokerIds : SoundOrder(b)'
  BY AlpacaFacts DEF SoundOrder
<1>2. Placed' = Placed
  BY DEF Placed
<1> QED
  BY <1>1, <1>2 DEF AlpacaInv

LEMMA ConnectionStep ==
    ASSUME AlpacaInv, start \/ stop
    PROVE  AlpacaInv'
<1>1. Consistent(updates, orders, shown) /\ Consistent(<<>>, orders, shown)
  BY AlpacaFacts, EmptySeq DEF Consistent
<1>2. \A b, n, a : Over(<<>>, b, n, a)
  BY EmptySeq DEF Over
<1>3. UNCHANGED <<cum, orders, reported, shown, finals>> /\ (updates' = updates \/ updates' = <<>>)
  BY DEF start, stop
<1> QED
  BY <1>1, <1>2, <1>3, StreamStep

LEMMA MissStep ==
    ASSUME AlpacaInv, Miss
    PROVE  AlpacaInv'
<1>1. updates # <<>> /\ updates' = Tail(updates) /\ UNCHANGED <<cum, orders, reported, shown, finals>>
  BY DEF Miss
<1>2. Consistent(updates, orders, shown) /\ updates \in Seq(TradeUpdate)
  BY AlpacaFacts DEF Consistent
<1> QED
  BY <1>1, <1>2, ConsistentTail, OverTail, StreamStep

LEMMA RepeatStep ==
    ASSUME AlpacaInv, Repeat
    PROVE  AlpacaInv'
<1>1. /\ updates # <<>> /\ updates' = <<Head(updates)>> \o updates
      /\ UNCHANGED <<cum, orders, reported, shown, finals>>
  BY DEF Repeat
<1> QED
  BY <1>1, AlpacaFacts, ConsistentRepeat, StreamStep

\* An update that ends its order is followed by its copies only.
LEMMA NoneFollows ==
    ASSUME NEW list, NEW table, NEW last, Consistent(list, table, last), list # <<>>,
           Head(list).event # "partial_fill",
           NEW n, NEW a, Head(list).event = "fill" => n > 0 /\ Totals(Head(list)) = a
    PROVE  Over(Tail(list), Head(list).id, n, a)
BY ConsistentTail DEF InOrder, Over

\* cbs.onUpdate: the report is taken from the totals the gateway remembers, which
\* are those of the last update as long as an order may have another.
LEMMA OnUpdateStep ==
    ASSUME AlpacaInv, onUpdate
    PROVE  AlpacaInv'
<1> DEFINE u == Head(updates)
           b == u.id
           isFill == u.event \in {"fill", "partial_fill"}
           report == Increment(cum[b], Totals(u), u.filledAvgPrice)
           sum == [qty  |-> reported[b].qty + report.qty,
                   cost |-> RatAdd(reported[b].cost, RatScale(report.qty, report.price))]
<1>1. /\ orders \in TableType /\ cum \in AmountType /\ shown \in AmountType
      /\ reported \in AmountType /\ Consistent(updates, orders, shown)
      /\ \A c \in BrokerIds : SoundOrder(c)
      /\ updates \in Seq(TradeUpdate) /\ finals \in [BrokerIds -> Nat]
  BY AlpacaFacts DEF Consistent
<1>2. /\ updates # <<>> /\ updates' = Tail(updates) /\ orders' = orders
      /\ cum' = [cum EXCEPT ![b] =
                     CASE u.event = "partial_fill" -> Totals(u)
                       [] u.event = "rejected" -> @
                       [] OTHER -> Nothing]
      /\ IF isFill
         THEN /\ enqueue_report(b, report)
              /\ shown' = [shown EXCEPT ![b] = Totals(u)]
         ELSE UNCHANGED <<reported, shown>>
      /\ finals' = [finals EXCEPT ![b] = IF u.event = "fill" THEN @ + 1 ELSE @]
  BY DEF onUpdate
<1>3. /\ u \in TradeUpdate /\ KnownUpdate(u, orders) /\ Upto(shown[b], Totals(u))
      /\ Consistent(Tail(updates), orders, shown)
  BY <1>1, <1>2, ConsistentTail
<1>4. b \in BrokerIds /\ Totals(u) \in Amount /\ u.filledAvgPrice \in Rational
  <2> HIDE DEF u
  <2> QED
    BY <1>3, TotalsType
<1>5. \A c, n, a : Over(updates, c, n, a) =>
          /\ Over(Tail(updates), c, n, a)
          /\ b = c => /\ u.event # "partial_fill"
                      /\ u.event = "fill" => n > 0 /\ Totals(u) = a
  BY <1>1, <1>2, OverTail
<1>6. u.event # "partial_fill" =>
          /\ ~orders[b].live
          /\ \A n, a : (u.event = "fill" => n > 0 /\ Totals(u) = a) => Over(Tail(updates), b, n, a)
  <2>1. u.event # "partial_fill" => ~orders[b].live
    BY <1>3 DEF KnownUpdate
  <2> QED
    BY <1>1, <1>2, <2>1, NoneFollows
<1>7. orders[b] # None /\ Upto(Totals(u), Executed(orders[b]))
  BY <1>3 DEF KnownUpdate
<1>8. Nothing \in Amount
  BY RatType DEF Nothing, Amount
<1>9. /\ cum' \in AmountType
      /\ \A c \in BrokerIds : c # b => cum'[c] = cum[c]
      /\ u.event = "partial_fill" => cum'[b] = Totals(u)
      /\ u.event = "rejected" => cum'[b] = cum[b]
      /\ u.event \notin {"partial_fill", "rejected"} => cum'[b] = Nothing
  <2> HIDE DEF u
  <2> DEFINE next == CASE u.event = "partial_fill" -> Totals(u)
                       [] u.event = "rejected" -> cum[b]
                       [] OTHER -> Nothing
  <2>1. cum' = [cum EXCEPT ![b] = next]
    BY <1>1, <1>2, <1>4 DEF AmountType
  <2>2. next \in Amount
    BY <1>1, <1>4, <1>8 DEF AmountType
  <2>3. /\ u.event = "partial_fill" => next = Totals(u)
        /\ u.event = "rejected" => next = cum[b]
        /\ u.event \notin {"partial_fill", "rejected"} => next = Nothing
    OBVIOUS
  <2> HIDE DEF next, b
  <2> QED
    BY <1>1, <1>4, <2>1, <2>2, <2>3 DEF AmountType
<1>10. Placed' = Placed
  BY <1>2 DEF Placed
<1>11. /\ finals' \in [BrokerIds -> Nat]
       /\ finals[b] \in Nat
       /\ finals'[b] = IF u.event = "fill" THEN finals[b] + 1 ELSE finals[b]
       /\ \A c \in BrokerIds : c # b => finals'[c] = finals[c]
  <2> HIDE DEF u, b
  <2> DEFINE m == IF u.event = "fill" THEN finals[b] + 1 ELSE finals[b]
  <2>1. finals' = [finals EXCEPT ![b] = m] /\ finals[b] \in Nat
    BY <1>1, <1>2, <1>4 DEF b, u
  <2>2. m \in Nat
    BY <2>1
  <2> HIDE DEF m
  <2>3. finals' \in [BrokerIds -> Nat] /\ finals'[b] = m
        /\ \A c \in BrokerIds : c # b => finals'[c] = finals[c]
    BY <1>1, <1>4, <2>1, <2>2
  <2> QED
    BY <2>1, <2>3 DEF m
<1> DEFINE open == finals[b] = 0 /\ Same(cum[b], shown[b])
           over == /\ cum[b] = Nothing /\ u.event # "partial_fill"
                   /\ u.event = "fill" => finals[b] > 0 /\ Totals(u) = shown[b]
                   /\ Over(Tail(updates), b, finals[b], shown[b])
<1>12. /\ open \/ over
       /\ Upto(Nothing, shown[b]) /\ Same(reported[b], Times(Copies(finals[b]), shown[b]))
       /\ cum[b] \in Amount /\ shown[b] \in Amount /\ reported[b] \in Amount
  <2>1. SoundOrder(b) /\ b = b
    BY <1>1, <1>4
  <2>2. cum[b] \in Amount /\ shown[b] \in Amount /\ reported[b] \in Amount
    BY <1>1, <1>4 DEF AmountType
  <2> HIDE DEF u, b
  <2> QED
    BY <1>5, <2>1, <2>2 DEF SoundOrder
<1>13. Upto(Nothing, Totals(u))
  <2> HIDE DEF u, b
  <2> QED
    BY <1>3, <1>4, <1>8, <1>12, SameLaws
<1>14. /\ orders'[b] # None /\ Upto(Totals(u), Executed(orders'[b]))
       /\ orders'[b].filled = 0 => orders'[b].cost = 0
       /\ u.event # "partial_fill" => ~orders'[b].live
  BY <1>1, <1>2, <1>4, <1>6, <1>7 DEF SoundOrder
<1>15. CASE isFill
  <2>1. shown' = [shown EXCEPT ![b] = Totals(u)] /\ reported' = [reported EXCEPT ![b] = sum]
    <3>1. enqueue_report(b, report)
      BY <1>2, <1>15
    <3> HIDE DEF b, report
    <3> QED
      BY <1>1, <1>2, <1>4, <1>15, <3>1 DEF enqueue_report, AmountType, b
  <2>2. sum \in Amount /\ Same(sum, Times(Copies(finals'[b]), Totals(u)))
    <3>1. CASE open
      <4>1. /\ Times(1, shown[b]) \in Amount /\ Same(Times(1, shown[b]), shown[b])
            /\ Times(1, Totals(u)) \in Amount /\ Same(Times(1, Totals(u)), Totals(u))
        <5> HIDE DEF u, b
        <5> QED
          BY <1>4, <1>12, TimesLaws
      <4>2. Copies(finals[b]) = 1 /\ Copies(finals'[b]) = 1
        BY <1>11, <3>1 DEF Copies
      <4>3. Same(reported[b], Times(1, shown[b])) /\ Same(cum[b], shown[b])
        BY <1>12, <3>1, <4>2
      <4>4. Same(reported[b], cum[b]) /\ Upto(cum[b], Totals(u))
        <5> HIDE DEF u, b
        <5>1. Same(reported[b], shown[b])
          BY <1>12, <4>1, <4>3, SameLaws
        <5>2. Same(shown[b], cum[b]) /\ Upto(cum[b], shown[b])
          BY <1>12, <4>3, SameLaws
        <5> QED
          BY <1>3, <1>4, <1>12, <5>1, <5>2, SameLaws
      <4>5. sum \in Amount /\ Same(sum, Totals(u))
        <5> HIDE DEF b
        <5> QED
          BY <1>4, <1>12, <4>4, ReportCatchesUp
      <4>6. Same(sum, Times(1, Totals(u)))
        <5> HIDE DEF sum, u
        <5> QED
          BY <1>4, <4>1, <4>5, SameLaws
      <4> HIDE DEF sum, u, b
      <4> QED
        BY <4>2, <4>5, <4>6
    <3>2. CASE over
      <4>1. u.event = "fill"
        BY <1>15, <3>2
      <4>2. /\ finals[b] > 0 /\ Totals(u) = shown[b] /\ cum[b] = Nothing
            /\ Copies(finals[b]) = finals[b] /\ Copies(finals'[b]) = finals[b] + 1
        BY <1>11, <3>2, <4>1 DEF Copies
      <4> DEFINE gain == RatScale(report.qty, report.price)
      <4>3. report.qty = Totals(u).qty /\ gain \in Rational /\ RatEq(gain, Totals(u).cost)
        <5>1. report = Increment(Nothing, Totals(u), u.filledAvgPrice)
          BY <4>2
        <5> HIDE DEF u, report
        <5> QED
          BY <1>4, <1>13, <5>1, ReportedInFull
      <4>4. Same(reported[b], Times(finals[b], Totals(u)))
        BY <1>12, <4>2
      <4>5. sum = [qty |-> reported[b].qty + Totals(u).qty, cost |-> RatAdd(reported[b].cost, gain)]
        BY <4>3
      <4> HIDE DEF gain, sum, u, b, report
      <4> QED
        BY <1>4, <1>11, <1>12, <4>2, <4>3, <4>4, <4>5, TimesNext
    <3> QED
      BY <1>12, <3>1, <3>2
  <2> HIDE DEF sum, u, b
  <2>3. /\ shown' \in AmountType /\ reported' \in AmountType
        /\ shown'[b] = Totals(u) /\ reported'[b] = sum
        /\ \A c \in BrokerIds : c # b => shown'[c] = shown[c] /\ reported'[c] = reported[c]
    BY <1>1, <1>4, <2>1, <2>2 DEF AmountType
  <2>4. Consistent(updates', orders', shown')
    BY <1>1, <1>2, <2>1, ConsistentShown DEF u, b
  <2>5. \A c : c = b => SoundOrder(c)'
    <3>1. \/ finals'[b] = 0 /\ Same(cum'[b], shown'[b])
          \/ /\ orders'[b] # None /\ ~orders'[b].live
             /\ cum'[b] = Nothing
             /\ Over(updates', b, finals'[b], shown'[b])
      <4>1. CASE u.event = "partial_fill"
        <5>1. cum'[b] = Totals(u) /\ finals'[b] = 0
          BY <1>9, <1>11, <1>12, <4>1
        <5> QED
          BY <1>4, <2>3, <5>1, SameLaws
      <4>2. CASE u.event = "fill"
        <5>1. cum'[b] = Nothing /\ finals'[b] > 0
          BY <1>9, <1>11, <4>2
        <5> QED
          BY <1>2, <1>6, <1>14, <2>3, <4>2, <5>1
      <4> QED
        BY <1>15, <4>1, <4>2
    <3>2. Upto(shown'[b], Executed(orders'[b])) /\ Upto(Nothing, shown'[b])
      BY <1>13, <1>14, <2>3
    <3>3. Same(reported'[b], Times(Copies(finals'[b]), shown'[b]))
      BY <2>2, <2>3
    <3> QED
      BY <1>14, <3>1, <3>2, <3>3 DEF SoundOrder
  <2>6. ASSUME NEW c \in BrokerIds, c # b
        PROVE  SoundOrder(c)'
    BY <1>1, <1>2, <1>5, <1>9, <1>11, <2>3, <2>6 DEF SoundOrder
  <2>7. \A c \in BrokerIds : SoundOrder(c)'
    BY <2>5, <2>6
  <2> QED
    BY <1>1, <1>2, <1>9, <1>10, <1>11, <2>3, <2>4, <2>7 DEF AlpacaInv
<1>16. CASE ~isFill
  <2>1. UNCHANGED <<reported, shown>>
    BY <1>2, <1>16
  <2>2. u.event # "partial_fill" /\ u.event # "fill" /\ finals'[b] = finals[b]
    BY <1>11, <1>16
  <2> HIDE DEF u, b
  <2>3. \/ finals'[b] = 0 /\ Same(cum'[b], shown'[b])
        \/ cum'[b] = Nothing /\ Over(updates', b, finals'[b], shown'[b])
    <3>1. Over(updates', b, finals'[b], shown'[b])
      BY <1>2, <1>6, <2>2
    <3>2. CASE u.event = "rejected"
      BY <1>9, <1>12, <2>1, <2>2, <3>1, <3>2
    <3>3. CASE u.event # "rejected"
      BY <1>9, <2>2, <3>1, <3>3
    <3> QED
      BY <3>2, <3>3
  <2>4. ASSUME NEW c \in BrokerIds
        PROVE  SoundOrder(c)'
    <3>1. CASE c = b
      <4>1. /\ Upto(shown'[b], Executed(orders'[b])) /\ Upto(Nothing, shown'[b])
            /\ Same(reported'[b], Times(Copies(finals'[b]), shown'[b]))
        BY <1>1, <1>2, <1>4, <1>7, <1>12, <2>1, <2>2 DEF SoundOrder
      <4> QED
        BY <1>14, <2>2, <2>3, <3>1, <4>1 DEF SoundOrder
    <3>2. CASE c # b
      BY <1>1, <1>2, <1>5, <1>9, <1>11, <2>1, <3>2 DEF SoundOrder
    <3> QED
      BY <3>1, <3>2
  <2> QED
    BY <1>1, <1>2, <1>3, <1>9, <1>10, <1>11, <2>1, <2>4 DEF AlpacaInv
<1> QED
  BY <1>15, <1>16

LEMMA AlpacaInvNext == AlpacaInv /\ [AlpacaNext]_alpacaVars => AlpacaInv'
<1> SUFFICES ASSUME AlpacaInv, [AlpacaNext]_alpacaVars PROVE AlpacaInv'
  OBVIOUS
<1>1. CASE UNCHANGED alpacaVars
  <2>1. UNCHANGED <<cum, orders, reported, shown, updates, finals>>
    BY <1>1 DEF alpacaVars
  <2> QED
    BY <2>1, AlpacaFacts, StreamStep
<1>2. CASE start \/ stop
  BY <1>2, ConnectionStep
<1>3. CASE onUpdate
  BY <1>3, OnUpdateStep
<1>4. CASE Miss
  BY <1>4, MissStep
<1>5. CASE Repeat
  BY <1>5, RepeatStep
<1>6. CASE \E quantity \in Quantities : submit_order(quantity)
  BY <1>6, SubmitOrderStep
<1>7. ASSUME NEW b \in BrokerIds,
             \E quantity \in Quantities, price \in Prices : Execute(b, quantity, price)
      PROVE  AlpacaInv'
  BY <1>7, ExecuteStep
<1>8. ASSUME NEW b \in BrokerIds,
             (\E event \in {"expired", "rejected"} : EndOrder(b, event)) \/ cancel_order(b)
      PROVE  AlpacaInv'
  <2>1. PICK event \in {"expired", "rejected", "canceled"} : EndOrder(b, event)
    BY <1>8 DEF cancel_order
  <2>2. event \in Events /\ event # "partial_fill"
    BY DEF Events
  <2> QED
    BY <2>1, <2>2, EndOrderStep
<1>9. ASSUME NEW b \in BrokerIds, \E quantity \in Quantities : replace_order(b, quantity)
      PROVE  AlpacaInv'
  BY <1>9, ReplaceOrderStep
<1> QED
  BY <1>1, <1>2, <1>3, <1>4, <1>5, <1>6, <1>7, <1>8, <1>9 DEF AlpacaNext

\* Whatever the venue does and the vendor's stream loses or repeats, the updates
\* under way stay consistent with what the gateway remembers of their orders.
THEOREM AlpacaInvariance == AlpacaSpec => []AlpacaInv
BY AlpacaInvInit, AlpacaInvNext, PTL DEF AlpacaSpec

\* AlpacaGateway's reports of an order add up to the totals of the last fill it was
\* shown: an update missed is made up for by the next, a partial fill repeated
\* counts once. The fill that completes the order counts as often as it comes.
THEOREM ReportsAddUp == AlpacaSpec => []ReportsAddUpToTotals
<1>1. AlpacaInv => ReportsAddUpToTotals
  <2> SUFFICES ASSUME AlpacaInv, NEW b \in BrokerIds
               PROVE  LET copies == Max({1, finals[b]})
                      IN  /\ reported[b].qty = copies * shown[b].qty
                          /\ RatEq(reported[b].cost, RatScale(copies, shown[b].cost))
    BY DEF ReportsAddUpToTotals
  <2>1. finals[b] \in Nat /\ Same(reported[b], Times(Copies(finals[b]), shown[b]))
    BY DEF AlpacaInv, SoundOrder
  <2>2. Max({1, finals[b]}) = Copies(finals[b])
    BY <2>1, CopiesIs
  <2> QED
    BY <2>1, <2>2 DEF Same, Times
<1> QED
  BY <1>1, AlpacaInvariance, PTL

------------------------------------------------------------------------------
(***************************************************************************)
(* Positions added up over the managers.  Book is defined by recursion on  *)
(* the length of the list; an induction takes the smallest counterexample. *)
(***************************************************************************)

LEMMA SmallestNumber ==
    ASSUME NEW N \in Nat, NEW F \in SUBSET (0 .. N), F # {}
    PROVE  \E n \in F : \A m \in F : n <= m
<1> DEFINE G == {0 .. n : n \in F}
<1>1. IsFiniteSet(0 .. N)
  BY FS_Interval
<1>2. G \subseteq SUBSET (0 .. N) /\ G # {}
  <2>1. \A n \in F : 0 .. n \subseteq 0 .. N
    OBVIOUS
  <2>2. G # {}
    OBVIOUS
  <2> QED
    BY <2>1, <2>2
<1>3. PICK s \in G : \A t \in G : t \subseteq s => t = s
  <2> DEFINE S == 0 .. N
  <2>1. IsFiniteSet(S) /\ G \in SUBSET SUBSET S /\ G # {}
    BY <1>1, <1>2
  <2> HIDE DEF G, S
  <2> QED
    BY <2>1, SmallestSet
<1>4. PICK n \in F : s = 0 .. n
  OBVIOUS
<1>5. ASSUME NEW m \in F, m < n PROVE FALSE
  <2>1. 0 .. m \in G /\ 0 .. m \subseteq s /\ n \in Nat /\ m \in Nat
    BY <1>4, <1>5
  <2>2. 0 .. m = 0 .. n
    BY <1>3, <1>4, <2>1
  <2>3. n \in 0 .. n
    BY <2>1
  <2> QED
    BY <1>5, <2>1, <2>2, <2>3
<1>6. \A m \in F : n <= m
  BY <1>5
<1> QED
  BY <1>6

\* bk holds what the first k of a list come to, for every k up to n.
Books(bk, list, n) ==
    bk = [k \in 0 .. n |-> IF k = 0 THEN NoBook ELSE Booked(bk[k - 1], list[k])]

LEMMA BooksExist ==
    ASSUME NEW list, NEW N \in Nat
    PROVE  \E bk : Books(bk, list, N)
<1> DEFINE bad == {n \in 0 .. N : ~\E bk : Books(bk, list, n)}
<1> SUFFICES ASSUME bad # {} PROVE FALSE
  OBVIOUS
<1>1. PICK n \in bad : \A m \in bad : n <= m
  <2>1. bad \in SUBSET (0 .. N)
    OBVIOUS
  <2> HIDE DEF bad
  <2> QED
    BY <2>1, SmallestNumber
<1>2. n \in Nat /\ n <= N /\ ~\E bk : Books(bk, list, n)
  OBVIOUS
<1>3. CASE n = 0
  <2>1. Books([k \in 0 .. 0 |-> NoBook], list, 0)
    BY DEF Books
  <2> QED
    BY <1>2, <1>3, <2>1
<1>4. CASE n # 0
  <2>1. n - 1 \in 0 .. N /\ n - 1 \notin bad
    BY <1>1, <1>2, <1>4
  <2>2. PICK bk : Books(bk, list, n - 1)
    BY <2>1
  <2> DEFINE ck == [k \in 0 .. n |-> IF k = n THEN Booked(bk[n - 1], list[n]) ELSE bk[k]]
  <2>3. ASSUME NEW k \in 0 .. n
        PROVE  ck[k] = IF k = 0 THEN NoBook ELSE Booked(ck[k - 1], list[k])
    <3>1. CASE k = 0
      BY <1>2, <1>4, <2>2, <3>1 DEF Books
    <3>2. CASE k # 0 /\ k # n
      <4>1. k \in 0 .. n - 1 /\ k - 1 \in 0 .. n /\ k - 1 # n
        BY <1>2, <3>2
      <4>2. bk[k] = Booked(bk[k - 1], list[k])
        BY <2>2, <3>2, <4>1 DEF Books
      <4> QED
        BY <3>2, <4>1, <4>2
    <3>3. CASE k # 0 /\ k = n
      BY <1>2, <3>3
    <3> QED
      BY <3>1, <3>2, <3>3
  <2>4. ck = [k \in 0 .. n |-> ck[k]]
    OBVIOUS
  <2> HIDE DEF ck
  <2>5. Books(ck, list, n)
    BY <2>3, <2>4 DEF Books
  <2> QED
    BY <1>2, <2>5
<1> QED
  BY <1>3, <1>4

\* Lists that begin in the same way come to the same.
LEMMA BooksAgree ==
    ASSUME NEW a, NEW s, NEW n \in Nat, Books(a, s, n),
           NEW b, NEW t, NEW m \in Nat, n <= m, Books(b, t, m),
           \A k \in 1 .. n : s[k] = t[k]
    PROVE  \A k \in 0 .. n : a[k] = b[k]
<1> DEFINE bad == {k \in 0 .. n : a[k] # b[k]}
<1> SUFFICES ASSUME bad # {} PROVE FALSE
  OBVIOUS
<1>1. PICK k \in bad : \A l \in bad : k <= l
  <2>1. bad \in SUBSET (0 .. n)
    OBVIOUS
  <2> HIDE DEF bad
  <2> QED
    BY <2>1, SmallestNumber
<1>2. k \in 0 .. n /\ k \in 0 .. m /\ a[k] # b[k]
  OBVIOUS
<1>3. k # 0
  BY <1>2 DEF Books
<1>4. k - 1 \in 0 .. n /\ k - 1 \notin bad /\ k \in 1 .. n
  BY <1>1, <1>2, <1>3
<1>5. a[k - 1] = b[k - 1] /\ s[k] = t[k]
  BY <1>4
<1>6. a[k] = Booked(a[k - 1], s[k]) /\ b[k] = Booked(b[k - 1], t[k])
  BY <1>2, <1>3 DEF Books
<1> QED
  BY <1>2, <1>5, <1>6

LEMMA BookIs ==
    ASSUME NEW list, Len(list) \in Nat
    PROVE  \E bk : Books(bk, list, Len(list)) /\ Book(list) = bk[Len(list)]
<1> DEFINE bk == CHOOSE bk : Books(bk, list, Len(list))
<1>1. Books(bk, list, Len(list))
  BY BooksExist
<1>2. Book(list) = bk[Len(list)]
  BY DEF Book, Books
<1> HIDE DEF bk
<1> QED
  BY <1>1, <1>2

LEMMA BookEmpty == Book(<<>>) = NoBook
<1>1. Len(<<>>) = 0
  OBVIOUS
<1>2. PICK bk : Books(bk, <<>>, 0) /\ Book(<<>>) = bk[0]
  BY <1>1, BookIs
<1> QED
  BY <1>2 DEF Books

LEMMA BookAppend ==
    ASSUME NEW S, NEW list \in Seq(S), NEW x \in S
    PROVE  Book(Append(list, x)) = Booked(Book(list), x)
<1> DEFINE n == Len(list)
           longer == Append(list, x)
<1>1. /\ n \in Nat /\ Len(longer) = n + 1
      /\ longer[n + 1] = x
      /\ \A k \in 1 .. n : list[k] = longer[k]
  OBVIOUS
<1> HIDE DEF n, longer
<1>2. PICK a : Books(a, list, n) /\ Book(list) = a[n]
  BY <1>1, BookIs DEF n
<1>3. PICK b : Books(b, longer, n + 1) /\ Book(longer) = b[n + 1]
  BY <1>1, BookIs
<1>4. a[n] = b[n]
  BY <1>1, <1>2, <1>3, BooksAgree
<1>5. b[n + 1] = Booked(b[n + 1 - 1], longer[n + 1])
  BY <1>1, <1>3 DEF Books
<1>6. n + 1 - 1 = n
  BY <1>1
<1> QED
  BY <1>1, <1>2, <1>3, <1>4, <1>5, <1>6 DEF longer

------------------------------------------------------------------------------
(***************************************************************************)
(* Prices of positions that are combined.                                   *)
(***************************************************************************)

\* Weighted, of k units at x and l units at y.
WeightedPrice(k, x, l, y) == RatDiv(RatAdd(RatScale(k, x), RatScale(l, y)), k + l)

LEMMA WeightedPriceRepresents ==
    ASSUME NEW x \in Rational, NEW n \in Int, NEW d \in Int, d # 0, Represents(x, n, d),
           NEW y \in Rational, NEW m \in Int, NEW e \in Int, e # 0, Represents(y, m, e),
           NEW k \in Int, NEW l \in Int, k + l # 0
    PROVE  /\ WeightedPrice(k, x, l, y) \in Rational
           /\ Represents(WeightedPrice(k, x, l, y), (k * n) * e + (l * m) * d, (d * e) * (k + l))
<1>1. RatScale(k, x) \in Rational /\ Represents(RatScale(k, x), k * n, d)
  BY ScaleRepresents
<1>2. RatScale(l, y) \in Rational /\ Represents(RatScale(l, y), l * m, e)
  BY ScaleRepresents
<1> DEFINE t == RatAdd(RatScale(k, x), RatScale(l, y))
           a == k * n
           b == l * m
           g == (k * n) * e + (l * m) * d
           h == d * e
           c == k + l
<1>3. a \in Int /\ b \in Int /\ g \in Int /\ h \in Int /\ h # 0 /\ c \in Int /\ c # 0
  BY NonZeroProduct
<1>4. t \in Rational /\ Represents(t, a * e + b * d, d * e)
  BY <1>1, <1>2, <1>3, AddRepresents
<1>5. Represents(t, g, h)
  BY <1>4
<1>6. WeightedPrice(k, x, l, y) = RatDiv(t, c)
  BY DEF WeightedPrice
<1> HIDE DEF t, g, h, c
<1>7. RatDiv(t, c) \in Rational /\ Represents(RatDiv(t, c), g, h * c)
  BY <1>3, <1>4, <1>5, DivRepresents
<1> QED
  BY <1>6, <1>7 DEF g, h, c

\* Equal prices stay equal when the same position is added to both.
LEMMA WeightedPricesAgree ==
    ASSUME NEW x \in Rational, NEW z \in Rational, RatEq(x, z), NEW y \in Rational,
           NEW k \in Int, NEW l \in Int, k + l # 0
    PROVE  RatEq(WeightedPrice(k, x, l, y), WeightedPrice(k, z, l, y))
<1> DEFINE n == x.num
           d == x.den
           m == y.num
           e == y.den
           g == (k * n) * e + (l * m) * d
           h == (d * e) * (k + l)
           v == WeightedPrice(k, x, l, y)
           w == WeightedPrice(k, z, l, y)
<1>1. n \in Int /\ d \in Int /\ d # 0 /\ m \in Int /\ e \in Int /\ e # 0
  BY DEF Rational
<1>2. Represents(x, n, d) /\ Represents(y, m, e)
  BY RepresentsSelf
<1>3. Represents(z, n, d)
  BY <1>1, <1>2, RepresentsEq
<1> HIDE DEF n, d, m, e
<1>4. v \in Rational /\ Represents(v, g, h)
  BY <1>1, <1>2, WeightedPriceRepresents
<1>5. w \in Rational /\ Represents(w, g, h)
  BY <1>1, <1>2, <1>3, WeightedPriceRepresents
<1>6. g \in Int /\ h \in Int /\ h # 0
  <2>1. d * e \in Int /\ d * e # 0 /\ k + l \in Int
    BY <1>1, NonZeroProduct
  <2>2. h \in Int /\ h # 0
    <3> DEFINE c == d * e
               j == k + l
    <3>1. c \in Int /\ c # 0 /\ j \in Int /\ j # 0
      BY <2>1
    <3> HIDE DEF c, j
    <3>2. c * j \in Int /\ c * j # 0
      BY <3>1, NonZeroProduct
    <3> QED
      BY <3>2 DEF c, j
  <2> QED
    BY <1>1, <2>2
<1> HIDE DEF g, h, v, w
<1>7. RatEq(v, w)
  BY <1>4, <1>5, <1>6, RepresentsEq
<1> QED
  BY <1>7 DEF v, w

\* Added to nothing, a position keeps its price.
LEMMA WeightedFromNothing ==
    ASSUME NEW x \in Rational, NEW y \in Rational, NEW l \in Int, l # 0
    PROVE  RatEq(WeightedPrice(0, x, l, y), y)
<1> DEFINE n == x.num
           d == x.den
           m == y.num
           e == y.den
           v == WeightedPrice(0, x, l, y)
<1>1. n \in Int /\ d \in Int /\ d # 0 /\ m \in Int /\ e \in Int /\ e # 0
  BY DEF Rational
<1>2. Represents(x, n, d) /\ Represents(y, m, e)
  BY RepresentsSelf
<1> HIDE DEF n, d, m, e
<1>3. v \in Rational /\ Represents(v, (0 * n) * e + (l * m) * d, (d * e) * (0 + l))
  <2>1. 0 + l # 0 /\ 0 \in Int
    OBVIOUS
  <2> QED
    BY <1>1, <1>2, <2>1, WeightedPriceRepresents
<1> DEFINE k == d * l
<1>4. k \in Int /\ k # 0
  BY <1>1, NonZeroProduct
<1>5. (0 * n) * e + (l * m) * d = m * k /\ (d * e) * (0 + l) = e * k
  BY <1>1
<1> HIDE DEF k, v
<1>6. Represents(v, m * k, e * k)
  BY <1>3, <1>5
<1>7. Represents(v, m, e)
  BY <1>1, <1>3, <1>4, <1>6, RepresentsReduced
<1>8. RatEq(v, y)
  BY <1>1, <1>2, <1>3, <1>7, RepresentsEq
<1> QED
  BY <1>8 DEF v

\* Weighting over all the units gives the value of the first k and the added l.
LEMMA WeightedPriceTotal ==
    ASSUME NEW x \in Rational, NEW v \in Rational, NEW y \in Rational,
           NEW k \in Int, NEW l \in Int, k + l # 0, RatEq(RatScale(k, x), v)
    PROVE  RatEq(RatScale(k + l, WeightedPrice(k, x, l, y)), RatAdd(v, RatScale(l, y)))
<1> DEFINE n == x.num
           d == x.den
           m == y.num
           e == y.den
           w == WeightedPrice(k, x, l, y)
           kn == k * n
           lm == l * m
           g == kn * e + lm * d
           h == d * e
           c == k + l
           left == RatScale(c, w)
           right == RatAdd(v, RatScale(l, y))
<1>1. n \in Int /\ d \in Int /\ d # 0 /\ m \in Int /\ e \in Int /\ e # 0
  BY DEF Rational
<1>2. Represents(x, n, d) /\ Represents(y, m, e)
  BY RepresentsSelf
<1> HIDE DEF n, d, m, e
<1>3. kn \in Int /\ lm \in Int /\ g \in Int /\ h \in Int /\ h # 0 /\ c \in Int /\ c # 0
  BY <1>1, NonZeroProduct
<1>4. w \in Rational /\ Represents(w, g, h * c)
  BY <1>1, <1>2, WeightedPriceRepresents
<1>5. RatScale(k, x) \in Rational /\ Represents(RatScale(k, x), kn, d)
  BY <1>1, <1>2, ScaleRepresents
<1>6. RatScale(l, y) \in Rational /\ Represents(RatScale(l, y), lm, e)
  BY <1>1, <1>2, ScaleRepresents
<1> HIDE DEF kn, lm
<1>7. Represents(v, kn, d)
  BY <1>1, <1>3, <1>5, RepresentsEq
<1>8. right \in Rational /\ Represents(right, g, h)
  BY <1>1, <1>3, <1>6, <1>7, AddRepresents
<1> HIDE DEF g, h, c, w, right
<1>9. h * c \in Int /\ h * c # 0
  BY <1>3, NonZeroProduct
<1>10. left \in Rational /\ Represents(left, c * g, h * c)
  BY <1>3, <1>4, <1>9, ScaleRepresents
<1>11. c * g = g * c
  BY <1>3
<1> HIDE DEF left
<1>12. Represents(left, g, h)
  <2>1. Represents(left, g * c, h * c)
    BY <1>10, <1>11
  <2> QED
    BY <1>3, <1>10, <2>1, RepresentsReduced
<1>13. RatEq(left, right)
  BY <1>3, <1>8, <1>10, <1>12, RepresentsEq
<1> QED
  BY <1>13 DEF left, right, c, w

\* Where there is no unit yet, the value is that of the position met.
LEMMA ValueFromNothing ==
    ASSUME NEW v \in Rational, v.num = 0, NEW y \in Rational, NEW l \in Int
    PROVE  RatEq(RatScale(l, y), RatAdd(v, RatScale(l, y)))
<1> DEFINE r == RatScale(l, y)
           a == r.num
           b == r.den
           d == v.den
           s == RatAdd(v, r)
<1>1. r \in Rational
  BY RatArithmeticType
<1>2. a \in Int /\ b \in Int /\ b # 0 /\ d \in Int /\ d # 0
  BY <1>1 DEF Rational
<1>3. Represents(r, a, b) /\ Represents(v, 0, d)
  BY <1>1, RepresentsSelf
<1> HIDE DEF a, b, d, r
<1>4. s \in Rational /\ Represents(s, 0 * b + a * d, d * b)
  BY <1>1, <1>2, <1>3, AddRepresents
<1>5. 0 * b + a * d = a * d /\ d * b = b * d
  BY <1>2
<1> HIDE DEF s
<1>6. Represents(s, a, b)
  <2>1. Represents(s, a * d, b * d)
    BY <1>4, <1>5
  <2> QED
    BY <1>2, <1>4, <2>1, RepresentsReduced
<1>7. RatEq(r, s)
  BY <1>1, <1>2, <1>3, <1>4, <1>6, RepresentsEq
<1> QED
  BY <1>7 DEF r, s

\* No unit is worth nothing, at any price.
LEMMA NothingIsWorthNothing ==
    ASSUME NEW v \in Rational, v.num = 0, NEW y \in Rational
    PROVE  /\ RatScale(0, y).num = 0
           /\ RatAdd(v, RatScale(0, y)).num = 0
<1> DEFINE r == RatScale(0, y)
           s == RatAdd(v, r)
           b == r.den
           d == v.den
<1>1. /\ y.num \in Int /\ y.den \in Int /\ y.den # 0
      /\ d \in Int /\ d # 0 /\ Represents(v, 0, d)
  BY RepresentsSelf DEF Rational
<1>2. r \in Rational /\ Represents(r, 0 * y.num, y.den)
  BY SMTT(30), <1>1, RepresentsSelf, ScaleRepresents
<1>3. r.num = 0
  <2>1. r.num \in Int /\ r.num * y.den = 0
    BY <1>1, <1>2 DEF Represents, Rational
  <2> HIDE DEF r
  <2> QED
    BY <1>1, <2>1, NonZeroProduct
<1>4. b \in Int /\ b # 0 /\ Represents(r, 0, b)
  BY <1>2, <1>3, RepresentsSelf DEF Rational
<1> HIDE DEF r, b, d
<1>5. s \in Rational /\ Represents(s, 0 * b + 0 * d, d * b)
  BY <1>1, <1>2, <1>4, AddRepresents
<1>6. d * b \in Int /\ d * b # 0 /\ 0 * b + 0 * d = 0
  BY <1>1, <1>4, NonZeroProduct
<1>7. s.num = 0
  <2> HIDE DEF s
  <2>1. s.num \in Int /\ s.den \in Int
    BY <1>5 DEF Rational
  <2>2. s.num * (d * b) = 0 * s.den
    BY <1>5, <1>6 DEF Represents
  <2> DEFINE j == d * b
             a == s.num
  <2>3. j \in Int /\ j # 0 /\ a \in Int /\ a * j = 0
    BY <1>6, <2>1, <2>2
  <2> HIDE DEF j, a
  <2>4. a = 0
    BY <2>3, NonZeroProduct
  <2> QED
    BY <2>4 DEF a
<1> QED
  BY <1>3, <1>7 DEF r, s

------------------------------------------------------------------------------
(***************************************************************************)
(* A query of the positions.                                                *)
(***************************************************************************)

Flat(list) == \A i \in 1 .. Len(list) : list[i].quantity = 0

\* The value of the units met is that of GetPosition's price.
Priced(list, price) == Total(list) # 0 /\ RatEq(RatScale(Total(list), price), Value(list))

QueryInv ==
    /\ met \in Seq(Holding) /\ one \in Holding
    /\ Total(met) \in Int /\ Value(met) \in Rational
    /\ one.quantity = Total(met)
    /\ IF met = <<>>
       THEN existing = None
       ELSE existing \in Holding /\ existing.quantity = Total(met)
    /\ Total(met) # 0 => RatEq(one.avgPrice, existing.avgPrice)
    /\ Flat(met) => Total(met) = 0 /\ Value(met).num = 0
    /\ CancelsOut(met) \/ Flat(met) \/ Priced(met, one.avgPrice)

LEMMA QueryInvInit == QueryInit => QueryInv
<1> SUFFICES ASSUME QueryInit PROVE QueryInv
  OBVIOUS
<1>1. Total(<<>>) = 0 /\ Value(<<>>) = Rat(0)
  BY BookEmpty DEF NoBook, Total, Value
<1>2. Rat(0) \in Rational /\ Rat(0).num = 0
  BY RatType DEF Rat
<1>3. Flat(<<>>)
  BY DEF Flat
<1> QED
  BY <1>1, <1>2, <1>3 DEF QueryInit, QueryInv, Holding

LEMMA HoldingsType == Holdings \subseteq Holding
<1> SUFFICES ASSUME NEW h \in Holdings PROVE h \in Holding
  OBVIOUS
<1>1. FlatPosition \in Position
  BY RatType DEF FlatPosition, Position
<1>2. PICK pos \in Position : h = [quantity |-> pos.quantity, avgPrice |-> pos.avgPrice]
  <2>1. ASSUME NEW q \in Quantities, NEW p \in Prices, NEW side \in Sides
        PROVE  FilledPosition(FlatPosition, q, p, side) \in Position
    <3>1. q \in Nat /\ p \in Nat
      BY SignalAssumption
    <3> QED
      BY <1>1, <3>1, FilledPositionType
  <2> QED
    BY <1>1, <2>1 DEF Holdings
<1> QED
  BY <1>2, PartsOf DEF PositionParts, Holding

LEMMA ListAppend ==
    ASSUME NEW list \in Seq(Holding), NEW x \in Holding
    PROVE  LET longer == Append(list, x)
           IN  /\ Flat(longer) <=> Flat(list) /\ x.quantity = 0
               /\ CancelsOut(list) => CancelsOut(longer)
               /\ Total(longer) = 0 => CancelsOut(longer) \/ Flat(longer)
<1> DEFINE longer == Append(list, x)
           n == Len(list)
<1>1. /\ n \in Nat /\ Len(longer) = n + 1
      /\ longer[n + 1] = x
      /\ \A k \in 1 .. n : list[k] = longer[k]
      /\ longer \in Seq(Holding)
  OBVIOUS
<1>2. ASSUME NEW k \in 1 .. n
      PROVE  SubSeq(longer, 1, k) = SubSeq(list, 1, k)
  <2>1. /\ SubSeq(longer, 1, k) = [i \in 1 .. k |-> longer[i]]
        /\ SubSeq(list, 1, k) = [i \in 1 .. k |-> list[i]]
    BY <1>1
  <2>2. \A i \in 1 .. k : list[i] = longer[i]
    BY <1>1
  <2> HIDE DEF longer
  <2> QED
    BY <2>1, <2>2
<1>3. SubSeq(longer, 1, n + 1) = longer
  <2>1. SubSeq(longer, 1, n + 1) = [i \in 1 .. n + 1 |-> longer[i]]
    BY <1>1
  <2>2. Len(longer) = n + 1 /\ longer \in Seq(Holding)
    BY <1>1
  <2> HIDE DEF longer
  <2>3. longer = [i \in 1 .. n + 1 |-> longer[i]]
    BY <2>2
  <2> QED
    BY <2>1, <2>3
<1> HIDE DEF longer, n
<1>4. Flat(longer) <=> Flat(list) /\ x.quantity = 0
  <2>1. Flat(longer) <=> \A i \in 1 .. n + 1 : longer[i].quantity = 0
    BY <1>1 DEF Flat
  <2>2. Flat(list) <=> \A i \in 1 .. n : list[i].quantity = 0
    BY DEF Flat, n
  <2>3. \A i \in 1 .. n + 1 : i \in 1 .. n \/ i = n + 1
    BY <1>1
  <2>4. n + 1 \in 1 .. n + 1 /\ \A i \in 1 .. n : i \in 1 .. n + 1
    BY <1>1
  <2> QED
    BY <1>1, <2>1, <2>2, <2>3, <2>4
<1>5. ASSUME CancelsOut(list)
      PROVE  CancelsOut(longer)
  <2>1. PICK k \in 1 .. n : Total(SubSeq(list, 1, k)) = 0 /\ \E i \in 1 .. k : list[i].quantity # 0
    BY <1>5 DEF CancelsOut, n
  <2>2. k \in 1 .. Len(longer) /\ \A i \in 1 .. k : i \in 1 .. n
    BY <1>1
  <2>3. Total(SubSeq(longer, 1, k)) = 0
    BY <1>2, <2>1
  <2>4. \E i \in 1 .. k : longer[i].quantity # 0
    BY <1>1, <2>1, <2>2
  <2> QED
    BY <2>2, <2>3, <2>4 DEF CancelsOut
<1>6. ASSUME Total(longer) = 0, ~Flat(longer)
      PROVE  CancelsOut(longer)
  <2>1. n + 1 \in 1 .. Len(longer) /\ Len(longer) = n + 1
    BY <1>1
  <2>2. \E i \in 1 .. n + 1 : longer[i].quantity # 0
    BY <1>6, <2>1 DEF Flat
  <2> QED
    BY <1>3, <1>6, <2>1, <2>2 DEF CancelsOut
<1> QED
  BY <1>4, <1>5, <1>6 DEF longer

\* What one more position does to the total and to the value.
LEMMA TotalAppend ==
    ASSUME NEW list \in Seq(Holding), NEW x \in Holding
    PROVE  /\ Total(Append(list, x)) = Total(list) + x.quantity
           /\ Value(Append(list, x)) = RatAdd(Value(list), RatScale(x.quantity, x.avgPrice))
BY BookAppend DEF Total, Value, Booked

LEMMA MeetStep ==
    ASSUME QueryInv, NEW pos \in Holdings, Meet(pos)
    PROVE  QueryInv'
<1> DEFINE T == Total(met)
           V == Value(met)
           q == pos.quantity
           p == pos.avgPrice
           a == one.avgPrice
           b == existing.avgPrice
           longer == Append(met, pos)
<1>1. /\ met \in Seq(Holding) /\ one \in Holding
      /\ T \in Int /\ V \in Rational
      /\ one.quantity = T /\ a \in Rational
      /\ IF met = <<>>
         THEN existing = None
         ELSE existing \in Holding /\ existing.quantity = T /\ b \in Rational
      /\ T # 0 => RatEq(a, b)
      /\ Flat(met) => T = 0 /\ V.num = 0
      /\ CancelsOut(met) \/ Flat(met) \/ Priced(met, a)
  BY DEF QueryInv, Holding
<1>2. pos \in Holding /\ q \in Int /\ p \in Rational
  BY HoldingsType DEF Holding
<1>3. met' = longer /\ one' = GetPosition(one, pos) /\ existing' = GetAllPositions(existing, pos)
  BY DEF Meet
<1>4. longer \in Seq(Holding) /\ longer # <<>>
  <2>1. longer \in Seq(Holding) /\ Len(longer) = Len(met) + 1 /\ Len(met) \in Nat
    BY <1>1, <1>2
  <2>2. Len(longer) # 0
    BY <2>1
  <2> HIDE DEF longer
  <2> QED
    BY <2>1, <2>2
<1>5. Total(longer) = T + q /\ Value(longer) = RatAdd(V, RatScale(q, p))
  BY <1>1, <1>2, TotalAppend
<1>6. /\ Flat(longer) <=> Flat(met) /\ q = 0
      /\ CancelsOut(met) => CancelsOut(longer)
      /\ Total(longer) = 0 => CancelsOut(longer) \/ Flat(longer)
  BY <1>1, <1>2, ListAppend
<1>7. T = 0 => met = <<>> \/ (met # <<>> /\ existing.quantity = 0)
  BY <1>1
<1> DEFINE a2 == IF T + q # 0 /\ T # 0
                 THEN WeightedPrice(T, a, q, p)
                 ELSE IF q # 0 THEN p ELSE a
           b2 == IF met = <<>>
                 THEN p
                 ELSE IF T + q # 0 THEN WeightedPrice(T, b, q, p) ELSE b
<1>8. one' = [quantity |-> T + q, avgPrice |-> a2]
  BY <1>1, <1>3 DEF GetPosition, Weighted, WeightedPrice
<1>9. existing' = [quantity |-> T + q, avgPrice |-> b2]
  <2>1. CASE met = <<>>
    <3>1. T = 0
      BY <2>1, BookEmpty DEF NoBook, Total
    <3>2. existing' = pos
      BY <1>1, <1>3, <2>1 DEF GetAllPositions
    <3>3. pos = [quantity |-> q, avgPrice |-> p] /\ T + q = q
      BY <1>2, <3>1 DEF Holding
    <3> QED
      BY <2>1, <3>2, <3>3
  <2>2. CASE met # <<>>
    <3>1. existing # None /\ existing.quantity = T
      BY <1>1, <2>2, NoneIsNotAHolding
    <3> QED
      BY <1>3, <2>2, <3>1 DEF GetAllPositions, Weighted, WeightedPrice
  <2> QED
    BY <2>1, <2>2
<1>10. met = <<>> => T = 0 /\ Flat(met)
  BY BookEmpty DEF NoBook, Total, Flat
<1> HIDE DEF T, V, q, p, a, b, longer
<1>11. \A x \in Rational : T + q # 0 => WeightedPrice(T, x, q, p) \in Rational
  <2> SUFFICES ASSUME NEW x \in Rational, T + q # 0
               PROVE  WeightedPrice(T, x, q, p) \in Rational
    OBVIOUS
  <2>1. RatScale(T, x) \in Rational /\ RatScale(q, p) \in Rational
    BY <1>1, <1>2, RatArithmeticType
  <2>2. RatAdd(RatScale(T, x), RatScale(q, p)) \in Rational /\ T + q \in Int
    BY <1>1, <1>2, <2>1, RatArithmeticType
  <2> QED
    BY <2>2, RatArithmeticType DEF WeightedPrice
<1>12. a2 \in Rational /\ b2 \in Rational
  BY <1>1, <1>2, <1>11
<1>13. ASSUME T + q # 0
       PROVE  RatEq(a2, b2)
  <2>1. CASE T # 0
    <3>1. a2 = WeightedPrice(T, a, q, p) /\ b2 = WeightedPrice(T, b, q, p)
      BY <1>10, <1>13, <2>1
    <3>2. b \in Rational /\ RatEq(a, b)
      BY <1>1, <1>10, <2>1
    <3> QED
      BY <1>1, <1>2, <1>13, <3>1, <3>2, WeightedPricesAgree
  <2>2. CASE T = 0
    <3>1. q # 0
      BY <1>2, <1>13, <2>2
    <3>2. a2 = p
      BY <2>2, <3>1
    <3>3. CASE met = <<>>
      BY <1>2, <3>2, <3>3, RatEqLaws
    <3>4. CASE met # <<>>
      <4>1. b2 = WeightedPrice(0, b, q, p) /\ b \in Rational
        BY <1>1, <1>13, <2>2, <3>4
      <4>2. RatEq(b2, p)
        BY <1>2, <3>1, <4>1, WeightedFromNothing
      <4> QED
        BY <1>2, <1>12, <3>2, <4>2, RatEqLaws
    <3> QED
      BY <3>3, <3>4
  <2> QED
    BY <2>1, <2>2
<1>14. Total(longer) \in Int /\ Value(longer) \in Rational
  <2>1. RatScale(q, p) \in Rational
    BY <1>1, <1>2, RatArithmeticType
  <2> QED
    BY <1>1, <1>2, <1>5, <2>1, RatArithmeticType
<1>15. ASSUME Flat(longer)
       PROVE  Total(longer) = 0 /\ Value(longer).num = 0
  <2>1. T = 0 /\ q = 0 /\ V.num = 0
    BY <1>1, <1>6, <1>15
  <2>2. RatAdd(V, RatScale(0, p)).num = 0
    BY <1>1, <1>2, <2>1, NothingIsWorthNothing
  <2> QED
    BY <1>5, <2>1, <2>2
<1>16. CancelsOut(longer) \/ Flat(longer) \/ Priced(longer, a2)
  <2> SUFFICES ASSUME ~CancelsOut(longer), ~Flat(longer)
               PROVE  Priced(longer, a2)
    OBVIOUS
  <2>1. T + q # 0
    BY <1>5, <1>6
  <2>2. SUFFICES RatEq(RatScale(T + q, a2), RatAdd(V, RatScale(q, p)))
    BY <1>5, <2>1 DEF Priced
  <2>3. CASE Flat(met)
    <3>1. T = 0 /\ V.num = 0 /\ q # 0 /\ T + q = q
      BY <1>1, <1>2, <1>6, <2>3
    <3>2. a2 = p
      BY <3>1
    <3> HIDE DEF a2
    <3> QED
      BY <1>1, <1>2, <3>1, <3>2, ValueFromNothing
  <2>4. CASE ~Flat(met)
    <3>1. Priced(met, a)
      BY <1>1, <1>6, <2>4
    <3>2. T # 0 /\ RatEq(RatScale(T, a), V)
      BY <3>1 DEF Priced, T, V
    <3>3. a2 = WeightedPrice(T, a, q, p)
      BY <2>1, <3>2
    <3> HIDE DEF a2
    <3> QED
      BY <1>1, <1>2, <2>1, <3>2, <3>3, WeightedPriceTotal
  <2> QED
    BY <2>3, <2>4
<1> HIDE DEF a2, b2
<1>17. one' \in Holding /\ existing' \in Holding
  <2>1. T + q \in Int
    BY <1>1, <1>2
  <2> QED
    BY <1>8, <1>9, <1>12, <2>1 DEF Holding
<1>18. one'.quantity = Total(longer) /\ existing'.quantity = Total(longer)
       /\ one'.avgPrice = a2 /\ existing'.avgPrice = b2
  BY <1>5, <1>8, <1>9
<1> QED
  BY <1>3, <1>4, <1>5, <1>13, <1>14, <1>15, <1>16, <1>17, <1>18 DEF QueryInv

LEMMA QueryInvNext == QueryInv /\ [QueryNext]_queryVars => QueryInv'
<1> SUFFICES ASSUME QueryInv, [QueryNext]_queryVars PROVE QueryInv'
  OBVIOUS
<1>1. CASE UNCHANGED queryVars
  BY <1>1 DEF queryVars, QueryInv
<1> QED
  BY <1>1, MeetStep DEF QueryNext

\* GetPosition and GetAllPositions of TradingEngine agree on a symbol's quantity and
\* price, in whatever order managers_ is traversed and however many managers hold
\* it, and the price is the weighted one unless positions met first cancel out.
THEOREM QueriesAlwaysAgree == QuerySpec => []QueriesAgree
<1>1. ASSUME QueryInv, met # <<>>
      PROVE  QueriesAgree
  <2>1. /\ Value(met) \in Rational /\ one.avgPrice \in Rational
        /\ one.quantity = Total(met) /\ existing.quantity = Total(met)
        /\ Total(met) # 0 => RatEq(one.avgPrice, existing.avgPrice)
    BY <1>1 DEF QueryInv, Holding
  <2>2. ASSUME Flat(met)
        PROVE  RatEq(RatScale(Total(met), one.avgPrice), Value(met))
    <3>1. Total(met) = 0 /\ Value(met).num = 0
      BY <1>1, <2>2 DEF QueryInv
    <3>2. RatScale(0, one.avgPrice).num = 0
      BY <2>1, <3>1, NothingIsWorthNothing
    <3>3. RatScale(0, one.avgPrice) \in Rational
      <4>1. 0 \in Int /\ one.avgPrice \in Rational
        BY <2>1
      <4> QED
        BY <4>1, RatArithmeticType
    <3> QED
      BY <2>1, <3>1, <3>2, <3>3 DEF RatEq, Rational
  <2>3. ~CancelsOut(met) => RatEq(RatScale(Total(met), one.avgPrice), Value(met))
    BY <1>1, <2>2 DEF QueryInv, Priced
  <2> QED
    BY <2>1, <2>3 DEF QueriesAgree
<1>2. QueryInv => QueriesAgree
  BY <1>1 DEF QueriesAgree
<1> QED
  BY <1>2, QueryInvInit, QueryInvNext, PTL DEF QuerySpec
==============================================================================
