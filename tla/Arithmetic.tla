----------------------------- MODULE Arithmetic ------------------------------
(***************************************************************************)
(* Lemmas about numbers that the proofs share: fractions, the arithmetic   *)
(* of a position, and finite sums.                                         *)
(*                                                                         *)
(* MapThenSumSet is defined by recursion over subsets, removing an         *)
(* arbitrary element each time; the lemmas show that for a finite set this *)
(* defines a sum, which no order of removal changes.  Inductions take a    *)
(* smallest counterexample: a finite set none of whose strict subsets is   *)
(* one (WFMin).  Weights are a function w, so that the lemmas can be       *)
(* instantiated.                                                           *)
(***************************************************************************)
EXTENDS PositionKeeper, Sequences, FiniteSets, FiniteSetTheorems, WellFoundedInduction, TLAPS

------------------------------------------------------------------------------
(* Fractions.                                                               *)

\* A quotient of integers is a fraction.
LEMMA RatioType ==
    ASSUME NEW n \in Int, NEW d \in Int, d # 0
    PROVE  Ratio(n, d) \in Rational
<1> DEFINE sn == IF d < 0 THEN -n ELSE n
           sd == IF d < 0 THEN -d ELSE d
<1>1. sn \in Int /\ sd \in Nat \ {0}
  OBVIOUS
<1>2. sn \div sd \in Int
  BY <1>1
<1> QED
  BY <1>1, <1>2 DEF Ratio, Rational, Rat

\* Whole numbers are fractions.
LEMMA RatType ==
    ASSUME NEW n \in Int
    PROVE  Rat(n) \in Rational
BY DEF Rat, Rational

\* The denominators of a sum, a multiple or a quotient are not zero.
LEMMA NonZeroProduct ==
    ASSUME NEW a \in Int, NEW b \in Int, a # 0, b # 0
    PROVE  a * b \in Int /\ a * b # 0
OBVIOUS

LEMMA RatArithmeticType ==
    ASSUME NEW a \in Rational, NEW b \in Rational, NEW k \in Int
    PROVE  /\ RatAdd(a, b) \in Rational
           /\ RatScale(k, a) \in Rational
           /\ RatSub(a, b) \in Rational
           /\ k # 0 => RatDiv(a, k) \in Rational
<1>1. a.num \in Int /\ a.den \in Int /\ a.den # 0 /\ b.num \in Int /\ b.den \in Int /\ b.den # 0
  BY DEF Rational
<1>2. \A x, y \in Rational : RatAdd(x, y) \in Rational
  <2> SUFFICES ASSUME NEW x \in Rational, NEW y \in Rational
               PROVE  RatAdd(x, y) \in Rational
    OBVIOUS
  <2>1. /\ x.num \in Int /\ x.den \in Int /\ x.den # 0
        /\ y.num \in Int /\ y.den \in Int /\ y.den # 0
    BY DEF Rational
  <2>2. x.den * y.den \in Int /\ x.den * y.den # 0
    BY <2>1, NonZeroProduct
  <2>3. x.num * y.den + y.num * x.den \in Int
    BY <2>1
  <2> QED
    BY <2>2, <2>3, RatioType DEF RatAdd
<1>3. \A j \in Int, x \in Rational : RatScale(j, x) \in Rational
  <2> SUFFICES ASSUME NEW j \in Int, NEW x \in Rational
               PROVE  RatScale(j, x) \in Rational
    OBVIOUS
  <2>1. j * x.num \in Int /\ x.den \in Int /\ x.den # 0
    BY DEF Rational
  <2> QED
    BY <2>1, RatioType DEF RatScale
<1>4. RatSub(a, b) \in Rational
  BY <1>2, <1>3 DEF RatSub
<1>5. k # 0 => RatDiv(a, k) \in Rational
  BY <1>1, NonZeroProduct, RatioType DEF RatDiv
<1> QED
  BY <1>2, <1>3, <1>4, <1>5

\* r is the fraction n / d, whether or not either is reduced.
Represents(r, n, d) == r.num * d = n * r.den

\* A common factor can be dropped from an equation, and from an inequality if it
\* is positive.
LEMMA Cancel ==
    ASSUME NEW x \in Int, NEW y \in Int, NEW k \in Int, k # 0, x * k = y * k
    PROVE  x = y
OBVIOUS

LEMMA CancelLeq ==
    ASSUME NEW x \in Int, NEW y \in Int, NEW k \in Int, k > 0, x * k <= y * k
    PROVE  x <= y
OBVIOUS

LEMMA RatioRepresents ==
    ASSUME NEW n \in Int, NEW d \in Int, d # 0
    PROVE  Ratio(n, d) \in Rational /\ Represents(Ratio(n, d), n, d)
<1> DEFINE sn == IF d < 0 THEN -n ELSE n
           sd == IF d < 0 THEN -d ELSE d
<1>1. sn \in Int /\ sd \in Int /\ sd > 0 /\ sn * d = n * sd
  OBVIOUS
<1>2. CASE sn % sd = 0
  <2>1. sn \div sd \in Int /\ sn = sd * (sn \div sd)
    <3>1. \A x, y \in Int : y > 0 => x \div y \in Int /\ x = y * (x \div y) + (x % y) /\ x % y \in Int
      OBVIOUS
    <3> HIDE DEF sn, sd
    <3>2. sn \div sd \in Int /\ sn = sd * (sn \div sd) + (sn % sd)
      BY <1>1, <3>1
    <3> QED
      BY <1>1, <1>2, <3>2
  <2>2. Ratio(n, d) = [num |-> sn \div sd, den |-> 1]
    BY <1>2 DEF Ratio, Rat
  <2> DEFINE q == sn \div sd
  <2>3. q \in Int /\ sn = sd * q
    BY <2>1
  <2> HIDE DEF q, sn, sd
  <2>4. (q * d) * sd = n * sd
    BY <1>1, <2>3
  <2>5. q * d = n
    BY <1>1, <2>3, <2>4, Cancel
  <2> QED
    BY <2>2, <2>5, RatioType DEF Represents, q
<1>3. CASE sn % sd # 0
  BY <1>1, <1>3, RatioType DEF Ratio, Represents
<1> QED
  BY <1>2, <1>3

\* A fraction represents itself; two that represent the same are equal.
LEMMA RepresentsSelf ==
    ASSUME NEW r \in Rational
    PROVE  Represents(r, r.num, r.den)
BY DEF Represents, Rational

LEMMA RepresentsEq ==
    ASSUME NEW r \in Rational, NEW s \in Rational, NEW n \in Int, NEW d \in Int, d # 0,
           Represents(r, n, d)
    PROVE  RatEq(r, s) <=> Represents(s, n, d)
<1>1. /\ r.num \in Int /\ r.den \in Int /\ r.den > 0
      /\ s.num \in Int /\ s.den \in Int /\ s.den > 0
      /\ r.num * d = n * r.den
  BY DEF Represents, Rational
<1> DEFINE a == r.num
           b == r.den
           p == s.num
           q == s.den
<1>2. /\ a \in Int /\ b \in Int /\ b > 0 /\ p \in Int /\ q \in Int /\ q > 0 /\ a * d = n * b
  BY <1>1
<1> HIDE DEF a, b, p, q
<1>3. ASSUME a * q = p * b PROVE p * d = n * q
  <2>1. (p * d) * b = (a * d) * q
    BY <1>2, <1>3
  <2>2. (p * d) * b = (n * q) * b
    BY <1>2, <2>1
  <2> QED
    BY <1>2, <2>2, Cancel
<1>4. ASSUME p * d = n * q PROVE a * q = p * b
  <2>1. (a * q) * d = (n * q) * b
    BY <1>2
  <2>2. (a * q) * d = (p * b) * d
    BY <1>2, <1>4, <2>1
  <2> QED
    BY <1>2, <2>2, Cancel
<1> QED
  BY <1>3, <1>4 DEF RatEq, Represents, a, b, p, q

LEMMA RepresentsReduced ==
    ASSUME NEW r \in Rational, NEW n \in Int, NEW d \in Int, NEW k \in Int, k # 0,
           Represents(r, n * k, d * k)
    PROVE  Represents(r, n, d)
<1> DEFINE a == r.num
           b == r.den
<1>1. a \in Int /\ b \in Int /\ a * (d * k) = (n * k) * b
  BY DEF Rational, Represents
<1> HIDE DEF a, b
<1>2. (a * d) * k = (n * b) * k
  BY <1>1
<1>3. a * d = n * b
  BY <1>1, <1>2, Cancel
<1> QED
  BY <1>3 DEF Represents, a, b

LEMMA RatRepresents ==
    ASSUME NEW n \in Int
    PROVE  Rat(n) \in Rational /\ Represents(Rat(n), n, 1)
BY RatType DEF Rat, Represents

\* Sums, multiples and quotients of what is represented.
LEMMA AddRepresents ==
    ASSUME NEW r \in Rational, NEW n \in Int, NEW d \in Int, d # 0, Represents(r, n, d),
           NEW s \in Rational, NEW m \in Int, NEW e \in Int, e # 0, Represents(s, m, e)
    PROVE  /\ RatAdd(r, s) \in Rational
           /\ Represents(RatAdd(r, s), n * e + m * d, d * e)
<1> DEFINE a == r.num
           b == r.den
           p == s.num
           q == s.den
           t == RatAdd(r, s)
           u == t.num
           v == t.den
<1>1. /\ a \in Int /\ b \in Int /\ b # 0 /\ a * d = n * b
      /\ p \in Int /\ q \in Int /\ q # 0 /\ p * e = m * q
  BY DEF Rational, Represents
<1>2. b * q \in Int /\ b * q # 0 /\ a * q + p * b \in Int
  <2>1. b \in Int /\ q \in Int /\ b # 0 /\ q # 0
    BY <1>1
  <2> HIDE DEF a, b, p, q
  <2> QED
    BY <1>1, <2>1, NonZeroProduct
<1>3. t \in Rational /\ u * (b * q) = (a * q + p * b) * v
  BY <1>2, RatioRepresents DEF RatAdd, Represents
<1>4. u \in Int /\ v \in Int
  BY <1>3 DEF Rational
<1> HIDE DEF a, b, p, q, t, u, v
<1>5. (u * (d * e)) * (b * q) = ((n * e + m * d) * v) * (b * q)
  <2>1. (u * (d * e)) * (b * q) = (u * (b * q)) * (d * e)
    BY <1>1, <1>4
  <2>2. (u * (b * q)) * (d * e) = ((a * q + p * b) * v) * (d * e)
    BY <1>3
  <2>3. ((a * q + p * b) * v) * (d * e) = v * ((a * d) * (q * e) + (p * e) * (b * d))
    BY <1>1, <1>4
  <2>4. (a * d) * (q * e) + (p * e) * (b * d) = (n * b) * (q * e) + (m * q) * (b * d)
    BY <1>1
  <2>5. v * ((n * b) * (q * e) + (m * q) * (b * d)) = ((n * e + m * d) * v) * (b * q)
    BY <1>1, <1>4
  <2> QED
    BY <2>1, <2>2, <2>3, <2>4, <2>5
<1>6. u * (d * e) = (n * e + m * d) * v
  <2>1. u * (d * e) \in Int /\ (n * e + m * d) * v \in Int
    BY <1>4
  <2> QED
    BY <1>2, <1>5, <2>1, Cancel
<1> QED
  BY <1>3, <1>6 DEF Represents, t, u, v

LEMMA ScaleRepresents ==
    ASSUME NEW r \in Rational, NEW n \in Int, NEW d \in Int, d # 0, Represents(r, n, d),
           NEW k \in Int
    PROVE  RatScale(k, r) \in Rational /\ Represents(RatScale(k, r), k * n, d)
<1> DEFINE a == r.num
           b == r.den
           t == RatScale(k, r)
           u == t.num
           v == t.den
<1>1. a \in Int /\ b \in Int /\ b # 0 /\ a * d = n * b
  BY DEF Rational, Represents
<1>2. k * a \in Int
  BY <1>1
<1>3. t \in Rational /\ u * b = (k * a) * v
  BY <1>1, <1>2, RatioRepresents DEF RatScale, Represents
<1>4. u \in Int /\ v \in Int
  BY <1>3 DEF Rational
<1> HIDE DEF a, b, t, u, v
<1>5. (u * d) * b = ((k * n) * v) * b
  <2>1. (u * d) * b = ((k * a) * v) * d
    BY <1>1, <1>3, <1>4
  <2>2. ((k * a) * v) * d = (k * v) * (n * b)
    BY <1>1, <1>4
  <2> QED
    BY <1>1, <1>4, <2>1, <2>2
<1>6. u * d = (k * n) * v
  <2>1. u * d \in Int /\ (k * n) * v \in Int
    BY <1>4
  <2> QED
    BY <1>1, <1>5, <2>1, Cancel
<1> QED
  BY <1>3, <1>6 DEF Represents, t, u, v

LEMMA DivRepresents ==
    ASSUME NEW r \in Rational, NEW n \in Int, NEW d \in Int, d # 0, Represents(r, n, d),
           NEW k \in Int, k # 0
    PROVE  RatDiv(r, k) \in Rational /\ Represents(RatDiv(r, k), n, d * k)
<1> DEFINE a == r.num
           b == r.den
           t == RatDiv(r, k)
           u == t.num
           v == t.den
<1>1. a \in Int /\ b \in Int /\ b # 0 /\ a * d = n * b
  BY DEF Rational, Represents
<1>2. b * k \in Int /\ b * k # 0
  BY <1>1, NonZeroProduct
<1>3. t \in Rational /\ u * (b * k) = a * v
  BY <1>1, <1>2, RatioRepresents DEF RatDiv, Represents
<1>4. u \in Int /\ v \in Int
  BY <1>3 DEF Rational
<1> HIDE DEF a, b, t, u, v
<1>5. (u * (d * k)) * b = (n * v) * b
  <2>1. (u * (d * k)) * b = (a * v) * d
    BY <1>1, <1>3, <1>4
  <2>2. (a * v) * d = (n * b) * v
    BY <1>1, <1>4
  <2> QED
    BY <1>1, <1>4, <2>1, <2>2
<1>6. u * (d * k) = n * v
  <2>1. u * (d * k) \in Int /\ n * v \in Int
    BY <1>4
  <2> QED
    BY <1>1, <1>5, <2>1, Cancel
<1> QED
  BY <1>3, <1>6 DEF Represents, t, u, v

------------------------------------------------------------------------------
(* Positions.                                                               *)

\* The new cost basis is a fraction: each branch that divides has a quantity to
\* divide by.
LEMMA AvgAfterType ==
    ASSUME NEW pos \in Position, NEW signed \in Int, NEW fill_price \in Nat
    PROVE  AvgAfter(pos, signed, fill_price) \in Rational
<1>1. /\ pos.quantity \in Int
      /\ pos.avgPrice \in Rational
      /\ pos.quantity + signed \in Int
      /\ signed * fill_price \in Int
  BY DEF Position
<1>2. /\ Rat(0) \in Rational
      /\ Rat(fill_price) \in Rational
      /\ Rat(signed * fill_price) \in Rational
  BY <1>1, RatType
<1>3. RatAdd(RatScale(pos.quantity, pos.avgPrice), Rat(signed * fill_price)) \in Rational
  BY <1>1, <1>2, RatArithmeticType
<1>4. pos.quantity + signed # 0 =>
          RatDiv(RatAdd(RatScale(pos.quantity, pos.avgPrice), Rat(signed * fill_price)),
                 pos.quantity + signed) \in Rational
  BY <1>1, <1>3, RatArithmeticType
<1> QED
  BY <1>1, <1>2, <1>4 DEF AvgAfter

\* PositionKeeper::on_fill turns positions into positions.
LEMMA FilledPositionType ==
    ASSUME NEW pos \in Position, NEW fill_qty \in Nat, NEW fill_price \in Nat, NEW side
    PROVE  FilledPosition(pos, fill_qty, fill_price, side) \in Position
<1> DEFINE signed == signed_fill(side, fill_qty)
<1>1. pos \in Position /\ signed \in Int
  BY DEF signed_fill
<1>2. /\ pos.quantity \in Int
      /\ pos.avgPrice \in Rational
      /\ pos.rPnL \in Rational
      /\ pos.quantity + signed \in Int
  BY <1>1 DEF Position
<1>3. AvgAfter(pos, signed, fill_price) \in Rational
  BY <1>1, AvgAfterType
<1>4. RatAdd(pos.rPnL, RealizedBy(pos, signed, fill_price)) \in Rational
  <2> DEFINE closed == Lesser(Abs(pos.quantity), Abs(signed))
             gain   == RatSub(Rat(fill_price), pos.avgPrice)
  <2>1. closed \in Int
    BY <1>1, <1>2 DEF Lesser, Abs
  <2>2. gain \in Rational
    BY <1>2, RatType, RatArithmeticType
  <2>3. RatScale(IF pos.quantity > 0 THEN closed ELSE -closed, gain) \in Rational
    <3>1. (IF pos.quantity > 0 THEN closed ELSE -closed) \in Int
      BY <1>2, <2>1
    <3> QED
      BY <2>2, <3>1, RatArithmeticType
  <2> QED
    BY <1>2, <2>3, RatArithmeticType DEF RealizedBy
<1> QED
  BY <1>2, <1>3, <1>4 DEF FilledPosition, Position

LEMMA OnFillType ==
    ASSUME NEW S, NEW positions \in [S -> Position], NEW symbol \in S,
           NEW fill_qty \in Nat, NEW fill_price \in Nat, NEW side
    PROVE  on_fill(positions, symbol, fill_qty, fill_price, side) \in [S -> Position]
BY FilledPositionType DEF on_fill

------------------------------------------------------------------------------
(* Sums.                                                                    *)

\* The element the recursion removes from s.
Pick(s) == CHOOSE x \in s : TRUE

\* it gives every subset of S the sum of its weights, along the recursion.
SumsOver(it, w, S) ==
    it = [s \in SUBSET S |-> IF s = {} THEN 0 ELSE w[Pick(s)] + it[s \ {Pick(s)}]]

Sum(w, S) == MapThenSumSet(LAMBDA x : w[x], S)

LEMMA PickIn == \A s : s # {} => Pick(s) \in s
BY DEF Pick

\* A family of finite sets that is not empty has a smallest member.
LEMMA SmallestSet ==
    ASSUME NEW S, IsFiniteSet(S), NEW F \in SUBSET SUBSET S, F # {}
    PROVE  \E s \in F : \A t \in F : t \subseteq s => t = s
<1>1. IsWellFoundedOn(StrictSubsetOrdering(S), FiniteSubsetsOf(S))
  BY FS_StrictSubsetOrderingWellFounded
<1>2. F \subseteq FiniteSubsetsOf(S)
  BY FS_FiniteSubsetsOfFinite
<1>3. \E s \in F : \A t \in F : ~(<<t, s>> \in StrictSubsetOrdering(S))
  BY <1>1, <1>2, WFMin
<1>4. \A s, t \in SUBSET S : t \subseteq s /\ t # s => <<t, s>> \in StrictSubsetOrdering(S)
  BY DEF StrictSubsetOrdering
<1> QED
  BY <1>3, <1>4

LEMMA SumsOverUnique ==
    ASSUME NEW S, IsFiniteSet(S), NEW T \in SUBSET S, NEW w, NEW it, SumsOver(it, w, S),
           NEW jt, SumsOver(jt, w, T)
    PROVE  \A s \in SUBSET T : it[s] = jt[s]
<1> DEFINE bad == {s \in SUBSET T : it[s] # jt[s]}
<1> SUFFICES ASSUME bad # {} PROVE FALSE
  OBVIOUS
<1>1. bad \in SUBSET SUBSET S
  OBVIOUS
<1>2. PICK s \in bad : \A t \in bad : t \subseteq s => t = s
  <2> HIDE DEF bad
  <2> QED
    BY <1>1, SmallestSet
<1>3. s \in SUBSET S /\ s \in SUBSET T /\ it[s] # jt[s]
  OBVIOUS
<1>4. s # {}
  BY <1>3 DEF SumsOver
<1>5. Pick(s) \in s
  BY <1>4, PickIn
<1>6. s \ {Pick(s)} \notin bad
  BY <1>2, <1>5
<1>7. it[s \ {Pick(s)}] = jt[s \ {Pick(s)}]
  BY <1>3, <1>6
<1>8. it[s] = w[Pick(s)] + it[s \ {Pick(s)}] /\ jt[s] = w[Pick(s)] + jt[s \ {Pick(s)}]
  BY <1>3, <1>4 DEF SumsOver
<1> QED
  BY <1>3, <1>7, <1>8

LEMMA SumsOverExists ==
    ASSUME NEW S, IsFiniteSet(S), NEW w
    PROVE  \E it : SumsOver(it, w, S)
<1> DEFINE bad == {T \in SUBSET S : ~ \E it : SumsOver(it, w, T)}
<1> SUFFICES ASSUME bad # {} PROVE FALSE
  OBVIOUS
<1>1. PICK T \in bad : \A t \in bad : t \subseteq T => t = T
  <2>1. bad \in SUBSET SUBSET S
    OBVIOUS
  <2> HIDE DEF bad
  <2> QED
    BY <2>1, SmallestSet
<1>2. IsFiniteSet(T)
  BY FS_Subset
<1>3. \A t \in SUBSET T : t # T => \E it : SumsOver(it, w, t)
  BY <1>1
<1> DEFINE on(t) == CHOOSE it : SumsOver(it, w, t)
           rest(s) == s \ {Pick(s)}
           it == [s \in SUBSET T |-> IF s = {} THEN 0 ELSE w[Pick(s)] + on(rest(s))[rest(s)]]
<1>4. \A t \in SUBSET T : t # T => SumsOver(on(t), w, t)
  BY <1>3
<1>5. ASSUME NEW s \in SUBSET T, s # {}
      PROVE  it[rest(s)] = on(rest(s))[rest(s)]
  <2>1. rest(s) \in SUBSET T /\ rest(s) # T /\ Pick(s) \in s
    BY <1>5, PickIn
  <2>2. SumsOver(on(rest(s)), w, rest(s))
    BY <1>4, <2>1
  <2>3. CASE rest(s) = {}
    <3>1. on(rest(s))[rest(s)] = 0
      BY <2>2, <2>3 DEF SumsOver
    <3> QED
      BY <2>1, <2>3, <3>1
  <2>4. CASE rest(s) # {}
    <3> DEFINE r == rest(s)
    <3>1. Pick(r) \in r /\ rest(r) \in SUBSET r /\ rest(r) # T
      BY <2>1, <2>4, PickIn
    <3>2. on(r)[r] = w[Pick(r)] + on(r)[rest(r)]
      BY <2>2, <2>4 DEF SumsOver
    <3>3. SumsOver(on(rest(r)), w, rest(r))
      BY <1>4, <2>1, <3>1
    <3>4. IsFiniteSet(r)
      BY <1>2, <2>1, FS_Subset
    <3>5. on(r)[rest(r)] = on(rest(r))[rest(r)]
      BY <2>2, <3>1, <3>3, <3>4, SumsOverUnique
    <3>6. it[r] = w[Pick(r)] + on(rest(r))[rest(r)]
      BY <2>1, <2>4
    <3> QED
      BY <3>2, <3>5, <3>6
  <2> QED
    BY <2>3, <2>4
<1>6. SumsOver(it, w, T)
  <2>1. \A s \in SUBSET T :
            it[s] = IF s = {} THEN 0 ELSE w[Pick(s)] + on(rest(s))[rest(s)]
    OBVIOUS
  <2>2. it = [s \in SUBSET T |-> it[s]]
    OBVIOUS
  <2>3. \A s \in SUBSET T : s # {} => it[rest(s)] = on(rest(s))[rest(s)]
    BY <1>5
  <2> HIDE DEF it
  <2>4. it = [s \in SUBSET T |-> IF s = {} THEN 0 ELSE w[Pick(s)] + it[rest(s)]]
    BY <2>1, <2>2, <2>3
  <2> QED
    BY <2>4 DEF SumsOver
<1> QED
  BY <1>6

------------------------------------------------------------------------------
(* Sums of weights.                                                         *)

LEMMA SumAlong ==
    ASSUME NEW S, IsFiniteSet(S), NEW w
    PROVE  \E it : SumsOver(it, w, S) /\ \A T \in SUBSET S : Sum(w, T) = it[T]
<1>1. PICK it : SumsOver(it, w, S)
  BY SumsOverExists
<1>2. ASSUME NEW T \in SUBSET S
      PROVE  Sum(w, T) = it[T]
  <2> DEFINE jt == CHOOSE jt : SumsOver(jt, w, T)
  <2>1. SumsOver(jt, w, T)
    <3>1. IsFiniteSet(T)
      BY FS_Subset
    <3> QED
      BY <3>1, SumsOverExists
  <2>2. Sum(w, T) = jt[T]
    BY DEF Sum, MapThenSumSet, MapThenFoldSet, SumsOver, Pick
  <2> HIDE DEF jt
  <2>3. \A s \in SUBSET T : it[s] = jt[s]
    BY <1>1, <2>1, SumsOverUnique
  <2> QED
    BY <2>2, <2>3
<1> QED
  BY <1>1, <1>2

LEMMA SumEmpty == \A w : Sum(w, {}) = 0
<1> SUFFICES ASSUME NEW w PROVE Sum(w, {}) = 0
  OBVIOUS
<1>1. PICK it : SumsOver(it, w, {}) /\ \A T \in SUBSET {} : Sum(w, T) = it[T]
  BY SumAlong, FS_EmptySet
<1> QED
  BY <1>1 DEF SumsOver

LEMMA SumPick ==
    ASSUME NEW S, IsFiniteSet(S), S # {}, NEW w
    PROVE  Sum(w, S) = w[Pick(S)] + Sum(w, S \ {Pick(S)})
<1>1. PICK it : SumsOver(it, w, S) /\ \A T \in SUBSET S : Sum(w, T) = it[T]
  BY SumAlong
<1>2. it[S] = w[Pick(S)] + it[S \ {Pick(S)}]
  BY <1>1 DEF SumsOver
<1> QED
  BY <1>1, <1>2

\* The sum of integers is an integer, and any element can be removed first.
LEMMA SumRemove ==
    ASSUME NEW S, IsFiniteSet(S), NEW w, \A x \in S : w[x] \in Int
    PROVE  /\ Sum(w, S) \in Int
           /\ \A x \in S : Sum(w, S) = w[x] + Sum(w, S \ {x})
<1> DEFINE Good(T) == /\ Sum(w, T) \in Int
                      /\ \A x \in T : Sum(w, T) = w[x] + Sum(w, T \ {x})
           bad == {T \in SUBSET S : ~Good(T)}
<1> SUFFICES ASSUME bad # {} PROVE FALSE
  OBVIOUS
<1>1. PICK T \in bad : \A t \in bad : t \subseteq T => t = T
  <2>1. bad \in SUBSET SUBSET S
    OBVIOUS
  <2> HIDE DEF bad
  <2> QED
    BY <2>1, SmallestSet
<1>2. IsFiniteSet(T) /\ T \in SUBSET S /\ ~Good(T)
  BY FS_Subset
<1>3. \A t \in SUBSET T : t # T => Good(t)
  BY <1>1
<1>4. T # {}
  <2>1. Good({})
    BY SumEmpty
  <2> HIDE DEF Good
  <2> QED
    BY <1>2, <2>1
<1> DEFINE p == Pick(T)
<1>5. p \in T /\ w[p] \in Int
  BY <1>2, <1>4, PickIn
<1>6. Sum(w, T) = w[p] + Sum(w, T \ {p})
  BY <1>2, <1>4, SumPick
<1>7. Good(T \ {p})
  BY <1>3, <1>5
<1> HIDE DEF p
<1>8. Sum(w, T) \in Int
  BY <1>5, <1>6, <1>7
<1>9. ASSUME NEW x \in T, x # p
      PROVE  Sum(w, T) = w[x] + Sum(w, T \ {x})
  <2>1. x \in T \ {p} /\ p \in T \ {x}
    BY <1>5, <1>9
  <2>2. Sum(w, T \ {p}) = w[x] + Sum(w, (T \ {p}) \ {x})
    BY <1>7, <2>1
  <2>3. Good(T \ {x}) /\ Good((T \ {p}) \ {x})
    BY <1>3, <1>5, <2>1
  <2>4. Sum(w, T \ {x}) = w[p] + Sum(w, (T \ {x}) \ {p})
    BY <2>1, <2>3
  <2>5. (T \ {x}) \ {p} = (T \ {p}) \ {x}
    OBVIOUS
  <2>6. Sum(w, T \ {x}) = w[p] + Sum(w, (T \ {p}) \ {x})
    BY <2>4, <2>5
  <2>7. w[x] \in Int /\ Sum(w, (T \ {p}) \ {x}) \in Int
    BY <1>2, <2>3
  <2>8. Sum(w, T) = w[p] + (w[x] + Sum(w, (T \ {p}) \ {x}))
    BY <1>6, <2>2
  <2>9. w[p] + (w[x] + Sum(w, (T \ {p}) \ {x})) = w[x] + (w[p] + Sum(w, (T \ {p}) \ {x}))
    BY <1>5, <2>7
  <2> QED
    BY <2>6, <2>8, <2>9
<1> QED
  BY <1>2, <1>6, <1>8, <1>9

\* Equal weights have equal sums.
LEMMA SumSame ==
    ASSUME NEW S, IsFiniteSet(S), NEW w, NEW v, \A x \in S : w[x] = v[x]
    PROVE  Sum(w, S) = Sum(v, S)
<1> DEFINE bad == {T \in SUBSET S : Sum(w, T) # Sum(v, T)}
<1> SUFFICES ASSUME bad # {} PROVE FALSE
  OBVIOUS
<1>1. PICK T \in bad : \A t \in bad : t \subseteq T => t = T
  <2>1. bad \in SUBSET SUBSET S
    OBVIOUS
  <2> HIDE DEF bad
  <2> QED
    BY <2>1, SmallestSet
<1>2. IsFiniteSet(T) /\ T \in SUBSET S /\ Sum(w, T) # Sum(v, T)
  BY FS_Subset
<1>3. T # {}
  BY <1>2, SumEmpty
<1>4. Pick(T) \in T
  BY <1>3, PickIn
<1>5. T \ {Pick(T)} \notin bad
  BY <1>1, <1>4
<1>6. Sum(w, T \ {Pick(T)}) = Sum(v, T \ {Pick(T)})
  BY <1>2, <1>5
<1>7. Sum(w, T) = w[Pick(T)] + Sum(w, T \ {Pick(T)})
  BY <1>2, <1>3, SumPick
<1>8. Sum(v, T) = v[Pick(T)] + Sum(v, T \ {Pick(T)})
  BY <1>2, <1>3, SumPick
<1> QED
  BY <1>2, <1>4, <1>6, <1>7, <1>8

\* One weight changes.
LEMMA SumChange ==
    ASSUME NEW S, IsFiniteSet(S), NEW w, NEW v, NEW x \in S,
           \A y \in S : w[y] \in Int /\ v[y] \in Int,
           \A y \in S \ {x} : w[y] = v[y]
    PROVE  /\ Sum(v, S) = Sum(w, S) - w[x] + v[x]
           /\ Sum(w, S) \in Int
<1>1. IsFiniteSet(S \ {x})
  BY FS_RemoveElement
<1>2. Sum(w, S \ {x}) = Sum(v, S \ {x})
  BY <1>1, SumSame
<1>3. Sum(w, S \ {x}) \in Int
  BY <1>1, SumRemove
<1>4. Sum(w, S) = w[x] + Sum(w, S \ {x}) /\ Sum(w, S) \in Int
  BY SumRemove
<1>5. Sum(v, S) = v[x] + Sum(v, S \ {x})
  BY SumRemove
<1> QED
  BY <1>2, <1>3, <1>4, <1>5

\* Elements of weight zero do not matter.
LEMMA SumSupport ==
    ASSUME NEW S, IsFiniteSet(S), NEW R \in SUBSET S, NEW w, \A x \in R : w[x] \in Int,
           \A x \in S \ R : w[x] = 0
    PROVE  Sum(w, S) = Sum(w, R)
<1> DEFINE bad == {T \in SUBSET S : R \subseteq T /\ Sum(w, T) # Sum(w, R)}
<1> SUFFICES ASSUME bad # {} PROVE FALSE
  OBVIOUS
<1>1. PICK T \in bad : \A t \in bad : t \subseteq T => t = T
  <2>1. bad \in SUBSET SUBSET S
    OBVIOUS
  <2> HIDE DEF bad
  <2> QED
    BY <2>1, SmallestSet
<1>2. IsFiniteSet(T) /\ T \in SUBSET S /\ R \subseteq T /\ Sum(w, T) # Sum(w, R)
  BY FS_Subset
<1>3. PICK x \in T : x \notin R
  BY <1>2
<1>4. T \ {x} \notin bad
  BY <1>1, <1>3
<1>5. Sum(w, T \ {x}) = Sum(w, R)
  BY <1>2, <1>3, <1>4
<1>6. \A y \in T : w[y] \in Int
  BY <1>2
<1>7. Sum(w, T) = w[x] + Sum(w, T \ {x})
  BY <1>2, <1>6, SumRemove
<1>8. w[x] = 0
  BY <1>2, <1>3
<1>9. Sum(w, R) \in Int
  <2>1. IsFiniteSet(R)
    BY FS_Subset
  <2> QED
    BY <2>1, SumRemove
<1> QED
  BY <1>2, <1>5, <1>7, <1>8, <1>9

LEMMA SumZero ==
    ASSUME NEW S, IsFiniteSet(S), NEW w, \A x \in S : w[x] = 0
    PROVE  Sum(w, S) = 0
<1>1. {} \in SUBSET S /\ \A x \in S \ {} : w[x] = 0
  OBVIOUS
<1>2. Sum(w, S) = Sum(w, {})
  BY <1>1, SumSupport
<1> QED
  BY <1>2, SumEmpty

\* A sum of naturals is no less than any of its terms.
LEMMA SumNat ==
    ASSUME NEW S, IsFiniteSet(S), NEW w, \A x \in S : w[x] \in Nat
    PROVE  Sum(w, S) \in Nat /\ \A x \in S : w[x] <= Sum(w, S)
<1>1. \A T \in SUBSET S : Sum(w, T) \in Nat
  <2> DEFINE bad == {T \in SUBSET S : Sum(w, T) \notin Nat}
  <2> SUFFICES ASSUME bad # {} PROVE FALSE
    OBVIOUS
  <2>1. PICK T \in bad : \A t \in bad : t \subseteq T => t = T
    <3>1. bad \in SUBSET SUBSET S
      OBVIOUS
    <3> HIDE DEF bad
    <3> QED
      BY <3>1, SmallestSet
  <2>2. IsFiniteSet(T) /\ T \in SUBSET S /\ Sum(w, T) \notin Nat
    BY FS_Subset
  <2>3. T # {}
    BY <2>2, SumEmpty
  <2>4. Pick(T) \in T
    BY <2>3, PickIn
  <2>5. T \ {Pick(T)} \notin bad
    BY <2>1, <2>4
  <2>6. Sum(w, T \ {Pick(T)}) \in Nat
    BY <2>2, <2>5
  <2>7. Sum(w, T) = w[Pick(T)] + Sum(w, T \ {Pick(T)})
    BY <2>2, <2>3, SumPick
  <2> QED
    BY <2>2, <2>4, <2>6, <2>7
<1>2. ASSUME NEW x \in S
      PROVE  w[x] <= Sum(w, S)
  <2>1. Sum(w, S) = w[x] + Sum(w, S \ {x})
    BY SumRemove
  <2>2. Sum(w, S \ {x}) \in Nat
    BY <1>1
  <2> QED
    BY <2>1, <2>2
<1> QED
  BY <1>1, <1>2

------------------------------------------------------------------------------
(* Sums along a sequence.                                                   *)

\* A weight is appended to n others.
LEMMA SumAppend ==
    ASSUME NEW n \in Nat, NEW w, NEW v, \A i \in 1 .. n : w[i] \in Int /\ v[i] = w[i],
           v[n + 1] \in Int
    PROVE  Sum(v, 1 .. n + 1) = Sum(w, 1 .. n) + v[n + 1] /\ Sum(w, 1 .. n) \in Int
<1>1. /\ IsFiniteSet(1 .. n + 1) /\ IsFiniteSet(1 .. n) /\ n + 1 \in 1 .. n + 1
      /\ (1 .. n + 1) \ {n + 1} = 1 .. n
  <2>1. 1 \in Int /\ n \in Int /\ n + 1 \in Int
    OBVIOUS
  <2>2. IsFiniteSet(1 .. n + 1) /\ IsFiniteSet(1 .. n)
    BY <2>1, FS_Interval
  <2>3. n + 1 \in 1 .. n + 1 /\ (1 .. n + 1) \ {n + 1} = 1 .. n
    OBVIOUS
  <2> QED
    BY <2>2, <2>3
<1>2. \A i \in 1 .. n + 1 : v[i] \in Int
  <2> SUFFICES ASSUME NEW i \in 1 .. n + 1 PROVE v[i] \in Int
    OBVIOUS
  <2>1. i \in 1 .. n \/ i = n + 1
    OBVIOUS
  <2> QED
    BY <2>1
<1>3. Sum(v, 1 .. n + 1) = v[n + 1] + Sum(v, (1 .. n + 1) \ {n + 1})
  BY <1>1, <1>2, SumRemove
<1>4. Sum(v, 1 .. n) = Sum(w, 1 .. n)
  BY <1>1, SumSame
<1>5. Sum(w, 1 .. n) \in Int
  BY <1>1, SumRemove
<1>6. Sum(v, 1 .. n + 1) = v[n + 1] + Sum(w, 1 .. n)
  BY <1>1, <1>3, <1>4
<1> QED
  BY <1>5, <1>6

\* Removing the first of n + 1 weights moves the others one place down.
LEMMA SumShift ==
    ASSUME NEW n \in Nat, NEW w, NEW v, \A i \in 1 .. n + 1 : w[i] \in Int,
           \A i \in 1 .. n : v[i] = w[i + 1]
    PROVE  Sum(w, 1 .. n + 1) = w[1] + Sum(v, 1 .. n)
<1> DEFINE bad == {m \in Nat : m <= n /\ Sum(w, 1 .. m + 1) # w[1] + Sum(v, 1 .. m)}
<1> SUFFICES ASSUME bad # {} PROVE FALSE
  OBVIOUS
<1>1. PICK m \in bad : \A k \in bad : ~(k < m)
  <2>1. bad \subseteq Nat
    OBVIOUS
  <2>2. PICK m \in bad : \A k \in bad : ~(<<k, m>> \in OpToRel(<, Nat))
    <3> HIDE DEF bad
    <3> QED
      BY <2>1, NatLessThanWellFounded, WFMin
  <2> QED
    BY <2>1, <2>2 DEF OpToRel
<1>2. m \in Nat /\ m <= n /\ Sum(w, 1 .. m + 1) # w[1] + Sum(v, 1 .. m)
  OBVIOUS
<1>3. w[1] \in Int
  OBVIOUS
<1>4. CASE m = 0
  <2>1. 1 .. m + 1 = {1} /\ 1 .. m = {} /\ {1} \ {1} = {}
    BY <1>4
  <2>2. \A x \in {1} : w[x] \in Int
    BY <1>3
  <2>3. Sum(w, {1}) = w[1] + Sum(w, {1} \ {1})
    BY <2>2, FS_Singleton, SumRemove
  <2>4. Sum(w, {1}) = w[1] + Sum(w, {}) /\ Sum(w, {}) = 0 /\ Sum(v, {}) = 0
    BY <2>1, <2>3, SumEmpty
  <2> QED
    BY <1>2, <2>1, <2>4
<1>5. CASE m # 0
  <2>1. m - 1 \in Nat /\ m - 1 < m /\ m - 1 <= n /\ (m - 1) + 1 = m
    BY <1>2, <1>5
  <2>2. Sum(w, 1 .. m) = w[1] + Sum(v, 1 .. m - 1)
    BY <1>1, <2>1
  <2>3. /\ IsFiniteSet(1 .. m + 1) /\ IsFiniteSet(1 .. m) /\ IsFiniteSet(1 .. m - 1)
        /\ m + 1 \in 1 .. m + 1 /\ m \in 1 .. m
    BY <1>2, <1>5, FS_Interval
  <2>4. (1 .. m + 1) \ {m + 1} = 1 .. m /\ (1 .. m) \ {m} = 1 .. m - 1
    BY <1>2, <1>5
  <2>5. /\ w[m + 1] \in Int /\ \A i \in 1 .. m : w[i] \in Int
        /\ v[m] = w[m + 1] /\ \A i \in 1 .. m - 1 : v[i] \in Int
    <3>1. m + 1 \in 1 .. n + 1 /\ m \in 1 .. n
      BY <1>2, <1>5
    <3>2. \A i \in 1 .. m : i \in 1 .. n + 1
      BY <1>2
    <3>3. \A i \in 1 .. m - 1 : i \in 1 .. n /\ i + 1 \in 1 .. n + 1
      BY <1>2
    <3> QED
      BY <3>1, <3>2, <3>3
  <2>6. Sum(w, 1 .. m + 1) = w[m + 1] + Sum(w, (1 .. m + 1) \ {m + 1})
    <3>1. \A i \in 1 .. m + 1 : w[i] \in Int
      BY <1>2, <2>5
    <3> QED
      BY ZenonT(40), <2>3, <3>1, SumRemove
  <2>7. Sum(v, 1 .. m) = v[m] + Sum(v, (1 .. m) \ {m})
    <3>1. \A i \in 1 .. m : v[i] \in Int
      BY <1>2, <2>5
    <3> QED
      BY <2>3, <3>1, SumRemove
  <2>8. Sum(v, 1 .. m - 1) \in Int
    BY <2>3, <2>5, SumRemove
  <2>9. Sum(w, 1 .. m + 1) = w[m + 1] + (w[1] + Sum(v, 1 .. m - 1))
    BY <2>2, <2>4, <2>6
  <2>10. Sum(v, 1 .. m) = w[m + 1] + Sum(v, 1 .. m - 1)
    BY <2>4, <2>5, <2>7
  <2> QED
    BY <1>2, <1>3, <2>5, <2>8, <2>9, <2>10
<1> QED
  BY <1>4, <1>5

\* The sum of the weights of a sequence's elements.
Tally(w, q) == Sum([i \in 1 .. Len(q) |-> w[q[i]]], 1 .. Len(q))

LEMMA TallyEmpty == \A w : Tally(w, <<>>) = 0
<1> SUFFICES ASSUME NEW w PROVE Tally(w, <<>>) = 0
  OBVIOUS
<1>1. 1 .. Len(<<>>) = {}
  OBVIOUS
<1> QED
  BY <1>1, SumEmpty DEF Tally

LEMMA TallyNat ==
    ASSUME NEW E, NEW q \in Seq(E), NEW w, \A x \in E : w[x] \in Nat
    PROVE  Tally(w, q) \in Nat /\ \A i \in 1 .. Len(q) : w[q[i]] <= Tally(w, q)
<1> DEFINE v == [i \in 1 .. Len(q) |-> w[q[i]]]
<1>1. \A i \in 1 .. Len(q) : q[i] \in E
  OBVIOUS
<1>2. \A i \in 1 .. Len(q) : v[i] = w[q[i]] /\ v[i] \in Nat
  BY <1>1
<1>3. Tally(w, q) = Sum(v, 1 .. Len(q))
  BY DEF Tally
<1>4. IsFiniteSet(1 .. Len(q))
  BY FS_Interval
<1> HIDE DEF v
<1>5. /\ Sum(v, 1 .. Len(q)) \in Nat
      /\ \A i \in 1 .. Len(q) : v[i] <= Sum(v, 1 .. Len(q))
  BY <1>2, <1>4, SumNat
<1> QED
  BY <1>2, <1>3, <1>5

LEMMA TallyAppend ==
    ASSUME NEW E, NEW q \in Seq(E), NEW e \in E, NEW w, \A x \in E : w[x] \in Nat
    PROVE  Tally(w, Append(q, e)) = Tally(w, q) + w[e]
<1> DEFINE n == Len(q)
           u == [i \in 1 .. n |-> w[q[i]]]
           v == [i \in 1 .. n + 1 |-> w[Append(q, e)[i]]]
<1>1. n \in Nat /\ Len(Append(q, e)) = n + 1
  OBVIOUS
<1>2. /\ Tally(w, q) = Sum(u, 1 .. n)
      /\ Tally(w, Append(q, e)) = Sum(v, 1 .. n + 1)
  BY <1>1 DEF Tally
<1>3. \A i \in 1 .. n : q[i] \in E /\ i \in 1 .. n + 1 /\ Append(q, e)[i] = q[i]
  OBVIOUS
<1>4. \A i \in 1 .. n : u[i] \in Int /\ v[i] = u[i]
  BY <1>3
<1>5. n + 1 \in 1 .. n + 1 /\ Append(q, e)[n + 1] = e
  OBVIOUS
<1>6. v[n + 1] = w[e] /\ v[n + 1] \in Int
  BY <1>5
<1> HIDE DEF n, u, v
<1>7. n \in Nat /\ v[n + 1] \in Int /\ \A i \in 1 .. n : u[i] \in Int /\ v[i] = u[i]
  BY <1>1, <1>4, <1>6
<1>8. Sum(v, 1 .. n + 1) = Sum(u, 1 .. n) + v[n + 1]
  BY <1>7, SumAppend
<1> QED
  BY <1>2, <1>6, <1>8

LEMMA TallyTail ==
    ASSUME NEW E, NEW q \in Seq(E), q # <<>>, NEW w, \A x \in E : w[x] \in Nat
    PROVE  Tally(w, q) = w[Head(q)] + Tally(w, Tail(q))
<1> DEFINE n == Len(q) - 1
           u == [i \in 1 .. n + 1 |-> w[q[i]]]
           v == [i \in 1 .. n |-> w[Tail(q)[i]]]
<1>1. n \in Nat /\ Len(q) = n + 1 /\ Len(Tail(q)) = n
  OBVIOUS
<1>2. /\ Tally(w, q) = Sum(u, 1 .. n + 1)
      /\ Tally(w, Tail(q)) = Sum(v, 1 .. n)
  BY <1>1 DEF Tally
<1>3. \A i \in 1 .. n + 1 : q[i] \in E
  BY <1>1
<1>4. \A i \in 1 .. n + 1 : u[i] = w[q[i]] /\ u[i] \in Int
  BY <1>3
<1>5. \A i \in 1 .. n : Tail(q)[i] = q[i + 1] /\ i + 1 \in 1 .. n + 1
  BY <1>1
<1>6. \A i \in 1 .. n : v[i] = u[i + 1]
  BY <1>4, <1>5
<1>7. 1 \in 1 .. n + 1 /\ q[1] = Head(q)
  BY <1>1
<1>8. u[1] = w[Head(q)]
  BY <1>4, <1>7
<1> HIDE DEF n, u, v
<1> QED
  BY <1>1, <1>2, <1>4, <1>6, <1>8, SumShift

LEMMA TallyZero ==
    ASSUME NEW E, NEW q \in Seq(E), NEW w, \A i \in 1 .. Len(q) : w[q[i]] = 0
    PROVE  Tally(w, q) = 0
<1> DEFINE S == 1 .. Len(q)
           v == [i \in S |-> w[q[i]]]
<1>1. IsFiniteSet(S) /\ \A i \in S : v[i] = 0
  BY FS_Interval
<1>2. Tally(w, q) = Sum(v, S)
  BY DEF Tally
<1> HIDE DEF S, v
<1> QED
  BY <1>1, <1>2, SumZero
==============================================================================
