--------------------------- MODULE PositionKeeper ----------------------------
(***************************************************************************)
(* The position of every symbol: a signed quantity (long > 0, short < 0),  *)
(* a weighted-average entry price and the profit realised so far.          *)
(*                                                                         *)
(* positions_ is a total function over the symbols: a symbol that was      *)
(* never filled has the value FlatPosition, which is what operator[]       *)
(* default-constructs on its first fill.                                   *)
(***************************************************************************)
EXTENDS Rationals, FiniteSetsExt

Position == [quantity : Int, avgPrice : Rational, rPnL : Rational]

FlatPosition == [quantity |-> 0, avgPrice |-> Rat(0), rPnL |-> Rat(0)]

Abs(n) == IF n < 0 THEN -n ELSE n
Lesser(m, n) == IF m < n THEN m ELSE n

signed_fill(side, fill_qty) == IF side = "BUY" THEN fill_qty ELSE -fill_qty

\* The fill is on the other side of an open position.
Reduces(old_qty, signed) == old_qty # 0 /\ old_qty * signed < 0

\* Profit realised by the part of the position that the fill closes.
RealizedBy(pos, signed, fill_price) ==
    LET closed == Lesser(Abs(pos.quantity), Abs(signed))
        gain   == RatSub(Rat(fill_price), pos.avgPrice)
    IN  RatScale(IF pos.quantity > 0 THEN closed ELSE -closed, gain)

\* Faulty: a position that flips sides keeps its old cost basis.
AvgAfter_NoFlip(pos, signed, fill_price) ==
    LET old_qty == pos.quantity
        new_qty == old_qty + signed
    IN  CASE new_qty = 0 -> Rat(0)
          [] old_qty = 0 -> Rat(fill_price)
          [] old_qty # 0 /\ new_qty # 0 /\ old_qty * signed > 0 ->
               RatDiv(RatAdd(RatScale(old_qty, pos.avgPrice), Rat(signed * fill_price)),
                      new_qty)
          [] OTHER -> pos.avgPrice

\* Faulty: the weighted average divides by the old quantity.
AvgAfter_WrongWeight(pos, signed, fill_price) ==
    LET old_qty == pos.quantity
        new_qty == old_qty + signed
    IN  CASE new_qty = 0 -> Rat(0)
          [] old_qty = 0 \/ (new_qty # 0 /\ old_qty * new_qty < 0) -> Rat(fill_price)
          [] old_qty # 0 /\ new_qty # 0 /\ old_qty * signed > 0 ->
               RatDiv(RatAdd(RatScale(old_qty, pos.avgPrice), Rat(signed * fill_price)),
                      old_qty)
          [] OTHER -> pos.avgPrice

\* Cost basis after the fill: none when flat, the fill's price when the fill
\* opens or flips the position, the weighted average when it adds to it.
AvgAfter(pos, signed, fill_price) ==
    LET old_qty == pos.quantity
        new_qty == old_qty + signed
    IN  CASE new_qty = 0 -> Rat(0)
          [] old_qty = 0 \/ (new_qty # 0 /\ old_qty * new_qty < 0) -> Rat(fill_price)
          [] old_qty # 0 /\ new_qty # 0 /\ old_qty * signed > 0 ->
               RatDiv(RatAdd(RatScale(old_qty, pos.avgPrice), Rat(signed * fill_price)),
                      new_qty)
          [] OTHER -> pos.avgPrice

\* PositionKeeper::on_fill for one symbol.  A fill without a price (0) moves
\* the quantity only.
FilledPosition(pos, fill_qty, fill_price, side) ==
    LET signed == signed_fill(side, fill_qty)
    IN  [quantity |-> pos.quantity + signed,
         avgPrice |-> IF fill_price > 0 THEN AvgAfter(pos, signed, fill_price)
                                        ELSE pos.avgPrice,
         rPnL     |-> IF fill_price > 0 /\ Reduces(pos.quantity, signed)
                      THEN RatAdd(pos.rPnL, RealizedBy(pos, signed, fill_price))
                      ELSE pos.rPnL]

on_fill(positions, symbol, fill_qty, fill_price, side) ==
    IF fill_qty <= 0
    THEN positions
    ELSE [positions EXCEPT ![symbol] = FilledPosition(@, fill_qty, fill_price, side)]

get_total_pnl(positions) ==
    FoldSet(LAMBDA s, sum : RatAdd(positions[s].rPnL, sum), Rat(0), DOMAIN positions)
==============================================================================
