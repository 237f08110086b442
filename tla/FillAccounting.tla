--------------------------- MODULE FillAccounting ----------------------------
(***************************************************************************)
(* The arithmetic of a fill, against its reference: a sequence of fills of *)
(* one symbol is applied to the position (PositionKeeper::on_fill) and to  *)
(* the row of an order (SQLiteOrderStore::apply_fill), while the cash they *)
(* move is added up directly.                                              *)
(***************************************************************************)
EXTENDS PositionKeeper, OrderStore

CONSTANT MaxFills  \* bound: length of the sequence of fills

\* on_fill takes a price of 0 for one that is not known, and then moves the
\* quantity only: what such a fill is worth is not accounted for.
ASSUME AccountAssumption ==
    /\ Symbols # {}
    /\ 0 \notin Prices
    /\ MaxFills \in Nat

VARIABLES position,  \* positions_ of the one symbol
          row,       \* the order's row; the fills do not depend on what was ordered
          cash,      \* what sales brought in less what purchases cost
          turnover,  \* sum of quantity times price, whatever the side
          fills      \* how many fills there have been

accountVars == <<position, row, cash, turnover, fills>>

AccountInit ==
    /\ position = FlatPosition
    /\ row = NewRow(CHOOSE signal \in Signals : TRUE, "SUBMITTED", None)
    /\ cash = 0
    /\ turnover = 0
    /\ fills = 0

ApplyFill(qty, price, side) ==
    /\ fills < MaxFills
    /\ position' = on_fill([s \in Symbols |-> position], row.order.symbol, qty, price,
                           side)[row.order.symbol]
    /\ row' = FilledRow(row, qty, price, "PARTIALLY_FILLED")
    /\ cash' = cash - signed_fill(side, qty) * price
    /\ turnover' = turnover + qty * price
    /\ fills' = fills + 1

AccountNext ==
    \E qty \in Quantities, price \in Prices, side \in Sides : ApplyFill(qty, price, side)

AccountSpec == AccountInit /\ [][AccountNext]_accountVars

------------------------------------------------------------------------------
\* Realised profit is what the fills brought in, once the open position is
\* valued at its entry price: every path through on_fill (open, add, reduce,
\* flip, go flat) splits the cash correctly between rPnL and avgPrice.
ProfitIdentity ==
    RatEq(position.rPnL, RatAdd(Rat(cash), RatScale(position.quantity, position.avgPrice)))

\* The running average the UPDATE statement keeps in avg_fill_price is the
\* volume-weighted price of all the fills of the order.
StoreAverageIsVolumeWeighted ==
    RatEq(RatScale(row.filled_quantity, row.avg_fill_price), Rat(turnover))

\* The entry price of an open position lies between the lowest and the highest
\* price of a fill, however often the position was reduced or flipped, and a
\* flat position has none.
EntryPriceIsAttainable ==
    IF position.quantity = 0
    THEN RatEq(position.avgPrice, Rat(0))
    ELSE \E low, high \in Prices :
             /\ ~RatLess(position.avgPrice, Rat(low))
             /\ ~RatLess(Rat(high), position.avgPrice)
==============================================================================
