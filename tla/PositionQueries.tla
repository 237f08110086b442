-------------------------- MODULE PositionQueries ----------------------------
(***************************************************************************)
(* What TradingEngine answers when a client asks for a position: the       *)
(* positions that the order managers hold in one symbol are combined one   *)
(* by one.  managers_ is an unordered_map, so they come in any order.      *)
(*                                                                         *)
(* The realised profit of the answer is left out: GetPosition never sets   *)
(* it and GetAllPositions keeps that of the first manager it meets.        *)
(***************************************************************************)
EXTENDS FillAccounting, Sequences

CONSTANT MaxMet  \* bound: managers that hold the symbol

VARIABLES met,       \* the positions met so far
          one,       \* `combined' of GetPosition
          existing   \* the symbol's entry in `combined' of GetAllPositions

queryVars == <<met, one, existing>>

Holding == [quantity : Int, avgPrice : Rational]

ASSUME NoneIsNotAHolding == None \notin Holding

\* What a manager may hold: nothing, or what one fill gave it.
Holdings ==
    {[quantity |-> pos.quantity, avgPrice |-> pos.avgPrice] :
         pos \in {FlatPosition} \cup {FilledPosition(FlatPosition, q, p, side) :
                                        q \in Quantities, p \in Prices, side \in Sides}}

\* Price of two holdings that do not cancel out, weighted by their quantities.
Weighted(a, b) ==
    RatDiv(RatAdd(RatScale(a.quantity, a.avgPrice), RatScale(b.quantity, b.avgPrice)),
           a.quantity + b.quantity)

\* Faulty: the price of the position met last.
GetPosition_Last(combined, pos) ==
    [quantity |-> combined.quantity + pos.quantity,
     avgPrice |-> IF pos.quantity # 0 THEN pos.avgPrice ELSE combined.avgPrice]

\* One turn of the loop in GetPosition.
GetPosition(combined, pos) ==
    LET new_qty == combined.quantity + pos.quantity
    IN  [quantity |-> new_qty,
         avgPrice |->
             IF new_qty # 0 /\ combined.quantity # 0
             THEN Weighted(combined, pos)
             ELSE IF pos.quantity # 0 THEN pos.avgPrice ELSE combined.avgPrice]

\* One turn of the loop in GetAllPositions: the first position is copied.
GetAllPositions(entry, pos) ==
    IF entry = None
    THEN pos
    ELSE LET new_qty == entry.quantity + pos.quantity
         IN  [quantity |-> new_qty,
              avgPrice |-> IF new_qty # 0 THEN Weighted(entry, pos) ELSE entry.avgPrice]

QueryInit ==
    /\ met = <<>>
    /\ one = [quantity |-> 0, avgPrice |-> Rat(0)]
    /\ existing = None

Meet(pos) ==
    /\ Len(met) < MaxMet
    /\ met' = Append(met, pos)
    /\ one' = GetPosition(one, pos)
    /\ existing' = GetAllPositions(existing, pos)

QueryNext == \E pos \in Holdings : Meet(pos)

QuerySpec == QueryInit /\ [][QueryNext]_queryVars

------------------------------------------------------------------------------
\* What a list of holdings comes to, added up from the first to the last.
NoBook == [quantity |-> 0, value |-> Rat(0)]

Booked(book, pos) ==
    [quantity |-> book.quantity + pos.quantity,
     value    |-> RatAdd(book.value, RatScale(pos.quantity, pos.avgPrice))]

Book(list) ==
    LET book[n \in 0 .. Len(list)] == IF n = 0 THEN NoBook ELSE Booked(book[n - 1], list[n])
    IN  book[Len(list)]

Total(list) == Book(list).quantity
Value(list) == Book(list).value

\* The open positions of the first few managers cancel out exactly.
CancelsOut(list) ==
    \E n \in 1 .. Len(list) :
        Total(SubSeq(list, 1, n)) = 0 /\ \E i \in 1 .. n : list[i].quantity # 0

\* Whatever the order in which managers_ is traversed, GetPosition and
\* GetAllPositions agree on the quantity and, unless it is 0, on the price; and
\* the price is the entry price weighted over all managers, unless the
\* positions met first happen to cancel out.
QueriesAgree ==
    met # <<>> =>
        /\ one.quantity = Total(met)
        /\ existing.quantity = Total(met)
        /\ Total(met) # 0 => RatEq(one.avgPrice, existing.avgPrice)
        /\ ~CancelsOut(met) => RatEq(RatScale(Total(met), one.avgPrice), Value(met))
==============================================================================
