----------------------------- MODULE OrderStore ------------------------------
(***************************************************************************)
(* The orders table of SQLiteOrderStore: one row per local id (the primary *)
(* key), with a broker id that is UNIQUE among the rows that have one.     *)
(*                                                                         *)
(* Each statement is an operator from the table to the table after it.     *)
(* A statement that SQLite refuses, or that fails to prepare or to step,   *)
(* leaves the table as it is and returns an error: the callers decide      *)
(* that, with CanStore, CanSetBroker and the faults of OrderManager.       *)
(***************************************************************************)
EXTENDS OrderIds, Rationals

CONSTANTS Symbols,
          Sides,       \* the sides strategies trade
          Quantities,  \* the quantities they order
          Prices       \* the prices of fills (0: the gateway gave none)

ASSUME SignalAssumption ==
    /\ Sides \subseteq {"BUY", "SELL"}
    /\ Quantities \subseteq Nat
    /\ Prices \subseteq Nat

\* The fields of v1::Order that vary: every order is MARKET, DAY, same account.
Signals == [symbol : Symbols, side : Sides, quantity : Quantities]

\* What a fill of one of these orders may amount to.
FillQuantity == UNION {0 .. q : q \in Quantities}

\* ACCEPTED and EXPIRED exist in the enumeration; no code assigns them.
OrderStatus == {"PENDING_SUBMISSION", "SUBMITTED", "ACCEPTED", "PARTIALLY_FILLED",
                "FILLED", "CANCELLED", "REPLACED", "REJECTED", "EXPIRED"}

OpenStatus == {"PENDING_SUBMISSION", "SUBMITTED", "ACCEPTED", "PARTIALLY_FILLED"}

StoredOrder == [order           : Signals,
                status          : OrderStatus,
                broker_id       : BrokerIds \cup {None},
                filled_quantity : Nat,
                avg_fill_price  : Rational]

ASSUME NoneIsNotARow == None \notin StoredOrder

Table == [LocalIds -> StoredOrder \cup {None}]

EmptyTable == [l \in LocalIds |-> None]

Stored(table) == {l \in LocalIds : table[l] # None}

NewRow(order, status, broker_id) ==
    [order |-> order, status |-> status, broker_id |-> broker_id,
     filled_quantity |-> 0, avg_fill_price |-> Rat(0)]

\* No other row has the broker id (the UNIQUE constraint; NULLs are distinct).
BrokerIdFree(table, local_id, broker_id) ==
    broker_id # None =>
        \A l \in Stored(table) \ {local_id} : table[l].broker_id # broker_id

CanStore(table, local_id, row) ==
    table[local_id] = None /\ BrokerIdFree(table, local_id, row.broker_id)

store_order(table, local_id, row) == [table EXCEPT ![local_id] = row]

\* An UPDATE whose WHERE matches no row changes nothing and succeeds.
update_order_statuses(table, local_ids, new_status) ==
    [l \in LocalIds |-> IF l \in local_ids /\ table[l] # None
                        THEN [table[l] EXCEPT !.status = new_status]
                        ELSE table[l]]

update_order_status(table, local_id, new_status) ==
    update_order_statuses(table, {local_id}, new_status)

\* Faulty: the broker id is not written.
update_broker_id_Skipped(table, local_id, broker_id) == table

update_broker_id(table, local_id, broker_id) ==
    [l \in LocalIds |-> IF l = local_id /\ table[l] # None
                        THEN [table[l] EXCEPT !.broker_id = broker_id]
                        ELSE table[l]]

\* Faulty: the mean of the two prices, whatever the quantities.
AvgFillPrice_Unweighted(row, filled_quantity, avg_price) ==
    IF row.filled_quantity = 0
    THEN Rat(avg_price)
    ELSE RatDiv(RatAdd(row.avg_fill_price, Rat(avg_price)), 2)

\* Volume-weighted price of the fills applied so far.
AvgFillPrice(row, filled_quantity, avg_price) ==
    IF row.filled_quantity = 0
    THEN Rat(avg_price)
    ELSE RatDiv(RatAdd(RatScale(row.filled_quantity, row.avg_fill_price),
                       Rat(avg_price * filled_quantity)),
                row.filled_quantity + filled_quantity)

\* Faulty: the last fill replaces what was filled before.
FilledRow_Overwritten(row, filled_quantity, avg_price, new_status) ==
    [row EXCEPT !.avg_fill_price = AvgFillPrice(row, filled_quantity, avg_price),
                !.filled_quantity = filled_quantity,
                !.status = new_status]

FilledRow(row, filled_quantity, avg_price, new_status) ==
    [row EXCEPT !.avg_fill_price = AvgFillPrice(row, filled_quantity, avg_price),
                !.filled_quantity = row.filled_quantity + filled_quantity,
                !.status = new_status]

apply_fill(table, local_id, filled_quantity, avg_price, new_status) ==
    [l \in LocalIds |-> IF l = local_id /\ table[l] # None
                        THEN FilledRow(table[l], filled_quantity, avg_price, new_status)
                        ELSE table[l]]

\* Faulty: a partially filled order does not count as open.
get_open_orders_Unfilled(table) ==
    {l \in Stored(table) : table[l].status \in OpenStatus \ {"PARTIALLY_FILLED"}}

\* Faulty: only a cancelled order does not count as open.
get_open_orders_NotCancelled(table) ==
    {l \in Stored(table) : table[l].status # "CANCELLED"}

get_open_orders(table) == {l \in Stored(table) : table[l].status \in OpenStatus}
==============================================================================
