----------------------------- MODULE RiskManager -----------------------------
(***************************************************************************)
(* The pre-trade check of a submission.  A limit of 0 is disabled.         *)
(***************************************************************************)
EXTENDS Rationals

CONSTANTS MaxQuantity,    \* limits_.max_quantity
          MaxOpenOrders,  \* limits_.max_open_orders
          DailyPnlLimit,  \* limits_.daily_pnl_limit
          SizeModulus     \* 2^w for the width w of size_t

ASSUME RiskAssumption ==
    /\ MaxQuantity \in Nat
    /\ MaxOpenOrders \in Nat
    /\ DailyPnlLimit \in Nat
    /\ SizeModulus \in Nat \ {0}

\* The caller passes its int counter as a size_t: a negative count wraps.
ToSizeT(n) == IF n < 0 THEN SizeModulus + n ELSE n

QuantityAllowed(qty) == MaxQuantity = 0 \/ qty <= MaxQuantity

OpenOrdersAllowed(open_order) == MaxOpenOrders = 0 \/ open_order <= MaxOpenOrders

PnlAllowed(pnl) == DailyPnlLimit = 0 \/ ~RatLess(pnl, Rat(-DailyPnlLimit))

\* RiskManager::check returns no error.
check(qty, open_order, pnl) ==
    /\ QuantityAllowed(qty)
    /\ OpenOrdersAllowed(open_order)
    /\ PnlAllowed(pnl)
==============================================================================
