---------------------------- MODULE MCMarketData -----------------------------
(***************************************************************************)
(* The path of market data for TLC: from the feeds to the order managers   *)
(* (FeedRegistry), and from an order manager's queue to the streams        *)
(* (EventStreams).  A behaviour exercises one of the two halves.           *)
(***************************************************************************)
EXTENDS FeedRegistry, EventStreams

\* Two periods that share a symbol's ticks and one that period_to_ns rejects.
MCPeriods == {[amount |-> 2, unit |-> "s"], [amount |-> 3, unit |-> "s"],
              [amount |-> 0, unit |-> "m"]}

MCInit == MarketInit /\ StreamsInit

MCNext ==
    \/ StreamsInit /\ MarketNext /\ UNCHANGED streamVars
    \/ MarketInit /\ StreamsNext /\ UNCHANGED marketVars

MCSpec ==
    /\ MCInit
    /\ [][MCNext]_<<marketVars, streamVars>>
    /\ MarketFairness
    /\ StreamsFairness
==============================================================================
