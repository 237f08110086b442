--------------------------- MODULE MCOrderManager ----------------------------
(***************************************************************************)
(* The order manager against any gateway, for TLC: `reported' counts the   *)
(* gateway's reports so that MaxReports can bound them.  Destruction is    *)
(* left to the runs of PaperTrading.                                       *)
(***************************************************************************)
EXTENDS OrderManager, TLC

CONSTANT MaxReports  \* bound: reports the gateway sends

VARIABLE reported

mcVars == <<omVars, reported>>

MCInit == Init /\ reported = 0

\* The handler reads nothing but the status of a report that ends an order.
DistinctReports ==
    {r \in Reports : (r.status = "NONE") = (r.filled_quantity > 0)}

MCNext ==
    \/ /\ reported < MaxReports
       /\ \E r \in DistinctReports : GatewayReport(r)
       /\ reported' = reported + 1
    \/ (ClientStep \/ run_dispatch_loop) /\ UNCHANGED reported

MCSpec == MCInit /\ [][MCNext]_mcVars
==============================================================================
