--------------------------- MODULE MCPaperTrading ----------------------------
(***************************************************************************)
(* PaperTrading on small instances, for TLC.                               *)
(***************************************************************************)
EXTENDS PaperTrading, TLC

\* Without the destruction of the order manager, and so without the waits of the
\* gateway's dispatcher, which only matter to its stop: a dispatcher that has
\* nothing to do stays where it is until a report is queued.
TradingSpec ==
    PaperInit /\ [][PaperNext /\ phase' = "running" /\ dispatcher' = "checking"]_vars

Symmetry == Permutations(Clients)
==============================================================================
