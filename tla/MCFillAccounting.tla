-------------------------- MODULE MCFillAccounting ---------------------------
(***************************************************************************)
(* The arithmetic of positions, for TLC: the fills of FillAccounting, the  *)
(* answers of PositionQueries and the conversion of AlpacaGateway.  The    *)
(* three share nothing, so a behaviour exercises one of them.              *)
(***************************************************************************)
EXTENDS PositionQueries, AlpacaGateway

MCInit == AccountInit /\ QueryInit /\ AlpacaInit

MCNext ==
    \/ /\ QueryInit /\ AlpacaInit
       /\ AccountNext
       /\ UNCHANGED <<queryVars, alpacaVars>>
    \/ /\ AccountInit /\ AlpacaInit
       /\ QueryNext
       /\ UNCHANGED <<accountVars, alpacaVars>>
    \/ /\ AccountInit /\ QueryInit
       /\ AlpacaNext
       /\ UNCHANGED <<accountVars, queryVars>>

MCSpec == MCInit /\ [][MCNext]_<<accountVars, queryVars, alpacaVars>>
==============================================================================
