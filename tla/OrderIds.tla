------------------------------- MODULE OrderIds ------------------------------
(***************************************************************************)
(* Order identifiers.  OrderIdGenerator::generate formats a prefix, a      *)
(* timestamp and an atomic counter; the counter alone makes the ids of one *)
(* generator distinct, so an id is modelled by its counter value.  Local   *)
(* ids ("ORD_...") and broker ids never meet in one map or column.         *)
(***************************************************************************)
EXTENDS Integers

CONSTANTS MaxOrders,  \* bound: how many ids each generator hands out
          None        \* std::nullopt, SQL NULL, a missing key or row

ASSUME OrderIdsAssumption ==
    /\ MaxOrders \in Nat
    /\ None \notin Nat

LocalIds  == 0 .. MaxOrders - 1
BrokerIds == 0 .. MaxOrders - 1
==============================================================================
