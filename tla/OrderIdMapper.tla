---------------------------- MODULE OrderIdMapper ----------------------------
(***************************************************************************)
(* The two hash maps between the engine's order ids and the broker's, as   *)
(* total functions: None marks a key that the map does not hold.           *)
(***************************************************************************)
EXTENDS OrderIds

Mapper == [local_to_broker_ : [LocalIds -> BrokerIds \cup {None}],
           broker_to_local_ : [BrokerIds -> LocalIds \cup {None}]]

EmptyMapper == [local_to_broker_ |-> [l \in LocalIds |-> None],
                broker_to_local_ |-> [b \in BrokerIds |-> None]]

add_mapping(m, local, broker) ==
    [local_to_broker_ |-> [m.local_to_broker_ EXCEPT ![local] = broker],
     broker_to_local_ |-> [m.broker_to_local_ EXCEPT ![broker] = local]]

\* Faulty: the reverse entry is forgotten.
remove_mappings_OneWay(m, locals) ==
    [m EXCEPT !.local_to_broker_ = [l \in LocalIds |-> IF l \in locals THEN None ELSE @[l]]]

\* Remove the mappings of a set of local ids, one remove_mapping after the other.
remove_mappings(m, locals) ==
    LET gone == {m.local_to_broker_[l] : l \in locals}
    IN  [local_to_broker_ |->
            [l \in LocalIds |-> IF l \in locals THEN None ELSE m.local_to_broker_[l]],
         broker_to_local_ |->
            [b \in BrokerIds |-> IF b \in gone THEN None ELSE m.broker_to_local_[b]]]

\* Faulty: the order stays mapped.
remove_mapping_Skipped(m, local) == m

remove_mapping(m, local) == remove_mappings(m, {local})

get_broker_id(m, local) == m.local_to_broker_[local]
get_local_id(m, broker) == m.broker_to_local_[broker]
==============================================================================
