----------------------------- MODULE BaseAdapter -----------------------------
(***************************************************************************)
(* The Python adapter process, as far as BaseAdapter fixes it: which       *)
(* strategy an order belongs to, and one StreamFills handler per stream    *)
(* the engine has opened, each with a queue of its own, of which           *)
(* _fill_queues holds the latest registered.  One strategy.                *)
(*                                                                         *)
(* Streams are numbered in the order the engine opens them.  Only the      *)
(* queue of the stream the engine reads is modelled: what is put into      *)
(* another one is never read.                                              *)
(***************************************************************************)
EXTENDS Naturals, Sequences

CONSTANT MaxStreams  \* bound: how many streams the engine opens

ASSUME StreamsAssumption == MaxStreams \in Nat

Streams == 1 .. MaxStreams

NoStream == 0

VARIABLES
    order_routing,  \* the broker ids that lead to the strategy
    handler,        \* per stream, where its StreamFills handler is
    fill_queues,    \* the stream whose queue is registered, or NoStream
    fill_queue,     \* the queue of the stream the engine reads
    displaced       \* a handler has replaced or removed the queue of a later stream

adapterVars == <<order_routing, handler, fill_queues, fill_queue, displaced>>

AdapterInit ==
    /\ order_routing = {}
    /\ handler = [n \in Streams |-> "unused"]
    /\ fill_queues = NoStream
    /\ fill_queue = <<>>
    /\ displaced = FALSE

\* The tail of SubmitOrder, and of ReplaceOrder, which forgets the old id.
Route(old, new) ==
    /\ order_routing' = (order_routing \ old) \cup {new}
    /\ UNCHANGED <<handler, fill_queues, fill_queue, displaced>>

\* Faulty: the queue of an earlier stream stays registered.
RegisterQueue_Once(n) == IF fill_queues = NoStream THEN n ELSE fill_queues

RegisterQueue(n) == n

\* The head of StreamFills.
StreamFills(n) ==
    /\ handler[n] = "requested"
    /\ handler' = [handler EXCEPT ![n] = "active"]
    /\ fill_queues' = RegisterQueue(n)
    /\ displaced' = (displaced \/ fill_queues > n)
    /\ UNCHANGED <<order_routing, fill_queue>>

\* The finally clause: the context of the stream is no longer active.
CloseStream(n) ==
    /\ handler[n] = "active"
    /\ handler' = [handler EXCEPT ![n] = "closed"]
    /\ fill_queues' = NoStream
    /\ displaced' = (displaced \/ fill_queues > n)
    /\ UNCHANGED <<order_routing, fill_queue>>

\* A report of the venue about broker_id, while the engine reads `connection'.
Routed(broker_id, connection) ==
    broker_id \in order_routing /\ fill_queues = connection /\ connection # NoStream

PutReport(broker_id, connection, r) ==
    /\ fill_queue' = IF Routed(broker_id, connection) THEN Append(fill_queue, r)
                                                      ELSE fill_queue
    /\ UNCHANGED <<order_routing, handler, fill_queues, displaced>>
==============================================================================
