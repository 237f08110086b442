----------------------------- MODULE GrpcGateway -----------------------------
(***************************************************************************)
(* GrpcGateway: the thread that reads the fill stream, reconnects, and     *)
(* drops the executions it has already seen, while the gateway runs.  The  *)
(* unary calls are made by the dispatch thread: see AdapterTrading.        *)
(***************************************************************************)
EXTENDS StreamThread, BaseAdapter

CONSTANTS kMaxSeenIds,  \* how many execution ids are remembered
          NoId          \* the empty execution id

ASSUME SeenAssumption == kMaxSeenIds \in Nat \ {0} /\ NoId \notin Nat

VARIABLES
    stream,         \* the stream thread
    connection,     \* the stream it reads, or NoStream
    seen_id_order_  \* execution ids, oldest first; seen_execution_ids_ is its range

gatewayVars == <<stream, connection, seen_id_order_>>

GatewayInit ==
    /\ stream = start
    /\ connection = NoStream
    /\ seen_id_order_ = <<>>

Seen(id) == \E i \in DOMAIN seen_id_order_ : seen_id_order_[i] = id

\* Faulty: a full window remembers nothing more.
Remember_Full(id) ==
    IF Len(seen_id_order_) >= kMaxSeenIds THEN seen_id_order_ ELSE Append(seen_id_order_, id)

Remember(id) ==
    IF Len(seen_id_order_) >= kMaxSeenIds
    THEN Append(Tail(seen_id_order_), id)
    ELSE Append(seen_id_order_, id)

\* Read() returns the next report of the stream.
Read(r) ==
    /\ stream.pc = "reading"
    /\ fill_queue # <<>>
    /\ r = Head(fill_queue)
    /\ fill_queue' = Tail(fill_queue)
    /\ UNCHANGED <<order_routing, handler, fill_queues, displaced, stream, connection>>

ReadDuplicate(r) == r.id # NoId /\ Seen(r.id) /\ Read(r) /\ UNCHANGED seen_id_order_

ReadNew(r) ==
    /\ Read(r)
    /\ \/ r.id = NoId /\ UNCHANGED seen_id_order_
       \/ r.id # NoId /\ ~Seen(r.id) /\ seen_id_order_' = Remember(r.id)

Open ==
    /\ \E n \in Streams :
          /\ handler[n] = "unused" /\ \A m \in 1 .. n - 1 : handler[m] # "unused"
          /\ handler' = [handler EXCEPT ![n] = "requested"]
          /\ connection' = n
    /\ stream' = OpenStream(CreateContext(stream))
    /\ UNCHANGED <<order_routing, fill_queues, fill_queue, displaced, seen_id_order_>>

\* Read() fails, by no act of the engine, and Finish() is called: what was on its
\* way is lost.
Disconnect ==
    /\ stream.pc = "reading"
    /\ stream' = EndStream(stream)
    /\ connection' = NoStream
    /\ fill_queue' = <<>>
    /\ UNCHANGED <<order_routing, handler, fill_queues, displaced, seen_id_order_>>

\* Waking up, the test of the stop token, the new context and the call are one
\* step: FeedRegistry takes the same loop apart, with the stop in between.
run_fill_stream == stream.pc \in {"testing", "sleeping"} /\ ~stream.stop /\ Open
==============================================================================
