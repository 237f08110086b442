---------------------------- MODULE EventStreams -----------------------------
(***************************************************************************)
(* One order manager between its producers and its streams: the EventQueue *)
(* with its limit on market data, the dispatch thread, which writes to the *)
(* clients' gRPC streams itself, and the server threads that hold the      *)
(* streams open.  Bars take the path of ticks.                             *)
(*                                                                         *)
(* Write blocks once the client has left Window events unread, and fails   *)
(* once the call is cancelled (external: gRPC's flow control).             *)
(***************************************************************************)
EXTENDS Integers, Sequences

CONSTANTS TickStreams, FillStreams,  \* calls of StreamMarketData and StreamFills
          NoStream,
          MAX_MARKETDATA_QUEUE_DEPTH,
          Window,     \* events a client may leave unread
          MaxEvents   \* bound: events the producers offer

ASSUME EventStreamsAssumption ==
    /\ TickStreams \cap FillStreams = {}
    /\ NoStream \notin TickStreams \cup FillStreams
    /\ MAX_MARKETDATA_QUEUE_DEPTH \in Nat /\ Window \in Nat /\ MaxEvents \in Nat

VARIABLES
    q_,
    total_pushed_, total_processed_, total_dropped_,
    in_hand,   \* what the dispatch thread does: an event and how far it is
    sinks,     \* per kind of event, the stream whose sink is installed
    calls,     \* per stream: its server thread and its client
    caller,    \* a client of SubmitSignal
    idler      \* a thread in wait_idle

queueVars == <<q_, total_pushed_, total_dropped_>>
streamVars == <<queueVars, total_processed_, in_hand, sinks, calls, caller, idler>>

StreamCalls == TickStreams \cup FillStreams
KindOf(s) == IF s \in TickStreams THEN "tick" ELSE "report"

Resting == [event |-> "none", pc |-> "popping"]

\* A call no event has been written to: `active' of its sink, and its client.
Call(pc) == [pc |-> pc, active |-> TRUE, cancelled |-> FALSE, reading |-> TRUE, unread |-> 0]

StreamsInit ==
    /\ q_ = <<>>
    /\ total_pushed_ = 0 /\ total_processed_ = 0 /\ total_dropped_ = 0
    /\ in_hand = Resting
    /\ sinks = [k \in {"tick", "report"} |-> NoStream]
    /\ calls = [s \in StreamCalls |-> Call("off")]
    /\ caller = "free"
    /\ idler = "off"

------------------------------------------------------------------------------
\* EventQueue and OrderManager::enqueue.

push(event) ==
    /\ q_' = Append(q_, event)
    /\ total_pushed_' = total_pushed_ + 1
    /\ UNCHANGED total_dropped_

try_push(event, max_depth) ==
    IF Len(q_) >= max_depth
    THEN total_dropped_' = total_dropped_ + 1 /\ UNCHANGED <<q_, total_pushed_>>
    ELSE push(event)

\* Faulty: the limit applies to every event.
enqueue_Limited(event) == try_push(event, MAX_MARKETDATA_QUEUE_DEPTH)

enqueue(event) ==
    IF event = "tick" THEN try_push(event, MAX_MARKETDATA_QUEUE_DEPTH) ELSE push(event)

Offered == total_pushed_ + total_dropped_ < MaxEvents

\* The feed's thread and the gateway's.
Produce(event) ==
    /\ Offered
    /\ enqueue(event)
    /\ UNCHANGED <<total_processed_, in_hand, sinks, calls, caller, idler>>

\* process_signal: the client waits for the command's promise.
process_signal ==
    /\ Offered
    /\ caller = "free"
    /\ enqueue("command")
    /\ caller' = "waiting"
    /\ UNCHANGED <<total_processed_, in_hand, sinks, calls, idler>>

wait_idle ==
    /\ idler = "off"
    /\ idler' = "waiting"
    /\ UNCHANGED <<queueVars, total_processed_, in_hand, sinks, calls, caller>>

\* Its predicate can become true in mark_processed only, which notifies it.
ReturnIdle ==
    /\ idler = "waiting"
    /\ total_processed_ = total_pushed_
    /\ idler' = "off"
    /\ UNCHANGED <<queueVars, total_processed_, in_hand, sinks, calls, caller>>

------------------------------------------------------------------------------
\* The dispatch thread.

pop ==
    /\ in_hand = Resting
    /\ q_ # <<>>
    /\ in_hand' = [event |-> Head(q_), pc |-> "handling"]
    /\ q_' = Tail(q_)
    /\ UNCHANGED <<total_pushed_, total_dropped_, total_processed_, sinks, calls, caller, idler>>

mark_processed ==
    /\ in_hand' = Resting
    /\ total_processed_' = total_processed_ + 1
    /\ UNCHANGED <<queueVars, sinks, idler>>

HandleCommand ==
    /\ in_hand = [event |-> "command", pc |-> "handling"]
    /\ caller' = "free"
    /\ mark_processed
    /\ UNCHANGED calls

\* The stream whose sink the event in hand goes to.
Target == sinks[in_hand.event]

Served == Target # NoStream /\ calls[Target].active

\* handle_tick, handle_bar and the end of handle_fill: the sink is called with
\* its mutex held.
NoSink ==
    /\ in_hand.pc = "handling" /\ in_hand.event # "command"
    /\ ~Served
    /\ mark_processed
    /\ UNCHANGED <<calls, caller>>

CallSink ==
    /\ in_hand.pc = "handling" /\ in_hand.event # "command"
    /\ Served
    /\ in_hand' = [in_hand EXCEPT !.pc = "writing"]
    /\ UNCHANGED <<queueVars, total_processed_, sinks, calls, caller, idler>>

\* writer->Write returns false: the sink serves no more events.
WriteFails ==
    /\ in_hand.pc = "writing"
    /\ calls[Target].cancelled
    /\ calls' = [calls EXCEPT ![Target].active = FALSE]
    /\ mark_processed
    /\ UNCHANGED caller

WriteSucceeds ==
    /\ in_hand.pc = "writing"
    /\ ~calls[Target].cancelled
    /\ calls[Target].unread < Window
    /\ calls' = [calls EXCEPT ![Target].unread = @ + 1]
    /\ mark_processed
    /\ UNCHANGED caller

DispatchEvents == pop \/ HandleCommand \/ NoSink \/ CallSink \/ WriteFails \/ WriteSucceeds

------------------------------------------------------------------------------
\* The server threads, and the clients.

\* md_sink_mu_ or fill_sink_mu_ is held by the dispatch thread.
SinkLocked(s) == in_hand.pc = "writing" /\ in_hand.event = KindOf(s)

BeginStream(s) ==
    /\ calls[s].pc = "off"
    /\ ~SinkLocked(s)
    /\ calls' = [calls EXCEPT ![s] = Call("open")]
    /\ sinks' = [sinks EXCEPT ![KindOf(s)] = s]
    /\ UNCHANGED <<queueVars, total_processed_, in_hand, caller, idler>>

\* The polling loop ends when the call is cancelled or a Write has failed.
LeaveStream(s) ==
    /\ calls[s].pc = "open"
    /\ calls[s].cancelled \/ ~calls[s].active
    /\ calls' = [calls EXCEPT ![s].pc = "clearing"]
    /\ UNCHANGED <<queueVars, total_processed_, in_hand, sinks, caller, idler>>

\* Whatever sink is installed is cleared, the stream's own or a newer one.
ClearStream(s) ==
    /\ calls[s].pc = "clearing"
    /\ ~SinkLocked(s)
    /\ calls' = [calls EXCEPT ![s] = Call("returned")]
    /\ sinks' = [sinks EXCEPT ![KindOf(s)] = NoStream]
    /\ UNCHANGED <<queueVars, total_processed_, in_hand, caller, idler>>

Client(s, call) ==
    /\ calls[s].pc \in {"open", "clearing"}
    /\ calls' = [calls EXCEPT ![s] = call]
    /\ UNCHANGED <<queueVars, total_processed_, in_hand, sinks, caller, idler>>

ReadStream(s) ==
    /\ calls[s].reading
    /\ calls[s].unread > 0
    /\ Client(s, [calls[s] EXCEPT !.unread = @ - 1])

StopsReading(s) == calls[s].reading /\ Client(s, [calls[s] EXCEPT !.reading = FALSE])

Cancels(s) == ~calls[s].cancelled /\ Client(s, [calls[s] EXCEPT !.cancelled = TRUE])

ServerThread(s) == BeginStream(s) \/ LeaveStream(s) \/ ClearStream(s)

StreamsNext ==
    \/ \E event \in {"tick", "report"} : Produce(event)
    \/ process_signal
    \/ wait_idle
    \/ ReturnIdle
    \/ DispatchEvents
    \/ \E s \in StreamCalls :
          ServerThread(s) \/ ReadStream(s) \/ StopsReading(s) \/ Cancels(s)

\* Threads run, and a client that has not stopped reading reads. Nothing is
\* assumed of the producers, of new calls, or of clients that stop or cancel.
StreamsFairness ==
    /\ WF_streamVars(DispatchEvents)
    /\ \A s \in StreamCalls :
          /\ WF_streamVars(ReadStream(s))
          /\ WF_streamVars(LeaveStream(s) \/ ClearStream(s))

------------------------------------------------------------------------------
\* The dispatch thread is in a Write that a client neither reads nor cancels.
BlockedByClient ==
    /\ in_hand.pc = "writing"
    /\ calls[Target].unread = Window
    /\ ~calls[Target].reading
    /\ ~calls[Target].cancelled

\* A command is answered and a cancelled stream gives its server thread back,
\* however much market data there is and whatever the other streams do; the only
\* thing that can hold them up is a client that stops reading its own stream
\* without cancelling it.
OnlyUnreadStreamsBlock ==
    /\ (caller = "waiting") ~> (caller = "free" \/ BlockedByClient)
    /\ \A s \in StreamCalls :
          (calls[s].pc = "open" /\ calls[s].cancelled)
              ~> (calls[s].pc = "returned" \/ BlockedByClient)
==============================================================================
