----------------------------- MODULE AdapterFeed -----------------------------
(***************************************************************************)
(* GrpcMarketDataFeed: subscriptions are buffered in subscriptions_ and    *)
(* sent when the stream is opened; the stream thread reads subscriptions_  *)
(* without a lock.                                                         *)
(***************************************************************************)
EXTENDS StreamThread

CONSTANT None  \* no period: a subscription to ticks

VARIABLES
    subscriptions_,  \* periods asked for, per symbol in its domain
    stream,          \* the stream thread
    requested,       \* the subscriptions the open stream was opened with
    torn             \* subscriptions_ was changed while the stream thread read it

adapterFeedVars == <<subscriptions_, stream, requested, torn>>

AdapterFeedInit ==
    /\ subscriptions_ = <<>>
    /\ stream = [start EXCEPT !.pc = "exited"]
    /\ requested = <<>>
    /\ torn = FALSE

Periods_Of(subs, symbol) == IF symbol \in DOMAIN subs THEN subs[symbol] ELSE {}

\* subscribe(): one entry per symbol with the periods asked for; a subscription
\* to ticks only makes sure the entry exists.
AdapterSubscribe(symbol, period) ==
    /\ subscriptions_' = [s \in DOMAIN subscriptions_ \cup {symbol} |->
           IF s = symbol THEN Periods_Of(subscriptions_, s) \cup ({period} \ {None})
           ELSE subscriptions_[s]]
    /\ torn' = (torn \/ stream.pc = "opening")
    /\ UNCHANGED <<stream, requested>>

Start == stream' = start /\ UNCHANGED <<subscriptions_, requested, torn>>

Stop == stream' = stop(stream) /\ UNCHANGED <<subscriptions_, requested, torn>>

\* What a request holds that was copied while subscriptions_ changed.
TornRequests ==
    UNION {{r \in [S -> SUBSET UNION {subscriptions_[s] : s \in S}] :
               \A s \in S : r[s] \subseteq subscriptions_[s]} :
           S \in SUBSET DOMAIN subscriptions_}

Requests == IF torn THEN TornRequests ELSE {subscriptions_}

\* Faulty: a reconnection repeats the first request.
OpenWith_Once(request) ==
    /\ stream.pc = "opening"
    /\ stream' = OpenStream(stream)
    /\ requested' = IF requested = <<>> THEN request ELSE requested
    /\ UNCHANGED <<subscriptions_, torn>>

OpenWith(request) ==
    /\ stream.pc = "opening"
    /\ stream' = OpenStream(stream)
    /\ requested' = request
    /\ UNCHANGED <<subscriptions_, torn>>

run_stream ==
    \/ /\ stream.pc = "testing"
       /\ stream' = TestStop(stream)
       /\ UNCHANGED <<subscriptions_, requested, torn>>
    \/ /\ stream.pc = "creating"
       /\ stream' = CreateContext(stream)
       /\ UNCHANGED <<subscriptions_, requested, torn>>
    \/ \E request \in Requests : OpenWith(request)
    \/ /\ stream.pc = "reading" /\ stream.ctx = "cancelled"
       /\ stream' = EndStream(stream)
       /\ UNCHANGED <<subscriptions_, requested, torn>>
    \/ /\ stream.pc = "sleeping"
       /\ stream' = WakeUp(stream)
       /\ UNCHANGED <<subscriptions_, requested, torn>>

\* The connection breaks or the adapter ends the stream.
LinkBreaks ==
    /\ stream.pc = "reading" /\ stream.ctx = "live"
    /\ stream' = EndStream(stream)
    /\ UNCHANGED <<subscriptions_, requested, torn>>
==============================================================================
