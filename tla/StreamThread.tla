---------------------------- MODULE StreamThread -----------------------------
(***************************************************************************)
(* The thread that keeps a server stream of the adapter open, in the same  *)
(* words in GrpcGateway::run_fill_stream and GrpcMarketDataFeed::run_stream*)
(* : test the stop token, make a new context, open the stream, read until  *)
(* it ends, sleep two seconds, start again.  stop() requests the stop,     *)
(* cancels the context of the moment and wakes the sleep; it does not      *)
(* join.  A thread is a record; missed is history.                         *)
(***************************************************************************)

StreamPc == {"testing", "creating", "opening", "reading", "sleeping", "exited"}

StreamThread == [pc : StreamPc, ctx : {"none", "live", "cancelled"}, stop : BOOLEAN,
                 missed : BOOLEAN]

start == [pc |-> "testing", ctx |-> "none", stop |-> FALSE, missed |-> FALSE]

exit(th) == [th EXCEPT !.pc = "exited", !.ctx = "none"]

TestStop(th) == IF th.stop THEN exit(th) ELSE [th EXCEPT !.pc = "creating"]

CreateContext(th) == [th EXCEPT !.pc = "opening", !.ctx = "live"]

OpenStream(th) == [th EXCEPT !.pc = "reading"]

\* Read() returned FALSE and Finish() was called.
EndStream(th) == IF th.stop THEN exit(th) ELSE [th EXCEPT !.pc = "sleeping"]

\* Two seconds have passed or the stop was requested.
WakeUp(th) == [th EXCEPT !.pc = "testing"]

\* Faulty: the context is not cancelled.
stop_Uncancelled(th) == [th EXCEPT !.stop = TRUE, !.missed = (th.pc = "creating")]

\* missed: the stop came after the test of the stop token and before the new
\* context, and cancelled nothing that the thread will read from.
stop(th) == [th EXCEPT !.stop = TRUE,
                       !.ctx = IF th.ctx = "live" THEN "cancelled" ELSE th.ctx,
                       !.missed = (th.pc = "creating")]
==============================================================================
