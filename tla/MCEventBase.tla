---------------------------- MODULE MCEventBase ----------------------------
(* Instances of EventBase for TLC: what the client threads may call. *)
EXTENDS EventBase, TLC

run == RunCall("work", FALSE)
runDeferred == RunCall("work", TRUE)
wait == WaitCall("work", FALSE)
waitDeferred == WaitCall("work", TRUE)

\* Calls of every kind, and operations that call the base from the loop.
AnyScripts == {<<run, StopCall>>, <<wait, RunCall("redefer", TRUE)>>,
               <<RunCall("callStop", TRUE), waitDeferred>>}

\* A deferred runOnEventLoopAndWait to "synchronize with startup of another
\* loop thread" (wte/event_base.h), then stop(); next to ordinary submissions.
HandshakeScripts == {<<waitDeferred, StopCall>>, <<run, wait>>}

\* stop() and nothing else.
StopScripts == {<<StopCall>>}

Symmetry == Permutations(Clients)
=============================================================================
