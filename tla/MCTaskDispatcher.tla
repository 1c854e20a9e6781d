-------------------------- MODULE MCTaskDispatcher --------------------------
(* TaskDispatcher with two threads that call Execute, one of which also    *)
(* disposes, and two executors: a serial one, and one of lower priority    *)
(* that runs two tasks at a time.                                          *)
EXTENDS TaskDispatcher, TLC

CONSTANTS p1, p2, w1, w2, w3, serial, pair, e1, e2, e3

MCProducers == {p1, p2}
MCWorkers == {w1, w2, w3}
MCClosers == {p2}
MCThreads == MCProducers \cup MCWorkers
MCQueues == {serial, pair}
MCEnvelopes == {e1, e2, e3}
MCHome == e1 :> serial @@ e2 :> serial @@ e3 :> pair
MCMaxConcurrency == serial :> 1 @@ pair :> 2
MCPriority == serial :> 5 @@ pair :> 1
MCPosition == serial :> 1 @@ pair :> 0
MCFaults == {"release", "delete"} \X MCEnvelopes
=============================================================================
