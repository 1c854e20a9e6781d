------------------------------- MODULE MCHang -------------------------------
(* TaskDispatcher with two threads that call Execute on one serial         *)
(* executor, and a pool of one worker at a time: the smallest instance     *)
(* that shows a task left in its queue.                                    *)
EXTENDS TaskDispatcher, TLC

CONSTANTS p1, p2, w1, w2, serial, e1, e2

MCProducers == {p1, p2}
MCWorkers == {w1, w2}
MCThreads == MCProducers \cup MCWorkers
MCQueues == {serial}
MCEnvelopes == {e1, e2}
MCHome == e1 :> serial @@ e2 :> serial
MCMaxConcurrency == serial :> 1
MCPriority == serial :> 5
MCPosition == serial :> 0
=============================================================================
