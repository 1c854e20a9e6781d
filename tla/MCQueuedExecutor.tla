-------------------------- MODULE MCQueuedExecutor --------------------------
(* QueuedExecutor with three callers, an executor that runs its tasks      *)
(* serially and one that runs two at a time.                               *)
EXTENDS QueuedExecutor, TLC

CONSTANTS t1, t2, t3, serial, pair, e1, e2, e3

MCThreads == {t1, t2, t3}
MCQueues == {serial, pair}
MCEnvelopes == {e1, e2, e3}
MCHome == e1 :> serial @@ e2 :> serial @@ e3 :> pair
MCMaxConcurrency == serial :> 1 @@ pair :> 2

\* Each call fails for one envelope, and succeeds for another.
MCFaults == {<<"persist", e1>>, <<"delete", e1>>, <<"release", e3>>}
MCSymmetry == Permutations(MCThreads)
=============================================================================
