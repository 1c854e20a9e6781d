---------------------------- MODULE MCMonitoring ----------------------------
(* Two threads that count two durations under two names, twice each.       *)
EXTENDS Monitoring

CONSTANTS t1, t2, x, y

MCThreads == {t1, t2}
MCNames == {x, y}
MCItems == MCNames \X MCThreads
MCKey == [i \in MCItems |-> i[1]]
MCCells == {Counters}
MCDurations == {1, 2}
=============================================================================
