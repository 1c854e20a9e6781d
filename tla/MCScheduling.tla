---------------------------- MODULE MCScheduling ----------------------------
(* Two threads that use a periodical and a one-time trigger with the same  *)
(* name, one task, and one thread for callbacks; or one thread with one    *)
(* trigger.                                                                *)
EXTENDS Scheduling, TLC

CONSTANTS t1, t2, periodical, once, task, m1, m2, w1

MCThreads == {t1, t2}
MCTriggers == {periodical, once}
MCTasks == {task}
MCItems == MCTriggers \cup MCTasks
MCKey == periodical :> 1 @@ once :> 1 @@ task :> 2
MCCells == {Scheduler} \cup MCTriggers
MCTimers == {m1, m2}
MCWorkers == {w1}
MCOneTime == {once}

OneThread == {t1}
OneTrigger == {periodical}
OneItems == OneTrigger \cup MCTasks
OneCells == {Scheduler} \cup OneTrigger
=============================================================================
