------------------------------ MODULE TaskPool ------------------------------
(***************************************************************************)
(* What a user of DarkFlow is promised, without threads or counters:       *)
(* accepted tasks wait in their queue in the order of acceptance, they are *)
(* taken from the front, at most Width[q] of a queue and PoolWidth         *)
(* altogether are taken and unfinished, and a taken task is finished or    *)
(* dropped once.  QueuedExecutor implements this for as many threads as    *)
(* there are (PoolWidth is their number), TaskDispatcher for its           *)
(* _maxConcurrency.                                                        *)
(*                                                                         *)
(* That accepted tasks are eventually finished is not part of it: the      *)
(* code does not keep that promise (see TaskDispatcher).                   *)
(***************************************************************************)
EXTENDS Integers, Sequences, FiniteSets

CONSTANTS
    Queues,     \* the queues
    Tasks,      \* the tasks
    Home,       \* the queue of a task
    Width,      \* how many tasks of a queue may be taken and unfinished
    PoolWidth   \* how many tasks may be taken and unfinished

VARIABLES
    waiting,    \* the tasks of each queue, the oldest first
    taken,      \* the tasks that were taken and are not finished
    finished,   \* the tasks that were executed
    dropped     \* the tasks that were taken and will never be executed

poolVars == <<waiting, taken, finished, dropped>>

TakenFrom(q) == {e \in taken : Home[e] = q}

Init ==
    /\ waiting = [q \in Queues |-> <<>>]
    /\ taken = {}
    /\ finished = {}
    /\ dropped = {}

\* A task is accepted once: it does not wait, run or end elsewhere.
Accept(e) ==
    /\ e \notin taken \cup finished \cup dropped
    /\ \A q \in Queues : \A i \in DOMAIN waiting[q] : waiting[q][i] # e
    /\ waiting' = [waiting EXCEPT ![Home[e]] = Append(@, e)]
    /\ UNCHANGED <<taken, finished, dropped>>

TakeFrom(q) ==
    /\ waiting[q] # <<>>
    /\ Cardinality(taken) < PoolWidth
    /\ Cardinality(TakenFrom(q)) < Width[q]
    /\ taken' = taken \cup {Head(waiting[q])}
    /\ waiting' = [waiting EXCEPT ![q] = Tail(@)]
    /\ UNCHANGED <<finished, dropped>>

Finish(e) ==
    /\ e \in taken
    /\ taken' = taken \ {e}
    /\ finished' = finished \cup {e}
    /\ UNCHANGED <<waiting, dropped>>

Drop(e) ==
    /\ e \in taken
    /\ taken' = taken \ {e}
    /\ dropped' = dropped \cup {e}
    /\ UNCHANGED <<waiting, finished>>

Next ==
    \/ \E e \in Tasks : Accept(e) \/ Finish(e) \/ Drop(e)
    \/ \E q \in Queues : TakeFrom(q)

Spec == Init /\ [][Next]_poolVars
=============================================================================
