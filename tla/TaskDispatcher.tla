--------------------------- MODULE TaskDispatcher ---------------------------
(***************************************************************************)
(* DarkFlow/Execution/TaskDispatcher.cs over its QueuedExecutors: TPL      *)
(* tasks (workers) are started on demand, up to _maxConcurrency of them,   *)
(* run envelopes until no queue gives them one, and leave.  A start is     *)
(* attempted by the thread that enqueued, and by the worker that brings    *)
(* _currentConcurrency back to zero.                                       *)
(*                                                                         *)
(* Every thread is in a method of the dispatcher (pc) and, below it, in a  *)
(* method of a QueuedExecutor or of an envelope (step).  An action of this *)
(* module is the action of QueuedExecutor it calls, joined with what the   *)
(* dispatcher does with it, or a step of the dispatcher's own.             *)
(***************************************************************************)
EXTENDS QueuedExecutor

CONSTANTS
    Producers,   \* the threads of the application, which call Executor.Execute
    Workers,     \* the pool threads that run PerformTasks
    Closers,     \* the producers that may also dispose the dispatcher
    MaxThreads,  \* the constructor's maxConcurrency
    Priority,    \* QueuedExecutorSettings.Priority of an executor
    Position     \* the place of an executor in the constructor's array

ASSUME DispatcherAssumption ==
    /\ Threads = Producers \cup Workers
    /\ Producers \cap Workers = {}
    /\ Closers \subseteq Producers
    /\ Cardinality(Envelopes) <= Cardinality(Workers)
    /\ MaxThreads \in 1..255
    /\ IsFiniteSet(Queues)
    /\ Priority \in [Queues -> 0..255]
    /\ Position \in [Queues -> Nat]
    /\ \A q, r \in Queues : Position[q] = Position[r] => q = r

\* (byte)executionQueues.Sum(x => x.MaxConcurrency).  MaxConcurrency of a
\* QueuedExecutor returns _settings.Priority, and the cast keeps 8 bits.
QueueTotalConcurrency ==
    Cardinality({w \in Queues \X (1..255) : w[2] <= Priority[w[1]]}) % 256

\* _maxConcurrency
Limit ==
    IF MaxThreads <= QueueTotalConcurrency THEN MaxThreads ELSE QueueTotalConcurrency

\* q stands before r in _executionQueues: OrderByDescending is stable.
Before(q, r) ==
    \/ Priority[q] > Priority[r]
    \/ Priority[q] = Priority[r] /\ Position[q] < Position[r]

VARIABLES
    active,          \* _currentConcurrency of the dispatcher
    disposed,        \* _disposed
    disposeCount,    \* _disposeCount
    executionInfos,  \* the array of cells
    pc,              \* where each thread is in the dispatcher
    executor,        \* the argument of TryStartNewThread
    scan,            \* the queues TakeNextTask has still to ask
    fatal            \* history: the envelopes that ended their worker by an exception

shutdownVars == <<disposed, disposeCount, executionInfos>>
dispatcherVars == <<active, shutdownVars, pc, executor, scan, fatal>>
vars == <<queueVars, dispatcherVars>>

Cells == 0..(Limit - 1)

\* The places where _currentConcurrency includes the thread's increment.
SlotPlaces == {"unclaim", "dequeue", "fetch", "next", "execute", "leave"}
Places == SlotPlaces \cup {"out", "enqueue", "begin", "claim", "marking", "waiting"}

Moves(t, place) == pc' = [pc EXCEPT ![t] = place]

Init ==
    /\ QueueInit
    /\ active = 0
    /\ disposed = FALSE
    /\ disposeCount = 0
    /\ executionInfos = [i \in Cells |-> None]
    /\ pc = [t \in Threads |-> "out"]
    /\ executor = [t \in Threads |-> None]
    /\ scan = [t \in Threads |-> {}]
    /\ fatal = {}

-----------------------------------------------------------------------------
(* Plausible mistakes, as in QueuedExecutor. *)

\* Claim that compares the value before the increment.
ClaimOneMore(t) ==
    /\ pc[t] = "claim"
    /\ active' = active + 1
    /\ IF active > Limit
          THEN Moves(t, "unclaim") /\ UNCHANGED <<queueVars, scan>>
          ELSE IF executor[t] = None
             THEN /\ scan' = [scan EXCEPT ![t] = Queues]
                  /\ Moves(t, "fetch") /\ UNCHANGED queueVars
             ELSE CallDequeue(t, executor[t]) /\ Moves(t, "dequeue") /\ UNCHANGED scan
    /\ UNCHANGED <<shutdownVars, executor, fatal>>

\* Claim that is refused at the limit already.
ClaimOneLess(t) ==
    /\ pc[t] = "claim"
    /\ active' = active + 1
    /\ IF active + 1 >= Limit
          THEN Moves(t, "unclaim") /\ UNCHANGED <<queueVars, scan>>
          ELSE IF executor[t] = None
             THEN /\ scan' = [scan EXCEPT ![t] = Queues]
                  /\ Moves(t, "fetch") /\ UNCHANGED queueVars
             ELSE CallDequeue(t, executor[t]) /\ Moves(t, "dequeue") /\ UNCHANGED scan
    /\ UNCHANGED <<shutdownVars, executor, fatal>>

\* NoTaskFound without the decrement.
NoTaskFoundForgets(t) ==
    /\ pc[t] \in {"dequeue", "fetch"}
    /\ step[t] = "idle" /\ scan[t] = {}
    /\ Moves(t, "out")
    /\ UNCHANGED <<queueVars, active, shutdownVars, executor, scan, fatal>>

\* Start without tplTask.Start: nobody runs the envelope.
StartForgets(t) ==
    /\ pc[t] \in {"dequeue", "fetch"}
    /\ step[t] = "holding"
    /\ Moves(t, "out")
    /\ scan' = [scan EXCEPT ![t] = {}]
    /\ UNCHANGED <<queueVars, active, shutdownVars, executor, fatal>>

\* Loop that asks the queues again instead of leaving.
LoopPolls(w) ==
    /\ pc[w] = "next"
    /\ \/ /\ step[w] = "holding"
          /\ scan' = [scan EXCEPT ![w] = {}]
          /\ IF disposed
                THEN Abandon(w) /\ Moves(w, "leave")
                ELSE ExecuteTask(w) /\ Moves(w, "execute")
       \/ /\ step[w] = "idle" /\ scan[w] = {}
          /\ scan' = [scan EXCEPT ![w] = Queues]
          /\ UNCHANGED <<queueVars, pc>>
    /\ UNCHANGED <<active, shutdownVars, executor, fatal>>

-----------------------------------------------------------------------------
(* Executor.Execute: an envelope is routed to its executor and enqueued. *)

Execute(p, e) ==
    /\ pc[p] = "out"
    /\ Enqueue(p, e)
    /\ Moves(p, "enqueue")
    /\ UNCHANGED <<active, shutdownVars, executor, scan, fatal>>

\* Up to the end of Enqueue, when the persister throws or the check of line
\* 57 leaves TaskAdded out.
Enqueueing(p) ==
    /\ pc[p] = "enqueue"
    /\ Persist(p) \/ PersistFails(p) \/ AppendToQueue(p) \/ Check(p)
    /\ Moves(p, IF step'[p] = "idle" THEN "out" ELSE "enqueue")
    /\ UNCHANGED <<active, shutdownVars, executor, scan, fatal>>

\* OnTaskAdded
OnTaskAdded(p) ==
    /\ pc[p] = "enqueue"
    /\ Signal(p)
    /\ executor' = [executor EXCEPT ![p] = at[p]]
    /\ Moves(p, "begin")
    /\ UNCHANGED <<active, shutdownVars, scan, fatal>>

-----------------------------------------------------------------------------
(* TryStartNewThread *)

Begin(t) ==
    /\ pc[t] = "begin"
    /\ Moves(t, IF disposed THEN "out" ELSE "claim")
    /\ UNCHANGED <<queueVars, active, shutdownVars, executor, scan, fatal>>

\* Interlocked.Increment, and on to Dequeue or TakeNextTask within the limit.
Claim(t) ==
    /\ pc[t] = "claim"
    /\ active' = active + 1
    /\ \/ /\ active + 1 > Limit
          /\ Moves(t, "unclaim")
          /\ UNCHANGED <<queueVars, scan>>
       \/ /\ active + 1 <= Limit
          /\ executor[t] = None
          /\ scan' = [scan EXCEPT ![t] = Queues]
          /\ Moves(t, "fetch")
          /\ UNCHANGED queueVars
       \/ /\ active + 1 <= Limit
          /\ executor[t] # None
          /\ CallDequeue(t, executor[t])
          /\ Moves(t, "dequeue")
          /\ UNCHANGED scan
    /\ UNCHANGED <<shutdownVars, executor, fatal>>

\* Interlocked.Decrement, and goto BEGIN on zero.
Unclaim(t) ==
    /\ pc[t] = "unclaim"
    /\ active' = active - 1
    /\ Moves(t, IF active - 1 = 0 THEN "begin" ELSE "out")
    /\ UNCHANGED <<queueVars, shutdownVars, executor, scan, fatal>>

\* TakeNextTask asks the next queue.
AskNextQueue(t) ==
    /\ pc[t] \in {"fetch", "next"}
    /\ \E q \in scan[t] :
        /\ \A r \in scan[t] \ {q} : Before(q, r)
        /\ CallDequeue(t, q)
        /\ scan' = [scan EXCEPT ![t] = @ \ {q}]
    /\ UNCHANGED <<active, shutdownVars, pc, executor, fatal>>

Dequeueing(t) ==
    /\ pc[t] \in {"dequeue", "fetch", "next"}
    /\ DequeueStep(t)
    /\ UNCHANGED dispatcherVars

\* Dequeue or TakeNextTask has returned null.
CameBackEmpty(t) == step[t] = "idle" /\ scan[t] = {}

\* The slot is given back; unlike line 140, nobody looks at the queues again.
NoTaskFound(t) ==
    /\ pc[t] \in {"dequeue", "fetch"}
    /\ CameBackEmpty(t)
    /\ active' = active - 1
    /\ Moves(t, "out")
    /\ UNCHANGED <<queueVars, shutdownVars, executor, scan, fatal>>

\* ExecutionInfo.TakeFreeCell: w finds a cell that is null and owns it.  But
\* CompareExchange works on the local variable `cell` and not on the array, so
\* the array keeps its nulls and every worker gets the first cell.  The index
\* only names the thread.
TakeFreeCell(w) == UNCHANGED executionInfos

\* Any pool thread can be the one that runs a new TPL task.
FreshWorker == CHOOSE w \in Workers : pc[w] = "out"

\* tplTask.Start: a worker begins PerformTasks with the envelope.
Start(t) ==
    /\ pc[t] \in {"dequeue", "fetch"}
    /\ step[t] = "holding"
    /\ \E w \in Workers :
        /\ pc[w] = "out"
        /\ w = FreshWorker
        /\ HandOver(t, w)
        /\ TakeFreeCell(w)
        /\ pc' = [pc EXCEPT ![t] = "out", ![w] = "next"]
    /\ scan' = [scan EXCEPT ![t] = {}]
    /\ UNCHANGED <<active, disposed, disposeCount, executor, fatal>>

-----------------------------------------------------------------------------
(* PerformTasks *)

\* The head of the loop: CurrentTask is set, or TakeNextTask gave null.
Loop(w) ==
    /\ pc[w] = "next"
    /\ \/ /\ step[w] = "holding"
          /\ IF disposed
                THEN Abandon(w) /\ Moves(w, "leave")
                ELSE ExecuteTask(w) /\ Moves(w, "execute")
       \/ /\ CameBackEmpty(w)
          /\ Moves(w, "leave")
          /\ UNCHANGED queueVars
    /\ scan' = [scan EXCEPT ![w] = {}]
    /\ UNCHANGED <<active, shutdownVars, executor, fatal>>

\* ExecuteTask, and then TakeNextTask.
Executing(w) ==
    /\ pc[w] = "execute"
    /\ TaskReturns(w) \/ Settle(w) \/ Delete(w)
    /\ IF step'[w] = "idle"
          THEN Moves(w, "next") /\ scan' = [scan EXCEPT ![w] = Queues]
          ELSE UNCHANGED <<pc, scan>>
    /\ UNCHANGED <<active, shutdownVars, executor, fatal>>

\* ExecuteTask throws: the TPL task ends as faulted, and neither Release nor
\* the decrement of _currentConcurrency is reached.
Faulted(w) ==
    /\ pc[w] = "execute"
    /\ ReleaseFails(w) \/ DeleteFails(w)
    /\ fatal' = fatal \cup {env[w]}
    /\ Moves(w, "out")
    /\ UNCHANGED <<active, shutdownVars, executor, scan>>

\* ExecutionInfo.Release and the decrement; the last worker to leave tries to
\* start another one.
Leave(w) ==
    /\ pc[w] = "leave"
    /\ active' = active - 1
    /\ IF active - 1 = 0
          THEN Moves(w, "begin") /\ executor' = [executor EXCEPT ![w] = None]
          ELSE Moves(w, "out") /\ UNCHANGED executor
    /\ UNCHANGED <<queueVars, shutdownVars, scan, fatal>>

-----------------------------------------------------------------------------
(* Disposable.Dispose and DisposeManaged *)

CallDispose(p) ==
    /\ p \in Closers
    /\ pc[p] = "out"
    /\ ~disposed
    /\ Moves(p, "marking")
    /\ UNCHANGED <<queueVars, active, shutdownVars, executor, scan, fatal>>

\* _disposed = true and Interlocked.Increment: only the first one goes on.
MarkDisposed(p) ==
    /\ pc[p] = "marking"
    /\ disposed' = TRUE
    /\ disposeCount' = disposeCount + 1
    /\ Moves(p, IF disposeCount = 0 THEN "waiting" ELSE "out")
    /\ UNCHANGED <<queueVars, active, executionInfos, executor, scan, fatal>>

\* WaitTaskFinished for every cell that has an ExecutionInfo.
DisposeReturns(p) ==
    /\ pc[p] = "waiting"
    /\ \A i \in Cells : executionInfos[i] # None => pc[executionInfos[i]] = "out"
    /\ Moves(p, "out")
    /\ UNCHANGED <<queueVars, active, shutdownVars, executor, scan, fatal>>

-----------------------------------------------------------------------------

\* What thread t does once it has been called or started.
ThreadStep(t) ==
    \/ Enqueueing(t) \/ OnTaskAdded(t)
    \/ Begin(t) \/ Claim(t) \/ Unclaim(t)
    \/ AskNextQueue(t) \/ Dequeueing(t) \/ NoTaskFound(t) \/ Start(t)
    \/ Loop(t) \/ Executing(t) \/ Faulted(t) \/ Leave(t)
    \/ MarkDisposed(t) \/ DisposeReturns(t)

Next ==
    \/ \E p \in Producers : CallDispose(p) \/ \E e \in Envelopes : Execute(p, e)
    \/ \E t \in Threads : ThreadStep(t)

Spec == Init /\ [][Next]_vars

-----------------------------------------------------------------------------
(* Properties *)

\* The values the fields and local variables of the dispatcher can have.
DispatcherTypeOK ==
    /\ QueueTypeOK
    /\ active \in Int
    /\ disposed \in BOOLEAN
    /\ disposeCount \in Nat
    /\ executionInfos \in [Cells -> Workers \cup {None}]
    /\ pc \in [Threads -> Places]
    /\ executor \in [Threads -> Queues \cup {None}]
    /\ scan \in [Threads -> SUBSET Queues]
    /\ fatal \subseteq Envelopes

\* What the dispatcher's counter counts: the threads between an increment of
\* it and the matching decrement (a start hands its increment over to the
\* worker), and the workers that died of an exception in between.
SlotHolders == {t \in Threads : pc[t] \in SlotPlaces} \cup fatal

\* _currentConcurrency is exact: no exit of TryStartNewThread or PerformTasks
\* undoes an increment twice, and only an exception out of ExecuteTask keeps
\* one for ever.
ActiveIsExact == active = Cardinality(SlotHolders)

\* "Second check to ensure concurrency threshold would not be exceeded" (line
\* 67): threads that work for the dispatcher, or will when Dequeue gives them
\* an envelope, are never more than _maxConcurrency, dead ones included.
DispatcherLimit ==
    Cardinality(SlotHolders \ {t \in Threads : pc[t] = "unclaim"}) <= Limit

\* The dispatcher and its executors together are a task pool that is
\* _maxConcurrency wide: every step of every thread takes the oldest task of
\* a queue within both limits, finishes or drops a taken one, or is internal.
Pool == INSTANCE TaskPool WITH
    Tasks <- Envelopes, Width <- MaxConcurrency, PoolWidth <- Limit,
    waiting <- queue, taken <- Taken, finished <- executed, dropped <- lost \ executed
ImplementsPool == Pool!Spec

\* A task that was taken out of its queue is executed or, on shutdown,
\* dropped: no thread keeps one for ever.
TakenTasksEnd ==
    \A e \in Envelopes : e \in Taken ~> e \in executed \cup lost

\* After Dispose the pool threads come to rest for good, also those that were
\* being started when _disposed was set.
ShutdownQuiesces ==
    disposed ~> [](\A w \in Workers : pc[w] = "out")

\* What the comment in PerformTasks (line 139, "This prevents situation with
\* a task hanging in a queue in very specific conditions") says: when every
\* thread has left the dispatcher, which is not disposed and has no slot
\* taken, no task waits in a queue.
NoTaskHangs ==
    (\A t \in Threads : pc[t] = "out") /\ active = 0 /\ ~disposed =>
        \A q \in Queues : queue[q] = <<>>
=============================================================================
