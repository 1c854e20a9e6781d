--------------------------- MODULE QueuedExecutor ---------------------------
(***************************************************************************)
(* DarkFlow/Execution/QueuedExecutor.cs: an executor that keeps accepted   *)
(* tasks in a ConcurrentQueue and gives them out to whoever calls Dequeue, *)
(* at most MaxConcurrency at a time.  Nothing here takes a lock: callers   *)
(* meet only in the Interlocked counter _currentConcurrency, the           *)
(* ConcurrentQueue and the database behind the persister, and every step   *)
(* below is one access to one of these.                                    *)
(*                                                                         *)
(* The module also has ExecutionEnvelope.ExecuteTask, because it is what   *)
(* gives a slot of the queue back: the envelope's AfterExecute event leads *)
(* into QueuedExecutor.AfterExecute on the thread that ran the task.       *)
(*                                                                         *)
(* The callers are as general as the public interface allows: any thread   *)
(* may call Enqueue and Dequeue at any time, pass what it got to another   *)
(* thread, run it or drop it.  TaskDispatcher extends this module and      *)
(* replaces these callers by its own control.                              *)
(***************************************************************************)
EXTENDS Integers, Sequences, FiniteSets

CONSTANTS
    Threads,         \* the threads of the process
    Queues,          \* the QueuedExecutors
    Envelopes,       \* the ExecutionEnvelopes; each is offered to Enqueue once
    Home,            \* the executor TaskRouter.Route finds for an envelope
    MaxConcurrency,  \* QueuedExecutorSettings.MaxConcurrency of an executor
    Persistent,      \* the envelopes whose task IPersister.IsPersistent accepts
    Faults,          \* the calls that may throw: a method and its envelope
    None             \* null

ASSUME QueueAssumption ==
    /\ IsFiniteSet(Threads)
    /\ IsFiniteSet(Envelopes)
    /\ Threads \cap Envelopes = {}
    /\ Home \in [Envelopes -> Queues]
    /\ MaxConcurrency \in [Queues -> 1..255]
    /\ Persistent \subseteq Envelopes
    /\ Faults \subseteq {"persist", "release", "delete"} \X Envelopes
    /\ None \notin Envelopes
    /\ None \notin Queues

VARIABLES
    queue,        \* _queue of each executor
    concurrency,  \* _currentConcurrency of each executor
    stored,       \* the envelopes whose task is in the database
    step,         \* where each thread is in Enqueue, Dequeue or ExecuteTask
    at,           \* the executor the thread's step is about
    env,          \* the envelope the thread has in a local variable
    offered,      \* history: the envelopes Enqueue was called with
    arrival,      \* history: the order of _queue.Enqueue on each executor
    executed,     \* history: the envelopes whose task's Execute has ended
    lost          \* history: the envelopes that took a slot never given back

contents == <<queue, arrival>>
frame == <<step, at, env>>
history == <<offered, executed, lost>>
queueVars == <<queue, concurrency, stored, step, at, env,
               offered, arrival, executed, lost>>

\* The steps in which the executor's counter includes the thread's increment.
SlotSteps == {"unreserve", "take", "giveback", "holding", "running", "settle"}
\* The steps in which the thread has an envelope that is not queued.
EnvelopeSteps == {"persist", "append", "holding", "running", "settle", "delete"}
Steps == SlotSteps \cup EnvelopeSteps \cup {"idle", "check", "signal", "reserve"}

\* Thread t continues at step s about executor q with envelope e.
Goes(t, s, q, e) ==
    /\ step' = [step EXCEPT ![t] = s]
    /\ at' = [at EXCEPT ![t] = q]
    /\ env' = [env EXCEPT ![t] = e]

\* Thread t is in no method of the executor, and has no envelope.
Returns(t) == Goes(t, "idle", None, None)

QueueInit ==
    /\ queue = [q \in Queues |-> <<>>]
    /\ concurrency = [q \in Queues |-> 0]
    /\ stored = {}
    /\ step = [t \in Threads |-> "idle"]
    /\ at = [t \in Threads |-> None]
    /\ env = [t \in Threads |-> None]
    /\ offered = {}
    /\ arrival = [q \in Queues |-> <<>>]
    /\ executed = {}
    /\ lost = {}

-----------------------------------------------------------------------------
(* Plausible mistakes: each stands for the action named after it in its      *)
(* comment, and the properties at the end of the module must notice it.      *)

\* Enqueue that persists every task.
EnqueuePersistsAll(t, e) ==
    /\ step[t] = "idle"
    /\ e \notin offered
    /\ offered' = offered \cup {e}
    /\ Goes(t, "persist", Home[e], e)
    /\ UNCHANGED <<contents, concurrency, stored, executed, lost>>

\* Enqueue that catches what Persist throws and goes on.
PersistFailsUnseen(t) ==
    /\ step[t] = "persist"
    /\ <<"persist", env[t]>> \in Faults
    /\ Goes(t, "append", at[t], env[t])
    /\ UNCHANGED <<contents, concurrency, stored, history>>

\* AppendToQueue on a stack.
AppendInFront(t) ==
    /\ step[t] = "append"
    /\ queue' = [queue EXCEPT ![at[t]] = <<env[t]>> \o @]
    /\ arrival' = [arrival EXCEPT ![at[t]] = Append(@, env[t])]
    /\ Goes(t, "check", at[t], None)
    /\ UNCHANGED <<concurrency, stored, history>>

\* Check with the comparison turned round.
CheckReversed(t) ==
    /\ step[t] = "check"
    /\ \/ concurrency[at[t]] < MaxConcurrency[at[t]] /\ Returns(t)
       \/ concurrency[at[t]] >= MaxConcurrency[at[t]] /\ Goes(t, "signal", at[t], None)
    /\ UNCHANGED <<contents, concurrency, stored, history>>

\* Reserve that compares the value before the increment.
ReserveOneMore(t) ==
    /\ step[t] = "reserve"
    /\ concurrency' = [concurrency EXCEPT ![at[t]] = @ + 1]
    /\ Goes(t, IF concurrency[at[t]] > MaxConcurrency[at[t]]
                  THEN "unreserve" ELSE "take", at[t], None)
    /\ UNCHANGED <<contents, stored, history>>

\* Take by TryPeek.
TakePeeks(t) ==
    /\ step[t] = "take"
    /\ IF queue[at[t]] # <<>>
          THEN Goes(t, "holding", at[t], Head(queue[at[t]]))
          ELSE Goes(t, "giveback", at[t], None)
    /\ UNCHANGED <<contents, concurrency, stored, history>>

\* GiveBack without the decrement.
GiveBackForgets(t) ==
    /\ step[t] = "giveback"
    /\ Returns(t)
    /\ UNCHANGED <<contents, concurrency, stored, history>>

\* ExecuteTask with the task deleted from the database first.
ExecuteDeletesFirst(t) ==
    /\ step[t] = "holding"
    /\ stored' = stored \ {env[t]}
    /\ Goes(t, "running", at[t], env[t])
    /\ UNCHANGED <<contents, concurrency, history>>

\* Settle that leaves the task in the database.
SettleForgetsDelete(t) ==
    /\ step[t] = "settle"
    /\ concurrency' = [concurrency EXCEPT ![at[t]] = @ - 1]
    /\ Returns(t)
    /\ UNCHANGED <<contents, stored, history>>

-----------------------------------------------------------------------------
(* Enqueue *)

\* The call, up to the answer of IPersister.IsPersistent.
Enqueue(t, e) ==
    /\ step[t] = "idle"
    /\ e \notin offered
    /\ offered' = offered \cup {e}
    /\ Goes(t, IF e \in Persistent THEN "persist" ELSE "append", Home[e], e)
    /\ UNCHANGED <<contents, concurrency, stored, executed, lost>>

Persist(t) ==
    /\ step[t] = "persist"
    /\ stored' = stored \cup {env[t]}
    /\ Goes(t, "append", at[t], env[t])
    /\ UNCHANGED <<contents, concurrency, history>>

\* IPersister.Persist throws: so does Enqueue, and nothing was queued.
PersistFails(t) ==
    /\ step[t] = "persist"
    /\ <<"persist", env[t]>> \in Faults
    /\ Returns(t)
    /\ UNCHANGED <<contents, concurrency, stored, history>>

\* _queue.Enqueue
AppendToQueue(t) ==
    /\ step[t] = "append"
    /\ queue' = [queue EXCEPT ![at[t]] = Append(@, env[t])]
    /\ arrival' = [arrival EXCEPT ![at[t]] = Append(@, env[t])]
    /\ Goes(t, "check", at[t], None)
    /\ UNCHANGED <<concurrency, stored, history>>

\* The unsynchronised read of the counter that may skip TaskAdded.
Check(t) ==
    /\ step[t] = "check"
    /\ \/ /\ concurrency[at[t]] > MaxConcurrency[at[t]]
          /\ Returns(t)
       \/ /\ concurrency[at[t]] <= MaxConcurrency[at[t]]
          /\ Goes(t, "signal", at[t], None)
    /\ UNCHANGED <<contents, concurrency, stored, history>>

\* TaskAdded(this): what the subscriber does on this thread are its own steps.
Signal(t) ==
    /\ step[t] = "signal"
    /\ Returns(t)
    /\ UNCHANGED <<contents, concurrency, stored, history>>

-----------------------------------------------------------------------------
(* Dequeue *)

CallDequeue(t, q) ==
    /\ step[t] = "idle"
    /\ Goes(t, "reserve", q, None)
    /\ UNCHANGED <<contents, concurrency, stored, history>>

\* Interlocked.Increment, and the comparison of its result with the limit.
Reserve(t) ==
    /\ step[t] = "reserve"
    /\ concurrency' = [concurrency EXCEPT ![at[t]] = @ + 1]
    /\ Goes(t, IF concurrency[at[t]] + 1 > MaxConcurrency[at[t]]
                  THEN "unreserve" ELSE "take", at[t], None)
    /\ UNCHANGED <<contents, stored, history>>

\* The limit is reached: Interlocked.Decrement, and goto BEGIN on zero.
Unreserve(t) ==
    /\ step[t] = "unreserve"
    /\ concurrency' = [concurrency EXCEPT ![at[t]] = @ - 1]
    /\ \/ /\ concurrency[at[t]] - 1 = 0
          /\ Goes(t, "reserve", at[t], None)
       \/ /\ concurrency[at[t]] - 1 # 0
          /\ Returns(t)
    /\ UNCHANGED <<contents, stored, history>>

\* _queue.TryDequeue
Take(t) ==
    /\ step[t] = "take"
    /\ \/ /\ queue[at[t]] # <<>>
          /\ queue' = [queue EXCEPT ![at[t]] = Tail(@)]
          /\ Goes(t, "holding", at[t], Head(queue[at[t]]))
       \/ /\ queue[at[t]] = <<>>
          /\ Goes(t, "giveback", at[t], None)
          /\ UNCHANGED queue
    /\ UNCHANGED <<arrival, concurrency, stored, history>>

\* There was nothing to take: Interlocked.Decrement, return null.
GiveBack(t) ==
    /\ step[t] = "giveback"
    /\ concurrency' = [concurrency EXCEPT ![at[t]] = @ - 1]
    /\ Returns(t)
    /\ UNCHANGED <<contents, stored, history>>

-----------------------------------------------------------------------------
(* What the holder of an envelope does with it *)

\* Thread t starts thread w with the envelope it has.
HandOver(t, w) ==
    /\ step[t] = "holding"
    /\ step[w] = "idle"
    /\ step' = [step EXCEPT ![t] = "idle", ![w] = "holding"]
    /\ at' = [at EXCEPT ![t] = None, ![w] = at[t]]
    /\ env' = [env EXCEPT ![t] = None, ![w] = env[t]]
    /\ UNCHANGED <<contents, concurrency, stored, history>>

\* The reference is dropped without a call of ExecuteTask.
Abandon(t) ==
    /\ step[t] = "holding"
    /\ lost' = lost \cup {env[t]}
    /\ Returns(t)
    /\ UNCHANGED <<contents, concurrency, stored, offered, executed>>

\* ExecuteTask calls Task.Execute.
ExecuteTask(t) ==
    /\ step[t] = "holding"
    /\ Goes(t, "running", at[t], env[t])
    /\ UNCHANGED <<contents, concurrency, stored, history>>

\* Task.Execute returns or throws (the exception is logged and swallowed),
\* and the finally block releases the task.  The catch block also counts the
\* failure: Monitor is the NullMonitor, which ExecutorBuilder gives to every
\* container and which cannot throw.
TaskReturns(t) ==
    /\ step[t] = "running"
    /\ executed' = executed \cup {env[t]}
    /\ Goes(t, "settle", at[t], env[t])
    /\ UNCHANGED <<contents, concurrency, stored, offered, lost>>

\* The same, but ITaskReleaser.Release throws out of the finally block, so
\* that AfterExecute is not raised.
ReleaseFails(t) ==
    /\ step[t] = "running"
    /\ <<"release", env[t]>> \in Faults
    /\ executed' = executed \cup {env[t]}
    /\ lost' = lost \cup {env[t]}
    /\ Returns(t)
    /\ UNCHANGED <<contents, concurrency, stored, offered>>

\* QueuedExecutor.AfterExecute gives the slot back.
Settle(t) ==
    /\ step[t] = "settle"
    /\ concurrency' = [concurrency EXCEPT ![at[t]] = @ - 1]
    /\ \/ /\ env[t] \in Persistent
          /\ Goes(t, "delete", at[t], env[t])
       \/ /\ env[t] \notin Persistent
          /\ Returns(t)
    /\ UNCHANGED <<contents, stored, history>>

Delete(t) ==
    /\ step[t] = "delete"
    /\ stored' = stored \ {env[t]}
    /\ Returns(t)
    /\ UNCHANGED <<contents, concurrency, history>>

\* IPersister.Delete throws, and ExecuteTask with it.
DeleteFails(t) ==
    /\ step[t] = "delete"
    /\ <<"delete", env[t]>> \in Faults
    /\ Returns(t)
    /\ UNCHANGED <<contents, concurrency, stored, history>>

-----------------------------------------------------------------------------

EnqueueStep(t) ==
    Persist(t) \/ PersistFails(t) \/ AppendToQueue(t) \/ Check(t) \/ Signal(t)

DequeueStep(t) == Reserve(t) \/ Unreserve(t) \/ Take(t) \/ GiveBack(t)

ExecuteStep(t) ==
    \/ TaskReturns(t) \/ ReleaseFails(t)
    \/ Settle(t) \/ Delete(t) \/ DeleteFails(t)

QueueNext ==
    \E t \in Threads :
        \/ \E e \in Envelopes : Enqueue(t, e)
        \/ \E q \in Queues : CallDequeue(t, q)
        \/ \E w \in Threads : HandOver(t, w)
        \/ EnqueueStep(t)
        \/ DequeueStep(t)
        \/ Abandon(t)
        \/ ExecuteTask(t)
        \/ ExecuteStep(t)

QueueSpec == QueueInit /\ [][QueueNext]_queueVars

-----------------------------------------------------------------------------
(* Properties *)

\* The values the fields and local variables of the code can have.
QueueTypeOK ==
    /\ queue \in [Queues -> Seq(Envelopes)]
    /\ concurrency \in [Queues -> Int]
    /\ stored \subseteq Persistent
    /\ step \in [Threads -> Steps]
    /\ at \in [Threads -> Queues \cup {None}]
    /\ env \in [Threads -> Envelopes \cup {None}]
    /\ offered \subseteq Envelopes
    /\ arrival \in [Queues -> Seq(Envelopes)]
    /\ executed \subseteq Envelopes
    /\ lost \subseteq Envelopes

\* What the counter of executor q counts: the threads that have incremented
\* it and not yet decremented it, and the envelopes that nobody will settle.
Charged(q) ==
    {t \in Threads : step[t] \in SlotSteps /\ at[t] = q}
        \cup {e \in lost : Home[e] = q}

\* Those of them that were told they are above the limit.
Refused(q) == {t \in Threads : step[t] = "unreserve" /\ at[t] = q}

\* Every increment of _currentConcurrency is undone exactly once, whatever
\* path the thread takes out of Dequeue and ExecuteTask: the counter is
\* always the number of those that are charged to it.
CounterIsExact == \A q \in Queues : concurrency[q] = Cardinality(Charged(q))

\* The tasks of executor q whose Execute may be on some thread's stack.
Running(q) == {t \in Threads : step[t] = "running" /\ at[t] = q}

\* "Max tasks concurrency for execution queue" (IExecutionQueue): however
\* calls of Dequeue and AfterExecute interleave, no more than MaxConcurrency
\* tasks of an executor are out of its queue and unfinished.
ConcurrencyLimit ==
    \A q \in Queues :
        Cardinality(Charged(q) \ Refused(q)) <= MaxConcurrency[q]

\* A task starts only when fewer than MaxConcurrency of those that arrived
\* before it are unfinished; with MaxConcurrency = 1, tasks run serially in
\* the order of arrival.
StartsInArrivalOrder ==
    \A q \in Queues : \A t \in Running(q) : \A i \in DOMAIN arrival[q] :
        arrival[q][i] = env[t] =>
            Cardinality({j \in 1..(i - 1) : arrival[q][j] \notin executed})
                < MaxConcurrency[q]

\* If the process stops at any moment, the database has every persistent
\* task that was accepted and has not been executed: Persist comes before
\* _queue.Enqueue and Delete after Execute on every path.
PersistedUntilExecuted ==
    \A q \in Queues : \A i \in DOMAIN arrival[q] :
        arrival[q][i] \in Persistent \ executed => arrival[q][i] \in stored

Queued(q) == {queue[q][i] : i \in DOMAIN queue[q]}

\* The envelopes whose Enqueue has not thrown.
Accepted == {e \in Envelopes : \E q \in Queues : \E i \in DOMAIN arrival[q] : arrival[q][i] = e}

\* An accepted envelope is in exactly one place: waiting in the queue, held
\* by one thread, or done with.  No interleaving of Enqueue and Dequeue gives
\* it to two threads, runs its task twice or makes it disappear.
OnePlace ==
    /\ \A t, u \in Threads : env[t] # None /\ env[t] = env[u] => t = u
    /\ \A t \in Threads :
           /\ env[t] # None => env[t] \notin Queued(at[t])
           /\ step[t] \in {"holding", "running"} => env[t] \notin executed \cup lost
    /\ \A q \in Queues : \A i \in DOMAIN arrival[q] :
           \/ arrival[q][i] \in Queued(q) \cup executed \cup lost
           \/ \E t \in Threads : env[t] = arrival[q][i]

\* The database keeps the task of an executed envelope only while the thread
\* that executed it is on its way to Delete, or when that way was cut short
\* by an exception: otherwise nothing is left that a restart would repeat.
StoredIsOwed ==
    \A e \in (stored \cap executed) \ lost :
        \/ <<"delete", e>> \in Faults
        \/ \E t \in Threads : env[t] = e /\ step[t] \in {"settle", "delete"}

\* The envelopes that are out of their queue and not yet executed.
Taken == {env[t] : t \in {u \in Threads : step[u] \in {"holding", "running"}}}

\* Seen without threads and counters, the executors are task pools: Dequeue
\* takes the oldest task of a queue below its limit, ExecuteTask finishes it,
\* and no step of any thread does anything else to the tasks.
QueuePool == INSTANCE TaskPool WITH
    Tasks <- Envelopes, Width <- MaxConcurrency, PoolWidth <- Cardinality(Threads),
    waiting <- queue, taken <- Taken, finished <- executed, dropped <- lost \ executed
QueueImplementsPool == QueuePool!Spec
=============================================================================
