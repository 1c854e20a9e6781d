------------------------------ MODULE Container ------------------------------
(***************************************************************************)
(* DarkFlow/Bootstrap/ExecutionContainer.cs: what ExecutorBuilder gives to *)
(* the application.  It passes Execute to DarkFlow/Execution/Executor.cs,  *)
(* whose router brings the envelope to a QueuedExecutor, and its Dispose   *)
(* disposes, one after the other, the Executor, the TaskDispatcher and the *)
(* database.  All three are Disposables (DarkFlow/Misc/Disposable.cs): a   *)
(* flag that anybody may read, and a counter that lets one thread through. *)
(*                                                                         *)
(* A thread of the application is in a method of the container (place) and *)
(* below it where TaskDispatcher says.  Nobody but the container has the   *)
(* dispatcher and the database, so that what TaskDispatcher leaves open,   *)
(* who disposes and when the database throws, is settled here.             *)
(***************************************************************************)
EXTENDS TaskDispatcher

\* The database throws out of Persist and Delete once it is closed.
ASSUME ContainerAssumption == {"persist", "delete"} \X Persistent \subseteq Faults

VARIABLES
    place,            \* where each thread is in the container's methods
    task,             \* the envelope of the task each thread calls Execute with
    containerDisposed, containerDisposeCount,  \* the container's Disposable
    executorDisposed, \* _disposed of the Executor
    closed,           \* the database has been disposed
    called,           \* history: the envelopes of all calls of Execute
    late              \* history: those of the calls after Dispose had returned

disposalVars == <<containerDisposed, containerDisposeCount, executorDisposed, closed>>
callVars == <<task, called, late>>
containerVars == <<vars, place, disposalVars, callVars>>

ContainerPlaces ==
    {"out", "routing", "marking", "executor", "dispatcher", "database"}

MovesTo(p, x) == place' = [place EXCEPT ![p] = x]

ContainerInit ==
    /\ Init
    /\ place = [t \in Threads |-> "out"]
    /\ task = [t \in Threads |-> None]
    /\ containerDisposed = FALSE
    /\ containerDisposeCount = 0
    /\ executorDisposed = FALSE
    /\ closed = FALSE
    /\ called = {}
    /\ late = {}

\* A thread of the application that is in no method of the library.
Outside(p) == place[p] = "out" /\ pc[p] = "out"

-----------------------------------------------------------------------------
(* Plausible mistakes: each stands for the action named after it.            *)

\* Route that leaves the call where it was.
RouteStays(p) ==
    /\ place[p] = "routing"
    /\ Execute(p, task[p])
    /\ UNCHANGED <<place, task, disposalVars, called, late>>

-----------------------------------------------------------------------------
(* Execute *)

\* EnsureNotDisposed, which throws, or a new envelope for the router.
CallExecute(p, e) ==
    /\ Outside(p)
    /\ e \notin called
    /\ called' = called \cup {e}
    /\ late' = IF closed THEN late \cup {e} ELSE late
    /\ \/ executorDisposed /\ UNCHANGED <<place, task>>
       \/ /\ ~executorDisposed
          /\ MovesTo(p, "routing")
          /\ task' = [task EXCEPT ![p] = e]
    /\ UNCHANGED <<vars, disposalVars>>

\* _router.Route; the flag is not looked at again.
Route(p) ==
    /\ place[p] = "routing"
    /\ Execute(p, task[p])
    /\ MovesTo(p, "out")
    /\ task' = [task EXCEPT ![p] = None]
    /\ UNCHANGED <<disposalVars, called, late>>

\* What a thread does in the dispatcher.  A closed database throws, an open
\* one does not.
DatabaseAnswers(t) ==
    step[t] \in {"persist", "delete"} => (stored' = stored <=> closed)

DispatcherStep(t) ==
    /\ ThreadStep(t)
    /\ DatabaseAnswers(t)
    /\ UNCHANGED <<place, disposalVars, callVars>>

-----------------------------------------------------------------------------
(* Dispose *)

\* The read of _disposed; a thread that finds it set has nothing to do.
CallDisposeContainer(p) ==
    /\ p \in Closers
    /\ Outside(p)
    /\ ~containerDisposed
    /\ MovesTo(p, "marking")
    /\ UNCHANGED <<vars, disposalVars, callVars>>

\* Of the threads that have found it unset, the first to increment goes on;
\* the others return while it does.
MarkContainer(p) ==
    /\ place[p] = "marking"
    /\ containerDisposed' = TRUE
    /\ containerDisposeCount' = containerDisposeCount + 1
    /\ MovesTo(p, IF containerDisposeCount = 0 THEN "executor" ELSE "out")
    /\ UNCHANGED <<vars, executorDisposed, closed, callVars>>

\* TryDispose of _executor; nobody else disposes it, and it has nothing to
\* release.
DisposeExecutor(p) ==
    /\ place[p] = "executor"
    /\ executorDisposed' = TRUE
    /\ MovesTo(p, "dispatcher")
    /\ UNCHANGED <<vars, containerDisposed, containerDisposeCount, closed, callVars>>

\* TryDispose of _dispatcher.
DisposeDispatcher(p) ==
    /\ place[p] = "dispatcher"
    /\ CallDispose(p)
    /\ MovesTo(p, "database")
    /\ UNCHANGED <<disposalVars, callVars>>

\* TryDispose of _dataBase once the dispatcher's Dispose has returned; router,
\* executors and persister are not disposable.
DisposeDatabase(p) ==
    /\ place[p] = "database"
    /\ pc[p] = "out"
    /\ closed' = TRUE
    /\ MovesTo(p, "out")
    /\ UNCHANGED <<vars, containerDisposed, containerDisposeCount, executorDisposed, callVars>>

-----------------------------------------------------------------------------

ContainerStep(t) ==
    \/ Route(t) \/ DispatcherStep(t)
    \/ MarkContainer(t) \/ DisposeExecutor(t)
    \/ DisposeDispatcher(t) \/ DisposeDatabase(t)

ContainerNext ==
    \/ \E p \in Producers :
        CallDisposeContainer(p) \/ \E e \in Envelopes : CallExecute(p, e)
    \/ \E t \in Threads : ContainerStep(t)

ContainerSafeSpec == ContainerInit /\ [][ContainerNext]_containerVars

\* The operating system runs every thread, and every task ends.
ContainerSpec ==
    ContainerSafeSpec /\ \A t \in Threads : WF_containerVars(ContainerStep(t))

-----------------------------------------------------------------------------
(* Properties *)

\* The values the fields of the container and its parts can have.
ContainerTypeOK ==
    /\ place \in [Threads -> ContainerPlaces]
    /\ task \in [Threads -> Envelopes \cup {None}]
    /\ \A t \in Threads : place[t] = "routing" => task[t] \in called \ offered
    /\ containerDisposed \in BOOLEAN
    /\ containerDisposeCount \in Nat
    /\ executorDisposed \in BOOLEAN
    /\ closed \in BOOLEAN
    /\ called \subseteq Envelopes
    /\ late \subseteq called

\* A call of Execute that begins after the Dispose that did the work has
\* returned is refused: the order in which the container disposes its parts
\* leaves no way to a closed database or a dispatcher without workers, except
\* for the calls that had passed EnsureNotDisposed before.
RefusedAfterDispose == late \cap offered = {}

\* How Execute ends is what the database says, for every call: those refused
\* after Dispose, and those that had passed EnsureNotDisposed when Dispose
\* began and met it in the persister, between Persist and _queue.Enqueue, or
\* in TryStartNewThread.  When no thread is busy with the envelope of a
\* persistent task that has not been executed, the next process finds it if
\* the call returned, and does not find it if the call threw.
ExecuteKeepsItsWord ==
    /\ RefusedAfterDispose
    /\ \A e \in Persistent \ executed :
        (\A t \in Threads : env[t] # e) => (e \in stored <=> e \in Accepted)

\* The parts are never used in the wrong order: the dispatcher drops tasks
\* only after the container has closed the way in, and a worker dies only of
\* the closed database, or of a releaser that throws.  What the next process
\* finds in the database although it has been executed, it finds because of
\* such a death.
RepeatsOnlyAfterShutdown ==
    /\ \A e \in fatal : closed \/ <<"release", e>> \in Faults
    /\ lost \ fatal # {} => executorDisposed
    /\ \A e \in stored \cap executed :
        e \in fatal \/ \E t \in Threads : env[t] = e /\ step[t] \in {"settle", "delete"}

\* Execute and Dispose return on every thread: no goto BEGIN of
\* TryStartNewThread or Dequeue keeps threads in step with each other for
\* ever, and Dispose waits neither for a thread that waits for it nor for
\* the callers of Execute.
EveryCallReturns == \A p \in Producers : ~Outside(p) ~> Outside(p)

\* Some thread has incremented a counter beyond its limit and has not
\* decremented it yet.
SomebodyIsRefused ==
    \E t \in Threads : pc[t] = "unclaim" \/ step[t] = "unreserve"

\* Every accepted task is executed, unless the container is disposed, in the
\* runs in which no thread is ever refused a slot: a refusal is the only way
\* in which a queued task can be forgotten.
AcceptedTasksRun ==
    []~SomebodyIsRefused =>
        \A e \in Envelopes :
            e \in Queued(Home[e]) ~> (e \in executed \/ containerDisposed)
=============================================================================
