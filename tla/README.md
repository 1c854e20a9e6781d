# DarkFlow in TLA+

DarkFlow is a .NET library that queues tasks and runs them on pool threads with
bounded concurrency, optionally keeping persistent tasks in a database until
they have run. This directory models the parts of it in which threads meet,
checks them with TLC and proves the central invariants with TLAPS. Paths are
relative to the repository root.

## 1. The system

| Component | State | Operations | Meets others through |
|---|---|---|---|
| Queued executor: `Execution/QueuedExecutor.cs`, `ExecutionEnvelope` | `_queue`, `_currentConcurrency` | `Enqueue`, `Dequeue`, `AfterExecute`, `ExecuteTask` | Interlocked counter, ConcurrentQueue, event `TaskAdded`, event `AfterExecute`, persister |
| Task dispatcher: `Execution/TaskDispatcher.cs`, `ExecutionInfo` | `_currentConcurrency`, `_executionInfos`, `_disposed` | `OnTaskAdded`, `TryStartNewThread`, `PerformTasks`, `TakeNextTask`, `Dispose` | Interlocked counter, TPL tasks, `Dequeue` of every executor |
| Executor facade, router: `Execution/Executor.cs`, `TaskRouter.cs` | `_disposed`, the executors by name | `Execute`, `Route` | synchronous calls |
| Persister, database: `Execution/PersisterBase.cs`, `Database/` | rows keyed by identifiers, or by the texts of identifiers | `Persist`, `Delete`, `LoadAll`, `GetAll`, `Dispose` | synchronous calls; lazy enumerations |
| Container: `Bootstrap/ExecutionContainer.cs`, `Misc/Disposable.cs` | the list to dispose; `_disposed` and `_disposeCount` of it and its parts | `Execute`, `Dispose` | disposes executor, dispatcher and database, in this order |
| Matchers and builders: `Matchers/`, `Bootstrap/` | the chains, fixed after the start; a cache of answers by type in each namespace and attribute matcher | `TryMatch`, `Build` | the threads that route share the caches, copy-on-write |
| Copy-on-write collections: `Misc/CollectionUtils.cs` | one reference to a set or dictionary | `ThreadSafeAdd`, `ThreadSafeRemove` | compare-and-swap of the reference |
| Monitor, counters: `Stat/Monitor.cs`, `Stat/Counter.cs` | the dictionary of counters; four 64-bit fields of each | `GetCounter`, `Increment`, the readers | copy-on-write, Interlocked, compare-and-swap loops |
| Scheduler, triggers: `Scheduling/`, `Triggers/` | trigger set, `_callback`, `_timer`, `_disposed`, tasks attached to a trigger | `AttachTrigger`, `DetachTrigger`, `Start`, `Stop`, `AttachTask`, `DetachTask`, `Dispose` | copy-on-write, timer callbacks, calls of the executor |
| Async tasks: `Async/` | `_completionStatus`, `_exception` | `Execute`, `Result` | one writer and readers without a lock |
| Castle Windsor facility: `DarkFlow.CastleWindsor/` | none of its own | registration | the container |
| Booking sample: `Sample/BookingService/` | the list of bookings of a room, which nothing guards | `BeginBook`, `TryBook`, `EndBook` | async tasks on a serial executor; callbacks of WCF |

What is hard in it:

* **Optimistic counters.** Both the executor and the dispatcher bound their
  concurrency by incrementing first and decrementing again when the result is
  above the limit. A thread can be refused because of another one that is being
  refused; the `goto BEGIN` on zero is there to repair that.
* **Wake-ups.** Nobody waits for tasks. A task is run because its enqueuer
  starts a worker or because a worker that is about to leave looks once more. A
  refusal at the wrong moment strands the task.
* **Two counters** (dispatcher and executor) that are changed one after the
  other, by different threads on the way in and on the way out.
* **Exceptions** out of the collaborators (persister, task releaser) at points
  where a slot is held.
* **Shutdown** while threads are being started, calls of `Execute` are under way,
  and tasks are still to be deleted from a database that is closed next.
* **Lazy enumerations** of a database in which other threads persist and remove.
* **State without a lock**: the status of an async task is read up to three times
  while it is written; the bookings of a room rely on their executor being serial.
* **Fields read several times** by one method: `CollectionUtils` reads the field
  again after it took `beforeCas`, `SetData` looks once before its loop.
* **Timer callbacks** that go on while their trigger is being stopped, and
  triggers that are attached, detached and disposed by several threads.
* **Crashes** between `Persist`, `Enqueue`, `Execute` and `Delete`.

`PROJECT.json` lists these hazards at their lines, with the properties that
would notice them going wrong, or the reason why there is none.

What makes each component correct:

* Queued executor: no more than `MaxConcurrency` of its tasks are out of the
  queue and unfinished; the counter is exact; each accepted task is given to one
  thread only and in order of arrival; a persistent task is in the database from
  its acceptance until it has been executed.
* Dispatcher: no more than `_maxConcurrency` workers; the counter is exact; a
  taken task is executed or, on shutdown, dropped; every call returns; no task
  hangs in a queue; after `Dispose` the pool comes to rest.
* The two together implement a plain task pool (module `TaskPool`).
* Container: a call after `Dispose` is refused; tasks are dropped, and executed
  tasks left in the database, only because of the disposal; what is not executed is
  in the database if and only if its call of `Execute` returned.
* Matchers: each task goes to the executor that the first matcher that matches it
  names, whatever caches and other threads do.
* Database: an enumeration that ends has returned all rows of its region that
  stayed, and no others.
* Copy-on-write: each operation takes effect at one moment; concurrent
  `GetCounter` calls of a name agree.
* Counter: minimum and maximum are those of the recorded durations.
* Scheduler: the triggers that run are those of the set, and a trigger that has
  been detached hands over no task any more.
* Async tasks: the holder of a task sees what an atomic future would show.
* Booking: bookings of a room do not overlap, and the status of a reply says
  whether the room has the booking.

## 2. The modules

| Module | What it is |
|---|---|
| `TaskPool` | abstract specification: tasks wait, are taken, and are finished or dropped |
| `QueuedExecutor` | executors and envelopes, under arbitrary callers |
| `TaskDispatcher` | extends `QueuedExecutor`: the callers are the application's threads and the dispatcher's workers |
| `AtomicSets` | abstract specification: collections whose calls take effect at one moment |
| `CopyOnWrite` | `CollectionUtils`, under arbitrary callers |
| `Monitoring` | extends `CopyOnWrite`: `Monitor` and `Counter` |
| `Scheduling` | extends `CopyOnWrite`: `Scheduler`, the triggers and their timers |
| `Container` | extends `TaskDispatcher`: `DisposableContainer`, `Executor`, router and a database that closes |
| `Matching` | extends `CopyOnWrite`: the chains of matchers that router and persister ask |
| `TaskDatabase` | abstract specification: rows keyed by identifiers, enumerations of a region; `InMemoryDatabase` is close to it (see `EsentDatabase` below) |
| `EsentDatabase` | `ManagedEsentDatabase` and `Identifier`: rows keyed by texts |
| `Future` | abstract specification: a task settles once, and asking for its result is atomic |
| `AsyncTask` | `AsyncTask` and its readers |
| `Booking` | extends `AsyncTask`: the sample service, with `TaskPool` as its executor |
| `MCQueuedExecutor`, `MCTaskDispatcher`, `MCHang`, `MCContainer`, `MCMonitoring`, `MCScheduling`, `MCMatching`, `MCEsentDatabase`, `MCBooking` | instances for TLC |
| `QueuedExecutorProofs` | theorems about `QueuedExecutor`: the counter that increments first and checks afterwards, where envelopes can be, limit, one place, persistence, order of starts, refinement of `TaskPool` |
| `ContainerProofs` | theorems about `TaskDispatcher` and `Container` |
| `CopyOnWriteProofs` | theorems about `CopyOnWrite`: atomicity, unique keys |
| `MonitoringProofs`, `SchedulingProofs` | theorems about `Monitoring`, with lemmas about sums over finite sets, and about `Scheduling` |
| `MatchingProofs` | theorems about `Matching` |
| `EsentDatabaseProofs` | theorems about `EsentDatabase`, with its refinement of `TaskDatabase` |
| `BookingProofs` | theorems about `Booking`, with the refinement of `Future` by `AsyncTask` |

### QueuedExecutor

`queue`, `concurrency` and `stored` are `_queue`, `_currentConcurrency` and the
contents of the database. `step[t]` is where thread `t` is inside a method,
`at[t]` the executor it is there for, and `env[t]` the envelope it has in a
local variable. Each action is one access to shared memory, so that the
interleavings TLC explores are those of the code:

| Code | Actions |
|---|---|
| `Enqueue` | `Enqueue`, `Persist` / `PersistFails`, `AppendToQueue`, `Check` (the plain read in line 57), `Signal` (raises `TaskAdded`) |
| `Dequeue` | `CallDequeue`, `Reserve`, `Unreserve` (with `goto BEGIN`), `Take`, `GiveBack` |
| `ExecutionEnvelope.ExecuteTask` | `ExecuteTask`, `TaskReturns` / `ReleaseFails` |
| `AfterExecute` | `Settle`, `Delete` / `DeleteFails` |
| the callers | `HandOver` (a TPL task is created and started with the envelope), `Abandon` (the reference is dropped) |

`offered`, `arrival`, `executed` and `lost` are history variables: the code does
not have them and no guard but one reads them (an envelope is created and
offered once, by `Executor.Execute`).

What is abstracted:

* An envelope stands for its task; `Home` gives the executor that
  `TaskRouter.Route` finds and `Persistent` the tasks that
  `IPersister.IsPersistent` accepts. Both are pure functions of the task and of
  a configuration that does not change after the start.
* `Task.Execute` is one action whose beginning (`ExecuteTask`) and end
  (`TaskReturns`) are apart. What a task does inside is not modelled; a task
  that itself calls `IExecutor.Execute` uses the same `Enqueue` as any producer,
  and is represented by one. A task that throws is the same as one that
  returns: `ExecuteTask` logs and swallows the exception. It also counts it
  (`Monitor.Increment`, line 86), which nothing catches; an application that gives
  its executor a monitor of its own can therefore lose a worker and its slot of the
  dispatcher to the exception of `lost_increment`. Containers of `ExecutorBuilder`
  have the `NullMonitor`, which is what is modelled.
* `Faults` names the collaborators' calls that may throw: a method and the
  envelope it is called for. The three methods are the ones whose failure leaves
  a counter, a queue or the database in a different state.
* The counters are 32-bit and bounded by the number of threads plus that of lost
  envelopes (`CounterIsExact`), so their width does not matter.
* The ConcurrentQueue is an atomic FIFO queue, and Interlocked operations are
  sequentially consistent, as the platform documents them. Line 57 is a plain
  read; a stale value of it is covered, because `Check` may be delayed
  past any number of other threads' steps, and a read earlier than
  `_queue.Enqueue` is excluded by the full fence inside that call.

### TaskDispatcher

`pc[t]` is where thread `t` is in the dispatcher, `step[t]` where it is in the
executor it has called, so an action is either a step of the dispatcher or an
executor's action joined with what the dispatcher makes of it (`Claim` with
`CallDequeue`, `Start` with `HandOver`, `Loop` with `ExecuteTask` or `Abandon`).
`active` is the dispatcher's `_currentConcurrency`, `scan[t]` the queues that
`TakeNextTask` has still to ask.

| Code | Actions |
|---|---|
| constructor | `QueueTotalConcurrency`, `Limit`, `Before` |
| `OnTaskAdded` | `OnTaskAdded` |
| `TryStartNewThread` | `Begin`, `Claim`, `Unclaim`, `AskNextQueue`, `Dequeueing`, `NoTaskFound`, `Start` |
| `ExecutionInfo.TakeFreeCell` | `TakeFreeCell` |
| `PerformTasks` | `Loop`, `Executing`, `Faulted`, `Leave` |
| `Dispose` | `CallDispose`, `MarkDisposed`, `DisposeReturns` |

* Pool threads are interchangeable: `Start` takes the first one that is free
  (`FreshWorker`). There are at least as many as envelopes, so
  that the model never waits for the pool: queueing inside the .NET pool is a
  delay of the new worker's first step.
* `Loop` joins the read of `_disposed` with the beginning of `ExecuteTask`, and
  `Leave` joins `Release` with the decrement. The properties below do not tell
  these apart (no property says that no task starts after `_disposed` is set,
  which would be false in the code).
* `QueuedExecutor.MaxConcurrency` returns `_settings.Priority`. The model does
  the same: the dispatcher's limit is computed from priorities, the executor's
  own limit from `_settings.MaxConcurrency`.
* `TakeFreeCell` leaves `executionInfos` as it is: the code exchanges its local
  variable instead of the array element, so the array stays empty.

### TaskPool

What a user is promised: `waiting` tasks are `taken` in order, within the limit
of their queue and of the pool, and then `finished` or `dropped`, once.
`QueueImplementsPool` and `ImplementsPool` state that the detailed modules
implement it, with `waiting <- queue`, `taken` the envelopes that a thread holds
or runs, `finished <- executed` and `dropped <- lost \ executed`.

### CopyOnWrite

`contents[c]` is what the collection holds that field `c` refers to. A published
collection is never written, so its identity matters only to `CompareExchange`:
`current` has the threads whose `beforeCas` is still in the field, and a
successful exchange removes all threads of that field from it. No counter of
versions is needed, and the specification is not bounded. `step[t]` follows the
three reads of the field: `beforeCas` (`ReadBefore`), `Contains` (`Refused`,
`Accepted`), the copy (`CopyToAdd`, `CopyToRemove`, `CopyThrows`), and the
exchange (`Installed`, `Overwritten`). `Key` is what the comparer of a collection
compares: the name of a trigger, the name of a counter, a task itself.
`Dictionaries` are the fields whose copy throws when it has the key already.

`AtomicSets` is the same interface with one action per call. `ImplementsSets`
maps a call to its successful exchange, or to the read that refuses it.

### Monitoring

| Code | Actions |
|---|---|
| `Monitor.GetCounter` | `LookupHits`, `LookupMisses`, `Adding`, `Added`, `NotAdded`, `AddThrew`, `LookupAgain` |
| `Counter.Increment` | `AddEntry`, `AddTotal`, `Minimum`, `Maximum` |
| `Counter.SetData` | `Glance` (the look before the loop), `ReadField`, `ExchangeMinimum`, `ExchangeMaximum` |

`name`, `duration`, `counter` and `seen` are local variables; `counted` is a
history variable, the calls that reached `entries` of a counter. The fields are
read in one step each, as on a 64-bit runtime. The callers that read a counter
see the values of its fields at some moment, so what they may see is stated as
invariants of the fields.

### Scheduling

| Code | Actions |
|---|---|
| `Scheduler.AttachTrigger` | `AttachTrigger`, `Attached` / `NotAttached` |
| `TriggerTemplate.Start` | `ReadCallback`, `ExchangeCallback` / `StartRefused` |
| `TimerBasedTrigger.OnStart` | `OnStart` (a new Timer runs as soon as it is created) |
| `Scheduler.DetachTrigger` | `DetachTrigger`, `Detached` / `NotDetached` |
| `TimerBasedTrigger.Stop`, `Dispose` | `DisposeTrigger`, `DisposedBefore` / `NotDisposedBefore`, `TakeTimer` / `NoTimerToTake`, `CloseTimer`, `TimerStopped` |
| `Scheduler.Dispose` | `DisposeScheduler`, `Sweep` and the actions of `DetachTrigger` |
| `AttachTask`, `DetachTask` | the same names, `TasksChanged` |
| timer callbacks | `Fire`, `ListTasks`, `HandOver`, `CallbackReturns` |

* When a timer is due is left to chance: `Fire` may happen at any moment while
  the timer is `ticking`, and happens once for a `OneTimeTrigger`. Due times and
  periods are ones that the constructor of `Timer` accepts: beyond about 49 days it
  throws out of `OnStart`, and the trigger stays attached, with `_callback` set and
  without a timer. That is not modelled.
* A `Timer` nobody refers to may be collected and then stops (`Collect`); it may
  also go on.
* `sawCallback` is whether `beforeCas` of `Start` was not null. Delegates compare
  by target and method and there is one scheduler, so this is all the test of
  `beforeCas != afterCas` can tell.
* `Scheduler.Dispose` reads the set once; an exception of one `DetachTrigger`
  ends it (`Ends`).
* `attachedOnce` and `misused` are history variables. A trigger is misused when it
  is attached a second time, attached and detached at overlapping times, or
  detached through another trigger of its name. (To dispose it at any time is
  careful enough: that finds a timer or does nothing.) The code does not
  defend against these uses, so `DetachedIsQuiet` and `AttachedIsRunning` are
  stated for the other triggers; run `reattach` shows what happens else.
* The executor's `Execute` is `HandOver` and is assumed to return. A task that
  runs on the timer's thread (`SynchronousExecutor`) and stops its own trigger
  would wait for itself; that is not modelled.

### Container

A thread of the application is in a method of the container (`place`) and below
it where `TaskDispatcher` says (`pc`, `step`). Nobody else has the dispatcher and
the database, so `Container` settles what `TaskDispatcher` leaves open: who
disposes, and when the database throws.

| Code | Actions |
|---|---|
| `DisposableContainer.Execute`, `Executor.Execute` | `CallExecute` (`EnsureNotDisposed`), `Route` (the flag is not looked at again) |
| `DisposableContainer.Dispose` | `CallDisposeContainer`, `MarkContainer`, `DisposeExecutor`, `DisposeDispatcher`, `DisposeDatabase` |
| threads in dispatcher and executors | `DispatcherStep`, in which `Persist` and `Delete` throw if and only if the database is closed |

`called` and `late` are history variables; a call is late when it begins after
the database has been closed, which is the last thing `Dispose` does. That a
closed database throws is taken from the code, which leaves `_database` disposed;
`InMemoryDatabase` is not disposable, and never throws; a container with it has
the same calls without this failure. The other parts that the container lists
(router, executors, persister) are not disposable.

### Matching

`Chains` has the matchers of `route` and of `persist` in order. A thread in
`Execute` is `at` one of them and leaves it through `Matches` or `DoesNotMatch`;
a lookup in the `_cache` of a matcher is `Hit` or `Miss`, and a miss goes through
`ThreadSafeAdd` as `CopyOnWrite` has it (`Adding`, `Added`, `AddThrew`).
A chain comes from the settings (`FromSettings`), through `Create.BuildMatcher`, or
is built in code (`RouteTasks(x => x.MarkedWith(...).To(name))`). `QueueName` is the
name with which a matcher answers: in code the argument of `To`; from the settings
`routeTo` or `no-matter`, and for an attribute matcher `no-matter` whatever `routeTo`
says. The settings know namespace and attribute matchers only. What a template, a
mask or a function makes of a task is given by constants (`matches`, `Format`), with
the assumption that namespace and attribute matchers look at nothing but the type.

The properties do not use `QueueName`: `Reference` sends a task to the `Target` of the
matcher that decides, the name that whoever configured it has written down.

`AggregateMatcherBuilder.ByContent` does not add the builder it returns, and
`MarkedWith` with four types passes the third twice. `Chains` are the matchers that
are there in the end, so both are outside the model.

### EsentDatabase

A text is the sequence of its segments between dots, so `TextOf` (`ToString`) appends the
guid to the name of the region and `Parse` takes the first two segments, as
`Split` and `tokens[0]`, `tokens[1]` do. A name of a region is the name of an
executor, and settings accept dots in it. Each row that an enumeration passes is
one action, `Visit`; the dictionary promises only that a key that was there all
the time is passed, so younger keys may be passed or not. `Persist` takes a new
identifier, as `Region.NewIdentifier` makes one. `Get` reads one row and is left
out. `InMemoryDatabase` is keyed by identifiers and has no texts to parse. It is not
`TaskDatabase` to the letter: the enumerator of its ConcurrentDictionary goes on with
the buckets it has begun with, so that after a resize it may return a row that was
removed before; nothing in the library enumerates it while others write.

### AsyncTask and Booking

| Code | Actions |
|---|---|
| `AsyncTask.Execute` | `PublishSuccess`, or `StoreException` and `PublishFailure`; `CallBack` |
| `Result`, `EnsureRanToCompletion` | `CallResult`, `ReadStep` (each read of `_completionStatus`, and that of `_exception`) |
| `BeginBook`, the executor | `BeginBook`, `Take`, `Complete` |
| `BookTask.Execute`, `TryBook` | `BookNothing` (a null request throws), `RejectBooking`, `FindFree` and `AddBooking` (`Find` and `Add` are apart) |
| `EndBook` | `BeginEndBook`, `EndBook` (the status; the `Message` of the reply, which is that of a rejection even for an approved booking, is left out) |
| a client that asks before it is called back | `Poll`, `PollEnds` |

The executor is known to `Booking` by what `TaskPool` promises: the module uses
its actions through an instance of width 1, which is what `Program.cs` configures.
`AsyncTask` implements `Future`: settled is what the status says, and an answer is
given at the read that decides it.

## 3. The runs

| Run | Instance | Shows |
|---|---|---|
| `queued_executor` | 3 threads, 3 envelopes; one serial executor, one of width 2; each of persist, release and delete may throw for one envelope and succeeds for another; threads symmetric | types, `CounterIsExact`, `ConcurrencyLimit`, `StartsInArrivalOrder`, `PersistedUntilExecuted`, `OnePlace`, `StoredIsOwed`, and the refinement of `TaskPool` |
| `dispatcher` | 2 producers, one of which may dispose, 3 workers, 2 executors of priority 5 and 1, 3 envelopes; dispatcher limit 2; release and delete may throw | `ActiveIsExact`, `DispatcherLimit`, and the refinement of `TaskPool` that is `_maxConcurrency` wide, disposal included |
| `container` | 2 producers that call and dispose, 2 workers, 1 serial executor, limit 1, 2 envelopes, of which 1 persistent; fair | `ExecuteKeepsItsWord`, `RepeatsOnlyAfterShutdown`, `EveryCallReturns`, `TakenTasksEnd`, `ShutdownQuiesces`, `AcceptedTasksRun` |
| `monitoring` | 2 threads that call `Increment` twice each, 2 names, durations 1 and 2; fair | `OneCounterPerName`, `NoUglyRace`, `CounterExactAtRest`, `ExtremesEnclose`, `IncrementsEnd` |
| `scheduling` | 2 threads with 2 calls each, a periodical and a one-time trigger of one name, 1 task, 2 timers, 1 thread for callbacks; fair | `KeysUnique`, `DetachedIsQuiet`, `AttachedIsRunning`, `ImplementsSets`, `CallsReturn` |
| `matching` | chains built in code: 2 threads, 5 tasks of 3 types, a route through a matcher of each kind, 1 matcher of persistence | `RoutedByFirstMatch` |
| `database` | regions a, b and a.b, 2 guids, 1 enumeration, 1 row that does not deserialise | `LoadIsExact`, and the refinement of `TaskDatabase` |
| `booking` | 2 requests for any periods of 4 days, for another room, or null; a thread of WCF and an early client | `OverlapOnlyInside`, `ApprovedIsBooked`, and the refinement of `Future` |
| `lost_increment` | the instance of `monitoring` | a counterexample to `EveryIncrementCounted` |
| `reattach` | 1 thread with 4 calls, 1 trigger | a counterexample to `DetachStops` |
| `hang` | limit 1 | a counterexample to `NoTaskHangs` |
| `settings_routes` | the chains of `Tests/App.config` | a counterexample to `RoutedByFirstMatch` |

Bounds. Nothing is bounded inside the specifications of the executors: the
envelopes bound `offered`, and with it queues and histories; the counters are bounded by the
threads. Three threads are enough for a holder, a thread that is being refused,
and a third one that is refused because of the second; two envelopes of one
executor make order and the limit matter, and the third one, of the other
executor, makes the scan by priority and the dispatcher's limit matter. The
dispatcher's limit of 2 with two producers lets a start and a refusal meet a
worker that leaves. `MaxIncrements` and `MaxCalls` bound the calls of a thread in
`Monitoring` and `Scheduling`, and `Timers` the timers at a time. Two calls of
each thread let an exchange be overtaken twice, a new name meet a known one, and a
third call (dispose, detach) overlap an attached trigger's callbacks; the
durations 1 and 2 let a larger and a smaller value race for each extreme. Symmetry is used in the run without temporal liveness only.

`Container` is bounded by its envelopes: each is the argument of one call. Two
threads let a call overlap a disposal, and two disposals each other; the serial
executor with a limit of 1 is where the retry loops collide most. In `Matching`
the tasks differ in what each kind of matcher makes of them, two of one type
included, and two threads meet at a cold cache of one matcher or follow each other
through a chain; one route leads to an executor that does not exist. In `EsentDatabase` the regions are a name with a dot and its two
parts. Four days are the least on which one period lies strictly inside another
one. These runs state no fairness but `container`, and have no bounds of their
own: identifiers, tasks and requests are used once, everything else returns.

`hang`, `dispatcher` and `container` set `CHECK_DEADLOCK FALSE`:
when all envelopes are offered and all threads have left the dispatcher the
system stops. The runs of `Monitoring` and `Scheduling` stop when the calls are
used up. In the others a thread may always do something (call `Dequeue`, execute
another task, begin an enumeration, ask for a result), so deadlock is checked
there.

Fairness (`FairSpec`, `ContainerSpec`): weak fairness of each thread's next step once it is in a
method, because the operating system and the TPL run every thread that is ready
and tasks are assumed to end. Nothing obliges a producer to call `Execute` or
`Dispose`, a thread to call the monitor or the scheduler, or a timer to be due;
a callback that has begun goes on. No strong fairness is assumed. All liveness properties hold
under weak fairness in spite of the retry loops: to be repeated, a loop needs
another thread's step, and at these bounds there are only finitely many.

Each property of a passing run has a mutant, listed in `PROJECT.json`: a
definition with the shape of a plausible mistake that replaces an action. It stands
under the heading "Plausible mistakes" or right before the action it replaces. The property must be violated by it.

## 4. What the runs found

* **A task can hang** (`hang`). The retry in `TaskDispatcher.cs` lines 139-143
  is meant to prevent it. But a worker, or the retry itself, looks into the queues
  while it still holds its slot. A producer that enqueues after the look and
  is refused before the slot is given back returns, and line 94 gives the slot
  back without another look. `QueuedExecutor.Dequeue` has the same window
  between `Take` and `GiveBack`, and line 57 a third one. `AcceptedTasksRun`
  shows the other side: in the behaviours in which nobody is refused, every
  accepted task runs. The theorem `RefusalsAloneStrand` says as much of the hanging,
  for any number of threads: without a refusal nothing hangs.
* **Routes by attribute in the settings are not followed** (`settings_routes`).
  `Create.cs` line 62 passes `executorName` to the matcher instead of the `routeTo`
  that line 50 has computed. A task that only such a route matches gets the name
  `no-matter`, and `Execute` throws, because no executor is called so. The file
  `Tests/App.config` configures just this, and `ConfigurationTests` checks that it is
  read, but no test routes a task through it. The theorem `AttributeRoutesCorrect`
  says that there is no other way, for any chains.
* **A trigger cannot be used twice** (`reattach`). After attach, detach, attach,
  detach its timer is still there: the second `Start` is not refused, and the
  second `Stop` returns early because `_disposed` is still set. The same
  property fails when a trigger is detached between its addition to the set and
  `Start`, and when it is detached through another trigger of its name. The theorem
  `OnlyMisuseKeepsTimers` says that there is no other way.
* **The monitor can lose a call** (`lost_increment`). `ThreadSafeAdd` for
  dictionaries throws when another thread installs the same key between
  `ContainsKey` and the copy. By `OnlyExceptionsLose` there is no other way, and by
  `LossBounded` a thread loses at most one call of each name.

What the models say besides, without a counterexample of its own:

* **A limit of zero.** `MaxConcurrency` returns the priority, and the sum of the
  priorities is cast to `byte` (`QueueTotalConcurrency`). With priority 0, which
  the settings accept, or a sum of 256, the limit is 0 and the `goto BEGIN` of
  `TaskDispatcher.cs` line 76 repeats for ever. `EveryCallReturns` is checked with
  another sum.
* **Dispose does not wait.** `TakeFreeCell` in `TaskDispatcher.ExecutionInfo.cs`
  exchanges a local variable, so the array on which `DisposeManaged` waits is empty and
  `DisposeReturns` is enabled while tasks run. The test
  `Dispose_not_returns_until_all_tasks_finished` asserts just that in its body, so that
  there is no promise to refute; what it costs is in `RepeatsOnlyAfterShutdown` (tasks
  that are executed again) and `ExecuteKeepsItsWord` (what is left is at least known).
* **The order in `AfterExecute`.** The slot is given back before the task is deleted,
  so the next task of a serial executor may start while the previous one is stored.
  No property forbids it.
* **The first tasks of a type.** The exception of the monitor's dictionary can also
  cost a call of `Execute` its task, once for each type and matcher; the second
  disjunct of `RoutedByFirstMatch` says when.
* **A period inside another.** `BookPeriod.Intersects` overlooks a new period that
  lies strictly inside a booked one; `OverlapOnlyInside` says that this is the only
  way to an overlap.
* **Regions with dots.** A row of one makes every enumeration of the Esent database
  fail, also that of other regions (`Spoils` of `TaskDatabase`).
* **The second `Dispose`.** A thread that disposes while another one does returns at
  once, before the parts are disposed; the same holds for each part.

## 5. The proofs

For any number of threads, executors and envelopes, any limits and any set of
faults, from `QueueAssumption` and `DispatcherAssumption` alone:

| Theorem | Statement |
|---|---|
| `TypeCorrect` | `QueueSpec => []QueueTypeOK` |
| `CounterCorrect` | `QueueSpec => []CounterIsExact` |
| `LimitCorrect` | `QueueSpec => []ConcurrencyLimit` |
| `OnePlaceCorrect` | `QueueSpec => []OnePlace` |
| `PersistenceCorrect` | `QueueSpec => []PersistedUntilExecuted` |
| `StoredIsOwedCorrect` | `QueueSpec => []StoredIsOwed` |
| `StoredWasAccepted` | `QueueSpec`: what is stored and with no thread is of an `Enqueue` that did not throw |
| `OrderCorrect` | `QueueSpec => []StartsInArrivalOrder` |
| `QueuesArePool` | `QueueSpec => QueueImplementsPool` |
| `DispatcherTypeCorrect` | `Spec => []DispatcherTypeOK` |
| `DispatcherUsesQueues` | `Spec => QueueSpec` |
| `DispatcherKeepsQueueLimits`, `DispatcherKeepsTasks` | the executor's properties under the dispatcher |
| `ActiveCorrect` | `Spec => []ActiveIsExact` |
| `DispatcherLimitCorrect` | `Spec => []DispatcherLimit` |
| `DispatcherIsPool` | `Spec => ImplementsPool` |
| `TasksAnnouncedCorrect` | `Spec /\ []~SomebodyIsRefused => []TasksAnnounced`: each queued task has a thread of its own that will ask for it |
| `RefusalsAloneStrand` | `Spec /\ []~SomebodyIsRefused => []NoTaskHangs` |

For any number of threads, fields, items, names and triggers, from
`CopyOnWriteAssumption`, `MonitoringAssumption` and `SchedulingAssumption`:

| Theorem | Statement |
|---|---|
| `CowTypeCorrect` | `CowSpec => []CowTypeOK` |
| `CopyOnWriteIsAtomic` | `CowSpec => ImplementsSets` |
| `KeysUniqueCorrect` | `CowSpec => []KeysUnique` |
| `SchedulerUsesSets` | `Spec => CowSpec` of `Scheduling` |
| `SchedulerKeepsNames`, `SchedulerIsAtomic` | the same for the scheduler and its triggers |
| `SchedulingTypeCorrect` | `Spec => []SchedulingTypeOK` |
| `DetachedIsQuietCorrect` | `Spec => []DetachedIsQuiet` |
| `AttachedIsRunningCorrect` | `Spec => []AttachedIsRunning` |
| `OnlyMisuseKeepsTimers` | `Spec => [](misused = {} => DetachStops)` |
| `NoUglyRaceCorrect` | `Spec => []NoUglyRace` of `Monitoring` |
| `OneCounterCorrect` | `Spec => []OneCounterPerName` |
| `MonitoringTypeCorrect` | `Spec => []MonitoringTypeOK` |
| `ExtremesCorrect` | `Spec => []ExtremesEnclose` |
| `CounterExactCorrect` | `Spec => []CounterExactAtRest` |
| `CallsCountedOnce` | `Spec => []EndedCallsSettled`: a call that returned was counted once, in one counter, and one that threw in none |
| `OnlyExceptionsLose` | `Spec => [](failed = {} => EveryIncrementCounted)` |
| `LossBounded` | `Spec => []LossIsBounded`, if the names are finitely many: a thread loses at most one call of each |

For any number of threads, executors and envelopes, from `QueueAssumption`,
`DispatcherAssumption` and `ContainerAssumption`:

| Theorem | Statement |
|---|---|
| `ContainerTypeCorrect` | `ContainerSafeSpec => []ContainerTypeOK` |
| `RefusedAfterDisposeCorrect` | `ContainerSafeSpec => []RefusedAfterDispose` |
| `ExecuteKeepsItsWordCorrect` | `ContainerSafeSpec => []ExecuteKeepsItsWord` |
| `ContainerUsesDispatcher`, `ContainerKeepsTasks` | every step is one of the dispatcher's or leaves it alone; its properties under the container |
| `RepeatsCorrect` | `ContainerSafeSpec => []RepeatsOnlyAfterShutdown` |
| `ContainerIsPool`, `ContainerRefusalsAloneStrand` | `DispatcherIsPool` and `RefusalsAloneStrand` under the container |

For any chains, tasks and threads, from `CopyOnWriteAssumption` and
`MatchingAssumption`; for any identifiers and readers, from `DatabaseAssumption`; for any tasks, calls,
rooms and periods, from `AsyncAssumption` and `BookingAssumption`:

| Theorem | Statement |
|---|---|
| `MatchingTypeCorrect` | `MatchingSpec => []MatchingTypeOK` |
| `RoutedCorrect` | `AttributeRoutesAreDefault => (MatchingSpec => []RoutedByFirstMatch)`: no attribute matcher from the settings has a `routeTo` other than `no-matter` |
| `AttributeRoutesCorrect` | `MatchingSpec => []OnlyAttributeRoutesFail`: for any chains, a call is routed otherwise only if its first match is an attribute matcher from the settings, and is then refused unless an executor is called `no-matter` |
| `EsentTypeCorrect` | `Spec => []EsentTypeOK` of `EsentDatabase` |
| `LoadIsExactCorrect` | `Spec => LoadIsExact` of `EsentDatabase` |
| `EsentImplementsDatabase` | `Spec => ImplementsDatabase` of `EsentDatabase` |
| `BookingTypeCorrect` | `BookingSpec => []BookingTypeOK` |
| `AsyncTaskIsFuture` | `BookingSpec => ImplementsFuture` |
| `OverlapCorrect` | `BookingSpec => []OverlapOnlyInside` |
| `ApprovedCorrect` | `BookingSpec => []ApprovedIsBooked` |

**Executors.** The limit is not inductive: a step of `Reserve` compares the
counter with `MaxConcurrency`, so the limit follows only if the counter is exact.
Nor is exactness: that a decrement removes one element of `Charged(q)` needs that
the thread is charged to `q` and, when an envelope becomes lost, that it was not
lost before, which needs that it is in one place only. The argument therefore has
three layers.

1. `PlacesOK` (theorem `PlacesInvariant`), an inductive invariant without
   cardinalities: types; a thread that is in a step has the executor and the
   envelope the step needs (`FrameOK`); queued envelopes are offered, queued on
   their home executor, at one position, and neither executed nor lost
   (`QueuesOK`); an envelope with a thread is with one thread, and is not executed
   or lost while it still can be (`HoldersOK`).
2. Counting (`EffectKeepsCount` and the lemmas before it): a step leaves the counted set alone, adds one element, removes
   one or replaces one, and changes the counter accordingly; that keeps the
   counter exact and those within the limit within the limit
   (`EffectKeepsCount`). `StepEffect` says which of these each action is, using
   `PlacesOK`.
3. `AcceptanceOK`, on top of `PlacesOK`: an envelope has not arrived before
   `_queue.Enqueue`, and afterwards waits, is with a thread, or is done with; a
   persistent one is stored when it arrives; a thread on its way to `Delete` has
   executed its envelope.

The order of starts follows from these. A queue is a suffix of its arrival order, so
an unfinished envelope that arrived before a started one is with a thread and holds a
slot; the started one holds another. The map from those envelopes to slots is an
injection, and the pigeonhole principle gives the bound. The same argument shows that
the executors are task pools: a thread that is about to take an envelope has a slot
that none of the taken ones needs (`HoldersSuffice`, `SlotForTaker`), so there is room
for it in the pool; every other step finishes or drops a taken envelope, adds one to
a queue, or is a stutter (`StepImplementsPool`).

**Dispatcher.** `StepIsQueueStep` shows that every step is one of `QueueNext` or
leaves the executors alone, which carries the executors' theorems over. For the
dispatcher's own counter the counting lemmas are used again
(`SlotEffect`). What it needs of the envelopes is that one whose exception ended a
worker is counted once: it is nowhere any more, and an envelope that is nowhere
stays nowhere (`NowhereForGood`). That the dispatcher is a task pool of width
`_maxConcurrency` needs one more invariant, `TakenFits`: who has an envelope has a
slot of the dispatcher (`StagesOK`).

That nothing hangs without a refusal is an argument by numbers, `TasksAnnounced`:
before `Dispose`, a queue has no more tasks than there are threads on the way to it
(`Announces`), from `_queue.Enqueue` through `OnTaskAdded` and `TryStartNewThread`,
with this executor as the argument, to `TryDequeue`. An append brings a task and such
a thread; a `TryDequeue` takes both away, or finds the queue empty; and a worker that
scans the queues only takes tasks (`Heeds`). What would break it is a thread that turns
away before: at line 57, which needs a counter above its limit and so somebody who is
refused (`BelowLimit`, from the exact counter), or by being refused itself. The workers'
retries play no part in it; they are there for the refused.

**Copy-on-write.** That the three reads of a field are harmless is not obvious
from any one of them. The invariant (`PlanOK`) says what a thread knows as long
as its `beforeCas` is still in the field: then the field has not changed since,
so `Contains` and the copy have seen the same collection, and what it is about
to install is that collection with the item added or removed (`Prepared`). Every
step of another thread leaves that alone or takes the thread out of `current`
(`OthersKeepPlan`). A successful exchange is then the atomic call of `AtomicSets`.
The scheduler's steps are steps of `CopyOnWrite` or leave it alone, which carries
the theorems over.

**Scheduler.** `FrameInv` says what a thread has in hand at each stage of its call, and
that a timer has one owner and one reference. `LifeInv` is the life of a trigger that
is not misused: before it is started it has no timer (`FreshOK`); one thread attaches
it, and the set holds it from the moment that thread has its answer (`AttacherOK`);
nobody else can take it out of the set (`DetacherOK`); its timer is with the trigger or
with the one thread that stops it (`TimerOK`); and once it has left the set, a timer is
left only with threads that are about to take it (`HeldOK`). None of the five is
inductive without the others. A step either ends a call, goes on with one or begins one
without touching the trigger (`LeavingKeepsLife`, `ProceedingKeepsLife`,
`BeginningKeepsLife`), or is one of seven that have a lemma of their own.

**Monitor.** The argument is monotonicity: nothing leaves the dictionary
(`DictionaryGrows`, from `Prepared`), and it has a name once (`KeysUnique`). So a
refusal of `ThreadSafeAdd` means that the name is found by every later lookup
(`StageOK`), and that all find the same counter. For the extremes it is monotonicity
again: the minimum only falls and the maximum only rises. What a thread is about to
write has been counted and is better than what it has read last (`WriterOK`), and a
counted duration is enclosed unless its own call is still on the way (`EntryOK`).

For the numbers of a counter `ChargesOK` says that `entries` is the number of calls
counted there and `total` the sum of the durations of those calls that have passed
`AddTotal` (`Summed`). The sum is a function defined by recursion on finite sets
(`SumsUp`). That there is one, and that it does not depend on the order in which it is
taken, is shown by the smallest set for which it fails (`SmallestSet`): finite sets
are well-founded under inclusion. Each call is then counted exactly once
(`CallsOK`): before it comes to `entries` nowhere, afterwards in one counter.
The exception costs a thread at most one call of a name, because it shows that the name
has a counter by then, and the next lookup finds it: the failures of a thread are no
more than the names that have one, and one less while it is adding (`LossOK`).

**Container.** `ContainerInv` orders the disposal: the database is closed only when
the flag of the container is set, and a thread between `EnsureNotDisposed` and the
route has a task of its own that was not asked for too late. What the next process
finds needs two more facts, which the theorems about the dispatcher do not give:
`Owed`, an executed task that is still stored is on its way to `Delete` or its worker
has died, and `LossOK`, who marks the dispatcher disposed comes from the container,
and workers die of a closed database or of a releaser. That `Execute` keeps its word is
a fact about executors: what is stored has arrived or is with a thread between `Persist`
and `_queue.Enqueue`, which does not throw (`StoredOnTheWay`), and what has arrived is
stored until it is executed (`PersistenceCorrect`).

**Matching.** The proof is about the names that the matchers have, `AsBuilt`, and
`BuiltAsConfigured` compares these with the configured ones at the end: they differ
for attribute matchers from the settings only. A thread that is at a matcher has passed all those before it (`WayOK`),
and a thread at the second chain has left the first one where it ends; a chain ends at
one matcher only (`DecisiveOne`). The caches need two facts: each entry says what its
matcher says of every task of the type (`CacheOK`, from the assumption that these
matchers look at the type alone), and they only grow (`CachesGrow`), so that a call
that was warm when it began stays warm (`ColdBefore`) and never reaches
`ThreadSafeAdd`.

**Database.** `TextInjective` says that texts of different identifiers differ, even
with dots, because the guid has none and comes last; `TextParses` that the first two
segments are the identifier exactly if its region has no dot. With that `GivenOK`
holds: what a reader has been given are the identifiers of its region whose texts it
has passed, and the refinement maps a passed row to a row of `TaskDatabase`.

**AsyncTask and Booking.** `StatusOK` says what `Execute` has written at each of its
stages, and `ReaderOK` what a reader knows after each read: the status changes once,
and the exception is stored before it says so, which makes three reads as good as
one. `PoolOK` says that one task at most is taken at a time, from the promise of the
pool with width 1; therefore what `Find` has seen is still true when `Add` follows
(`BookOK`), and an overlap is one that `Intersects` overlooks, not a race.

Counters of slots have type `Int` in the invariants, because that they are never
negative is a consequence of exactness.

The theorems about the properties that runs refute have a condition each: nobody is
refused, nothing has thrown, nobody was careless, no attribute matcher from the
settings has a route of its own. It holds of ordinary behaviours (one thread at a time
and a free slot, names that have a counter, triggers that are used once, routes by
namespace, or in code), and the counterexamples of `hang`, `lost_increment`, `reattach`
and `settings_routes` show that it cannot be left out.

Only model-checked: all liveness (`EveryCallReturns`, `TakenTasksEnd`,
`ShutdownQuiesces`, `AcceptedTasksRun`, `IncrementsEnd`, `CallsReturn`), which is out of
the prover's reach.

## 6. Not modelled

* Thread names (`_threadNames`), logging, argument checks that only throw, and
  `Require` of the library, true at every call in it.
* `SynchronousExecutor` and `ExplicitExecutor`, which run or forward a task on the
  calling thread and keep no shared state.
* Start times (`StartTimes`): pure functions of the clock. `Scheduling` has their
  answers as choices of the environment.
* Builders and the configuration section: they run once, on one thread, before the
  container exists. What they make of the settings is in `QueueName` and the
  constants of `Matching` and `TaskDispatcher`.
* Serialization of tasks, and what ESENT does below a `PersistentDictionary`, whose
  writes are taken as durable. `Get` of the databases reads one row.
* The getters that `ContentMatcher` compiles and remembers: private to a matcher, a
  value that is computed twice is the same.
* Finalizers. `Disposable.Dispose(false)` runs when nobody has a reference any more.
* The Windsor facility: registrations in a third-party container.
* The hosting of the booking sample: WCF, the console programs and the web client.
  The scripts under `src/Sample/BookingClient/Scripts` (jQuery, Bootstrap) are
  distributed with the client as they are; they are no part of DarkFlow, and no
  definition models them.

## 7. Plan

Done:

1. `TaskPool`, `QueuedExecutor`, `TaskDispatcher`, their runs and theorems.
2. `CopyOnWrite`, `Monitoring` and `Scheduling`.
3. `Container`, `Matching`, `EsentDatabase`, `AsyncTask` and `Booking`.
4. The theorems: every invariant and every refinement that a passing run checks, and
   for each of the properties that runs refute, the condition under which they hold.

Nothing of the plan is left; section 6 has what is not modelled.
