----------------------------- MODULE Scheduling -----------------------------
(***************************************************************************)
(* Scheduler, TriggerTemplate and TimerBasedTrigger: callers attach,       *)
(* detach and dispose triggers and their tasks, and timers hand the tasks  *)
(* of started triggers to the executor on threads of their own.  The       *)
(* scheduler's set of triggers and the task sets of the triggers are       *)
(* shared by copying (CopyOnWrite); the scheduler's comparer takes two     *)
(* triggers of one name for the same.                                      *)
(*                                                                         *)
(* The executor is only called: what it does with a task is the subject    *)
(* of TaskDispatcher.  OneTimeTrigger and PeriodicalTrigger always pass    *)
(* Validate.                                                               *)
(***************************************************************************)
EXTENDS CopyOnWrite, Naturals

CONSTANTS
    Triggers,       \* trigger objects
    OneTime,        \* those that fire once
    Tasks,          \* tasks to attach to them
    Scheduler,      \* the field _triggers of the scheduler
    Timers,         \* Timer objects; bound: so many are ever created
    NoTimer,        \* null
    Workers,        \* threads of the pool that run timer callbacks
    MaxCalls        \* bound: the calls of each thread

ASSUME SchedulingAssumption ==
    /\ Scheduler \notin Triggers /\ Cells = {Scheduler} \cup Triggers
    /\ Dictionaries = {}
    /\ Items = Triggers \cup Tasks /\ Triggers \cap Tasks = {}
    /\ \A k \in Tasks : \A i \in Items : Key[k] = Key[i] => k = i
    /\ OneTime \subseteq Triggers
    /\ NoTimer \notin Timers \cup Triggers
    /\ MaxCalls \in Nat

VARIABLES
    stage,          \* the next step of a calling thread
    trigger,        \* the trigger its call is about
    rest,           \* the triggers Scheduler.Dispose has still to detach
    sawCallback,    \* whether beforeCas of Start was not null
    oldTimer,       \* the local variable timer of Dispose
    callback,       \* the triggers whose _callback is set
    timer,          \* _timer of each trigger
    disposed,       \* the triggers whose _disposed is set
    owner,          \* the trigger a Timer was created for
    ticking,        \* the Timers that will still fire
    running,        \* the Timer whose callback a worker runs
    listed,         \* the workers whose callback has read AttachedTasks
    enumerated,     \* the tasks their callbacks have still to hand over
    calls,          \* history: the calls of each thread
    attachedOnce,   \* history: the triggers that were attached
    misused         \* history: those whose owners were not careful

callerVars == <<stage, trigger, rest, sawCallback, oldTimer, calls>>
triggerVars == <<callback, timer, disposed>>
timerVars == <<owner, ticking, running, listed, enumerated>>
usageVars == <<attachedOnce, misused>>
vars == <<cowVars, callerVars, triggerVars, timerVars, usageVars>>

NoTrigger == NoTimer    \* null as well

Stages == {"idle", "attaching", "starting", "exchanging", "on start",
           "detaching", "stopping", "taking", "closing", "waiting",
           "sweeping", "changing tasks"}

SchedulingTypeOK ==
    /\ CowTypeOK
    /\ stage \in [Threads -> Stages]
    /\ trigger \in [Threads -> Triggers \cup {NoTrigger}]
    /\ rest \in [Threads -> SUBSET Triggers]
    /\ sawCallback \subseteq Threads
    /\ oldTimer \in [Threads -> Timers \cup {NoTimer}]
    /\ \A t \in Threads : stage[t] \in {"closing", "waiting"} => oldTimer[t] # NoTimer
    /\ callback \subseteq Triggers
    /\ timer \in [Triggers -> Timers \cup {NoTimer}]
    /\ disposed \subseteq Triggers
    /\ owner \in [Timers -> Triggers \cup {NoTrigger}]
    /\ ticking \subseteq {m \in Timers : owner[m] # NoTrigger}
    /\ running \in [Workers -> Timers \cup {NoTimer}]
    /\ listed \subseteq Workers
    /\ enumerated \in [Workers -> SUBSET Tasks]
    /\ calls \in [Threads -> 0..MaxCalls]
    /\ attachedOnce \subseteq Triggers /\ misused \subseteq Triggers

Init ==
    /\ CowInit
    /\ stage = [t \in Threads |-> "idle"]
    /\ trigger = [t \in Threads |-> NoTrigger]
    /\ rest = [t \in Threads |-> {}]
    /\ sawCallback = {}
    /\ oldTimer = [t \in Threads |-> NoTimer]
    /\ callback = {}
    /\ timer = [r \in Triggers |-> NoTimer]
    /\ disposed = {}
    /\ owner = [m \in Timers |-> NoTrigger]
    /\ ticking = {}
    /\ running = [w \in Workers |-> NoTimer]
    /\ listed = {}
    /\ enumerated = [w \in Workers |-> {}]
    /\ calls = [t \in Threads |-> 0]
    /\ attachedOnce = {}
    /\ misused = {}

-----------------------------------------------------------------------------
(* Calls *)

Goes(t, from, to) ==
    /\ stage[t] = from
    /\ stage' = [stage EXCEPT ![t] = to]

\* The call returns or throws.  Scheduler.Dispose goes on with the next
\* trigger, unless it throws.
Ends(t, from, threw) ==
    /\ stage[t] = from
    /\ stage' = [stage EXCEPT ![t] = IF threw \/ rest[t] = {} THEN "idle" ELSE "sweeping"]
    /\ trigger' = [trigger EXCEPT ![t] = NoTrigger]
    /\ rest' = IF threw THEN [rest EXCEPT ![t] = {}] ELSE rest
    /\ sawCallback' = sawCallback \ {t}
    /\ oldTimer' = [oldTimer EXCEPT ![t] = NoTimer]
    /\ UNCHANGED calls

Begins(t, to, r) ==
    /\ calls[t] < MaxCalls
    /\ Goes(t, "idle", to)
    /\ trigger' = [trigger EXCEPT ![t] = r]
    /\ calls' = [calls EXCEPT ![t] = @ + 1]
    /\ UNCHANGED <<sawCallback, oldTimer>>

Twins(r) == {s \in Triggers : Key[s] = Key[r]}

InAttach(s) == \E u \in Threads :
    trigger[u] = s /\ stage[u] \in {"attaching", "starting", "exchanging", "on start"}

InDetach(s) == \E u \in Threads : trigger[u] = s /\ stage[u] = "detaching"

\* Careless uses: to attach a trigger again or while it is detached; to detach
\* it while it is attached or by its name.  (Not in the code.)
AttachIsCareless(r) == r \in attachedOnce \/ \E s \in Twins(r) : InDetach(s)

CarelesslyDetached(r) ==
    {s \in Twins(r) : InAttach(s)} \cup (attachedOnce \cap (Twins(r) \ {r}))

-----------------------------------------------------------------------------
(* Scheduler.AttachTrigger and TriggerTemplate.Start *)

AttachTrigger(t, r) ==
    /\ Begins(t, "attaching", r)
    /\ Call(t, "add", Scheduler, r)
    /\ misused' = misused \cup (IF AttachIsCareless(r) THEN {r} ELSE {})
    /\ attachedOnce' = attachedOnce \cup {r}
    /\ UNCHANGED <<rest, triggerVars, timerVars>>

Attached(t) ==
    /\ step[t] = "true"
    /\ Goes(t, "attaching", "starting")
    /\ Return(t)
    /\ UNCHANGED <<trigger, rest, sawCallback, oldTimer, calls, triggerVars, timerVars,
                   usageVars>>

\* "Trigger named '{0}' already attached."
NotAttached(t) ==
    /\ step[t] = "false"
    /\ Ends(t, "attaching", TRUE)
    /\ Return(t)
    /\ UNCHANGED <<triggerVars, timerVars, usageVars>>

\* beforeCas = _callback
ReadCallback(t) ==
    /\ Goes(t, "starting", "exchanging")
    /\ sawCallback' = IF trigger[t] \in callback THEN sawCallback \cup {t} ELSE sawCallback
    /\ UNCHANGED <<cowVars, trigger, rest, oldTimer, calls, triggerVars, timerVars, usageVars>>

\* Delegates to the same method of the same scheduler are equal, so the test
\* of beforeCas and afterCas fails only if the field was null before.
StartedMeanwhile(t) == t \notin sawCallback /\ trigger[t] \in callback

\* "Method Start should be called once."
StartRefused(t) ==
    /\ StartedMeanwhile(t)
    /\ Ends(t, "exchanging", TRUE)
    /\ UNCHANGED <<cowVars, triggerVars, timerVars, usageVars>>

ExchangeCallback(t) ==
    /\ ~ StartedMeanwhile(t)
    /\ Goes(t, "exchanging", "on start")
    /\ callback' = callback \cup {trigger[t]}
    /\ UNCHANGED <<cowVars, trigger, rest, sawCallback, oldTimer, calls, timer, disposed,
                   timerVars, usageVars>>

\* Nothing refers to the Timer, and no callback of it runs.
Unreferenced(m) ==
    /\ \A r \in Triggers : timer[r] # m
    /\ \A t \in Threads : oldTimer[t] # m
    /\ \A w \in Workers : running[w] # m

\* One object is as good as another.
NewTimers == {m \in Timers \ ticking : Unreferenced(m)}

\* OnStart without the assignment to _timer.
OnStartKeepsNoTimer(t) ==
    /\ Ends(t, "on start", FALSE)
    /\ NewTimers # {}
    /\ LET m == CHOOSE n \in NewTimers : TRUE IN
          /\ owner' = [owner EXCEPT ![m] = trigger[t]]
          /\ ticking' = ticking \cup {m}
    /\ UNCHANGED <<cowVars, callback, timer, disposed, running, listed, enumerated,
                   usageVars>>

\* _timer = new Timer(...), which runs from now on.  (A due time or a period
\* beyond the longest the Timer accepts, 49 days, makes the constructor throw;
\* the triggers of the model stay below it.)
OnStart(t) ==
    /\ Ends(t, "on start", FALSE)
    /\ NewTimers # {}
    /\ LET m == CHOOSE n \in NewTimers : TRUE IN
          /\ owner' = [owner EXCEPT ![m] = trigger[t]]
          /\ ticking' = ticking \cup {m}
          /\ timer' = [timer EXCEPT ![trigger[t]] = m]
    /\ UNCHANGED <<cowVars, callback, disposed, running, listed, enumerated, usageVars>>

-----------------------------------------------------------------------------
(* Scheduler.DetachTrigger, TimerBasedTrigger.Stop and Dispose *)

DetachTrigger(t, r) ==
    /\ Begins(t, "detaching", r)
    /\ Call(t, "remove", Scheduler, r)
    /\ misused' = misused \cup CarelesslyDetached(r)
    /\ UNCHANGED <<rest, attachedOnce, triggerVars, timerVars>>

Detached(t) ==
    /\ step[t] = "true"
    /\ Goes(t, "detaching", "stopping")
    /\ Return(t)
    /\ UNCHANGED <<trigger, rest, sawCallback, oldTimer, calls, triggerVars, timerVars,
                   usageVars>>

\* "Trigger named '{0}' not found."
NotDetached(t) ==
    /\ step[t] = "false"
    /\ Ends(t, "detaching", TRUE)
    /\ Return(t)
    /\ UNCHANGED <<triggerVars, timerVars, usageVars>>

\* Dispose may also be called by anybody who has the trigger.
DisposeTrigger(t, r) ==
    /\ Begins(t, "stopping", r)
    /\ UNCHANGED <<cowVars, rest, triggerVars, timerVars, usageVars>>

DisposedBefore(t) ==
    /\ trigger[t] \in disposed
    /\ Ends(t, "stopping", FALSE)
    /\ UNCHANGED <<cowVars, triggerVars, timerVars, usageVars>>

NotDisposedBefore(t) ==
    /\ trigger[t] \notin disposed
    /\ Goes(t, "stopping", "taking")
    /\ UNCHANGED <<cowVars, trigger, rest, sawCallback, oldTimer, calls, triggerVars,
                   timerVars, usageVars>>

\* TakeTimer without the test of null.
TakeTimerUnchecked(t) ==
    /\ Goes(t, "taking", "closing")
    /\ oldTimer' = [oldTimer EXCEPT ![t] = timer[trigger[t]]]
    /\ timer' = [timer EXCEPT ![trigger[t]] = NoTimer]
    /\ UNCHANGED <<cowVars, trigger, rest, sawCallback, calls, callback, disposed,
                   timerVars, usageVars>>

\* Interlocked.Exchange gives the Timer to one thread only.
NoTimerToTake(t) ==
    /\ stage[t] = "taking" /\ timer[trigger[t]] = NoTimer
    /\ Ends(t, "taking", FALSE)
    /\ UNCHANGED <<cowVars, triggerVars, timerVars, usageVars>>

TakeTimer(t) ==
    /\ stage[t] = "taking" /\ timer[trigger[t]] # NoTimer
    /\ Goes(t, "taking", "closing")
    /\ oldTimer' = [oldTimer EXCEPT ![t] = timer[trigger[t]]]
    /\ timer' = [timer EXCEPT ![trigger[t]] = NoTimer]
    /\ UNCHANGED <<cowVars, trigger, rest, sawCallback, calls, callback, disposed,
                   timerVars, usageVars>>

\* timer.Dispose(timerStoppedEvent)
CloseTimer(t) ==
    /\ Goes(t, "closing", "waiting")
    /\ ticking' = ticking \ {oldTimer[t]}
    /\ UNCHANGED <<cowVars, trigger, rest, sawCallback, oldTimer, calls, triggerVars,
                   owner, running, listed, enumerated, usageVars>>

\* TimerStopped without WaitOne.
TimerStoppedAtOnce(t) ==
    /\ Ends(t, "waiting", FALSE)
    /\ disposed' = disposed \cup {trigger[t]}
    /\ UNCHANGED <<cowVars, callback, timer, timerVars, usageVars>>

\* The event is set when no callback of the Timer runs any more.
TimerStopped(t) ==
    /\ \A w \in Workers : running[w] # oldTimer[t]
    /\ Ends(t, "waiting", FALSE)
    /\ disposed' = disposed \cup {trigger[t]}
    /\ UNCHANGED <<cowVars, callback, timer, timerVars, usageVars>>

\* Scheduler.Dispose detaches the triggers of the set it read.
DisposeScheduler(t) ==
    /\ contents[Scheduler] # {}
    /\ Begins(t, "sweeping", NoTrigger)
    /\ rest' = [rest EXCEPT ![t] = contents[Scheduler]]
    /\ UNCHANGED <<cowVars, triggerVars, timerVars, usageVars>>

Sweep(t) == \E r \in rest[t] :
    /\ Goes(t, "sweeping", "detaching")
    /\ Call(t, "remove", Scheduler, r)
    /\ trigger' = [trigger EXCEPT ![t] = r]
    /\ rest' = [rest EXCEPT ![t] = @ \ {r}]
    /\ misused' = misused \cup CarelesslyDetached(r)
    /\ UNCHANGED <<sawCallback, oldTimer, calls, attachedOnce, triggerVars, timerVars>>

-----------------------------------------------------------------------------
(* Tasks of a trigger *)

AttachTask(t, r, k) ==
    /\ Begins(t, "changing tasks", r)
    /\ Call(t, "add", r, k)
    /\ UNCHANGED <<rest, triggerVars, timerVars, usageVars>>

DetachTask(t, r, k) ==
    /\ Begins(t, "changing tasks", r)
    /\ Call(t, "remove", r, k)
    /\ UNCHANGED <<rest, triggerVars, timerVars, usageVars>>

\* Done, or "already added" or "not found".
TasksChanged(t) ==
    /\ Ends(t, "changing tasks", FALSE)
    /\ Return(t)
    /\ UNCHANGED <<triggerVars, timerVars, usageVars>>

ChangingSets(t) ==
    /\ CallStep(t)
    /\ UNCHANGED <<callerVars, triggerVars, timerVars, usageVars>>

-----------------------------------------------------------------------------
(* Timers *)

\* A due Timer runs OnTimerCallback on a thread of the pool; with a period of
\* zero it does so once.
Fire(w, m) ==
    /\ running[w] = NoTimer /\ m \in ticking
    /\ running' = [running EXCEPT ![w] = m]
    /\ ticking' = IF owner[m] \in OneTime THEN ticking \ {m} ELSE ticking
    /\ UNCHANGED <<cowVars, callerVars, triggerVars, owner, listed, enumerated, usageVars>>

\* foreach takes the set of tasks as it is now.
ListTasks(w) ==
    /\ running[w] # NoTimer /\ w \notin listed
    /\ listed' = listed \cup {w}
    /\ enumerated' = [enumerated EXCEPT ![w] = contents[owner[running[w]]]]
    /\ UNCHANGED <<cowVars, callerVars, triggerVars, owner, ticking, running, usageVars>>

\* _callback(attachedTask), that is executor.Execute.
HandOver(w) == \E k \in enumerated[w] :
    /\ enumerated' = [enumerated EXCEPT ![w] = @ \ {k}]
    /\ UNCHANGED <<cowVars, callerVars, triggerVars, owner, ticking, running, listed, usageVars>>

CallbackReturns(w) ==
    /\ w \in listed /\ enumerated[w] = {}
    /\ listed' = listed \ {w}
    /\ running' = [running EXCEPT ![w] = NoTimer]
    /\ UNCHANGED <<cowVars, callerVars, triggerVars, owner, ticking, enumerated, usageVars>>

\* The garbage collector finds a Timer that nobody refers to.
Collect(m) ==
    /\ m \in ticking /\ Unreferenced(m)
    /\ ticking' = ticking \ {m}
    /\ UNCHANGED <<cowVars, callerVars, triggerVars, owner, running, listed, enumerated,
                   usageVars>>

-----------------------------------------------------------------------------
CallBegins(t) ==
    \/ \E r \in Triggers :
          \/ AttachTrigger(t, r) \/ DetachTrigger(t, r) \/ DisposeTrigger(t, r)
          \/ \E k \in Tasks : AttachTask(t, r, k) \/ DetachTask(t, r, k)
    \/ DisposeScheduler(t)

ThreadStep(t) ==
    \/ ChangingSets(t) \/ TasksChanged(t)
    \/ Attached(t) \/ NotAttached(t)
    \/ ReadCallback(t) \/ StartRefused(t) \/ ExchangeCallback(t) \/ OnStart(t)
    \/ Detached(t) \/ NotDetached(t) \/ DisposedBefore(t) \/ NotDisposedBefore(t)
    \/ NoTimerToTake(t) \/ TakeTimer(t) \/ CloseTimer(t) \/ TimerStopped(t)
    \/ Sweep(t)

CallbackStep(w) == ListTasks(w) \/ HandOver(w) \/ CallbackReturns(w)

Next ==
    \/ \E t \in Threads : CallBegins(t) \/ ThreadStep(t)
    \/ \E w \in Workers : CallbackStep(w) \/ \E m \in Timers : Fire(w, m)
    \/ \E m \in Timers : Collect(m)

Spec == Init /\ [][Next]_vars

\* Threads and callbacks go on; nothing is said of when a Timer is due.
FairSpec ==
    /\ Spec
    /\ \A t \in Threads : WF_vars(ThreadStep(t))
    /\ \A w \in Workers : WF_vars(CallbackStep(w))
-----------------------------------------------------------------------------
(* Properties *)

\* Nobody is in the middle of a call about r.
Settled(r) == \A t \in Threads : trigger[t] # r

\* A trigger with a Timer that fires or a callback that runs.
Active(r) ==
    \/ \E m \in ticking : owner[m] = r
    \/ \E w \in Workers : running[w] # NoTimer /\ owner[running[w]] = r

\* A trigger that its owners use with care hands over no task once it has been
\* detached: whoever detached it, and whoever disposed it at the same time.
DetachedIsQuiet ==
    \A r \in Triggers \ misused :
        Settled(r) /\ r \notin contents[Scheduler] => ~ Active(r)

\* A trigger that its owners use with care and nobody disposed has its Timer
\* as long as the scheduler holds it.
AttachedIsRunning ==
    \A r \in (contents[Scheduler] \cap Triggers) \ (misused \cup disposed) :
        Settled(r) => timer[r] # NoTimer /\ (r \notin OneTime => timer[r] \in ticking)

\* Stop "intructs trigger to stop scheduling tasks": no trigger has a Timer
\* that nobody is about to stop when the scheduler does not hold it.
DetachStops ==
    \A r \in Triggers : Settled(r) /\ r \notin contents[Scheduler] => timer[r] = NoTimer

\* Every call returns: the loops of the copying end, and who stops a trigger
\* does not wait for its callbacks for ever.
CallsReturn == \A t \in Threads : stage[t] # "idle" ~> stage[t] = "idle"
=============================================================================
