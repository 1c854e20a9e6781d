-------------------------- MODULE SchedulingProofs --------------------------
(***************************************************************************)
(* Proofs about Scheduling.  The scheduler and its triggers are callers of *)
(* the copy-on-write collections as CopyOnWrite allows them, so what       *)
(* CopyOnWriteProofs says of the collections holds of the set of triggers  *)
(* and of the sets of tasks.                                               *)
(***************************************************************************)
EXTENDS Scheduling, CopyOnWriteProofs

\* The triggers that Scheduler.Dispose goes through come from the set.
RestOK == rest \in [Threads -> SUBSET Items]

\* A step of the scheduler is a step of its collections or leaves them alone.
LEMMA StepIsSetStep ==
    ASSUME RestOK, [Next]_vars
    PROVE  [CowNext]_cowVars
<1>1. CASE UNCHANGED vars
  BY <1>1 DEF vars
<1>2. ASSUME NEW t \in Threads, CallBegins(t)
      PROVE  [CowNext]_cowVars
  <2>1. ASSUME NEW r \in Triggers, AttachTrigger(t, r) \/ DetachTrigger(t, r)
        PROVE  CowNext
    BY <2>1, SchedulingAssumption DEF AttachTrigger, DetachTrigger, CowNext
  <2>2. ASSUME NEW r \in Triggers, NEW k \in Tasks, AttachTask(t, r, k) \/ DetachTask(t, r, k)
        PROVE  CowNext
    BY <2>2, SchedulingAssumption DEF AttachTask, DetachTask, CowNext
  <2>3. ASSUME NEW r \in Triggers, DisposeTrigger(t, r)
        PROVE  UNCHANGED cowVars
    BY <2>3 DEF DisposeTrigger
  <2>4. CASE DisposeScheduler(t)
    BY <2>4 DEF DisposeScheduler
  <2> QED  BY <1>2, <2>1, <2>2, <2>3, <2>4 DEF CallBegins
<1>3. ASSUME NEW t \in Threads, ThreadStep(t)
      PROVE  [CowNext]_cowVars
  <2>1. CASE ChangingSets(t)
    BY <2>1 DEF ChangingSets, CowNext
  <2>2. CASE \/ TasksChanged(t) \/ Attached(t) \/ NotAttached(t)
             \/ Detached(t) \/ NotDetached(t)
    BY <2>2 DEF TasksChanged, Attached, NotAttached, Detached, NotDetached, CowNext
  <2>3. CASE \/ ReadCallback(t) \/ StartRefused(t) \/ ExchangeCallback(t) \/ OnStart(t)
             \/ DisposedBefore(t) \/ NotDisposedBefore(t) \/ NoTimerToTake(t)
             \/ TakeTimer(t) \/ CloseTimer(t) \/ TimerStopped(t)
    BY <2>3 DEF ReadCallback, StartRefused, ExchangeCallback, OnStart, DisposedBefore,
       NotDisposedBefore, NoTimerToTake, TakeTimer, CloseTimer, TimerStopped
  <2>4. CASE Sweep(t)
    <3>1. PICK r \in rest[t] : Call(t, "remove", Scheduler, r)
      BY <2>4 DEF Sweep
    <3>2. r \in Items /\ Scheduler \in Cells
      BY <3>1, SchedulingAssumption DEF RestOK
    <3> QED  BY <3>1, <3>2 DEF CowNext
  <2> QED  BY <1>3, <2>1, <2>2, <2>3, <2>4 DEF ThreadStep
<1>4. ASSUME NEW w \in Workers, CallbackStep(w) \/ \E m \in Timers : Fire(w, m)
      PROVE  UNCHANGED cowVars
  BY <1>4 DEF CallbackStep, ListTasks, HandOver, CallbackReturns, Fire
<1>5. ASSUME NEW m \in Timers, Collect(m)
      PROVE  UNCHANGED cowVars
  BY <1>5 DEF Collect
<1> QED  BY <1>1, <1>2, <1>3, <1>4, <1>5 DEF Next

LEMMA StepKeepsRest ==
    ASSUME CowTypeOK, RestOK, [Next]_vars
    PROVE  RestOK'
<1> USE DEF RestOK
<1>1. CASE UNCHANGED vars
  BY <1>1 DEF vars, callerVars
<1>2. ASSUME NEW t \in Threads, CallBegins(t)
      PROVE  RestOK'
  <2>1. CASE DisposeScheduler(t)
    <3>1. contents[Scheduler] \subseteq Items
      BY SchedulingAssumption DEF CowTypeOK
    <3> QED  BY <2>1, <3>1 DEF DisposeScheduler
  <2>2. CASE ~ DisposeScheduler(t)
    BY <1>2, <2>2 DEF CallBegins, AttachTrigger, DetachTrigger, DisposeTrigger,
                      AttachTask, DetachTask
  <2> QED  BY <2>1, <2>2
<1>3. ASSUME NEW t \in Threads, ThreadStep(t)
      PROVE  RestOK'
  <2>1. CASE \/ TasksChanged(t) \/ NotAttached(t) \/ StartRefused(t) \/ OnStart(t)
             \/ NotDetached(t) \/ DisposedBefore(t) \/ NoTimerToTake(t) \/ TimerStopped(t)
    BY <2>1 DEF TasksChanged, NotAttached, StartRefused, OnStart, NotDetached,
                DisposedBefore, NoTimerToTake, TimerStopped, Ends
  <2>2. CASE \/ ChangingSets(t) \/ Attached(t) \/ ReadCallback(t) \/ ExchangeCallback(t)
             \/ Detached(t) \/ NotDisposedBefore(t) \/ TakeTimer(t) \/ CloseTimer(t)
    BY <2>2 DEF ChangingSets, Attached, ReadCallback, ExchangeCallback, Detached,
                NotDisposedBefore, TakeTimer, CloseTimer, callerVars
  <2>3. CASE Sweep(t)
    BY <2>3 DEF Sweep
  <2> QED  BY <1>3, <2>1, <2>2, <2>3 DEF ThreadStep
<1>4. ASSUME NEW w \in Workers, CallbackStep(w) \/ \E m \in Timers : Fire(w, m)
      PROVE  RestOK'
  BY <1>4 DEF CallbackStep, ListTasks, HandOver, CallbackReturns, Fire, callerVars
<1>5. ASSUME NEW m \in Timers, Collect(m)
      PROVE  RestOK'
  BY <1>5 DEF Collect, callerVars
<1> QED  BY <1>1, <1>2, <1>3, <1>4, <1>5 DEF Next

LEMMA RestHolds == Spec => [](CowInv /\ RestOK)
<1>1. Init => CowInv /\ RestOK
  BY InitInv DEF Init, RestOK
<1>2. CowInv /\ RestOK /\ [Next]_vars => CowInv' /\ RestOK'
  BY StepIsSetStep, StepInv, StepKeepsRest DEF CowInv
<1> QED  BY <1>1, <1>2, PTL DEF Spec

\* Scheduler and triggers use their sets as any callers may.
THEOREM SchedulerUsesSets == Spec => CowSpec
<1>1. Init => CowInit
  BY DEF Init
<1> QED  BY <1>1, StepIsSetStep, RestHolds, PTL DEF Spec, CowSpec

\* The scheduler never holds two triggers of one name, nor a trigger a task
\* twice, for any number of threads, triggers and calls.
THEOREM SchedulerKeepsNames == Spec => []KeysUnique
BY SchedulerUsesSets, KeysUniqueCorrect, PTL

\* Attaching and detaching are atomic.
THEOREM SchedulerIsAtomic == Spec => ImplementsSets
BY SchedulerUsesSets, CopyOnWriteIsAtomic, PTL

-----------------------------------------------------------------------------
(* Types, and what a thread has in hand *)

AttachStages == {"attaching", "starting", "exchanging", "on start"}
CloseStages == {"closing", "waiting"}

\* The stage of a thread fits its call of the collections and its variables.
StageOK(t) ==
    /\ IF stage[t] \in {"idle", "sweeping"} THEN trigger[t] = NoTrigger
                                            ELSE trigger[t] \in Triggers
    /\ stage[t] = "attaching" =>
          step[t] # "idle" /\ call[t] = [op |-> "add", cell |-> Scheduler, item |-> trigger[t]]
    /\ stage[t] = "detaching" =>
          step[t] # "idle" /\ call[t] = [op |-> "remove", cell |-> Scheduler, item |-> trigger[t]]
    /\ stage[t] = "changing tasks" =>
          step[t] # "idle" /\ call[t].cell \in Triggers /\ call[t].item \in Tasks
    /\ stage[t] \notin {"attaching", "detaching", "changing tasks"} => step[t] = "idle"
    /\ stage[t] \in CloseStages <=> oldTimer[t] # NoTimer

\* The scheduler has triggers, and triggers have tasks.
ContentsOK ==
    /\ contents[Scheduler] \subseteq Triggers
    /\ \A r \in Triggers : contents[r] \subseteq Tasks

VariablesOK ==
    /\ stage \in [Threads -> Stages]
    /\ trigger \in [Threads -> Triggers \cup {NoTrigger}]
    /\ rest \in [Threads -> SUBSET Triggers]
    /\ sawCallback \subseteq Threads
    /\ oldTimer \in [Threads -> Timers \cup {NoTimer}]
    /\ callback \subseteq Triggers
    /\ timer \in [Triggers -> Timers \cup {NoTimer}]
    /\ disposed \subseteq Triggers
    /\ owner \in [Timers -> Triggers \cup {NoTrigger}]
    /\ ticking \subseteq Timers
    /\ running \in [Workers -> Timers \cup {NoTimer}]
    /\ listed \subseteq Workers
    /\ enumerated \in [Workers -> SUBSET Tasks]
    /\ calls \in [Threads -> 0..MaxCalls]
    /\ attachedOnce \subseteq Triggers /\ misused \subseteq Triggers

\* A Timer has one owner and one reference to it at most.
TimersOK ==
    /\ \A m \in ticking : owner[m] # NoTrigger
    /\ \A w \in Workers : running[w] # NoTimer => owner[running[w]] # NoTrigger
    /\ \A r \in Triggers : timer[r] # NoTimer =>
          /\ owner[timer[r]] = r
          /\ \A v \in Threads : oldTimer[v] # timer[r]
    /\ \A v \in Threads : oldTimer[v] # NoTimer =>
          /\ owner[oldTimer[v]] = trigger[v]
          /\ \A u \in Threads : oldTimer[u] = oldTimer[v] => u = v

FrameInv == CowInv /\ VariablesOK /\ ContentsOK /\ TimersOK /\ \A t \in Threads : StageOK(t)

\* What an exchange does to the collection of its call.
LEMMA InstalledEffect ==
    ASSUME CowInv, NEW t \in Threads, Installed(t)
    PROVE  /\ step[t] = "cas" /\ step'[t] = "true" /\ call' = call
           /\ call[t].cell \in Cells /\ call[t].item \in Items
           /\ \A c \in Cells \ {call[t].cell} : contents'[c] = contents[c]
           /\ \/ /\ call[t].op = "add" /\ ~ HasKey(Field(t), call[t].item)
                 /\ contents'[call[t].cell] = Field(t) \cup {call[t].item}
              \/ /\ call[t].op = "remove" /\ HasKey(Field(t), call[t].item)
                 /\ contents'[call[t].cell] = Without(Field(t), call[t].item)
<1>1. Prepared(t) /\ step[t] = "cas" /\ step'[t] = "true" /\ call' = call
  BY DEF Installed, Moves, CowInv, PlanOK, CowTypeOK
<1>2. call[t] \in Calls
  BY <1>1 DEF CowInv, CowTypeOK
<1>3. call[t].cell \in Cells /\ call[t].item \in Items
  BY <1>2 DEF Calls
<1>4. contents'[call[t].cell] = copy[t] /\ \A c \in Cells \ {call[t].cell} : contents'[c] = contents[c]
  BY <1>3 DEF Installed, CowInv, CowTypeOK
<1> QED  BY <1>1, <1>3, <1>4 DEF Prepared, KeyFound

\* The steps that change a collection.
LEMMA OnlyInstalledChanges ==
    ASSUME RestOK, [Next]_vars
    PROVE  contents' = contents \/ \E t \in Threads : ChangingSets(t) /\ Installed(t)
<1>1. CASE UNCHANGED vars
  BY <1>1 DEF vars, cowVars
<1>2. ASSUME NEW t \in Threads, CallBegins(t)
      PROVE  contents' = contents
  BY <1>2 DEF CallBegins, AttachTrigger, DetachTrigger, DisposeTrigger, AttachTask, DetachTask,
     DisposeScheduler, Call, cowVars
<1>3. ASSUME NEW t \in Threads, ThreadStep(t)
      PROVE  contents' = contents \/ (ChangingSets(t) /\ Installed(t))
  <2>1. CASE ChangingSets(t)
    BY <2>1 DEF ChangingSets, CallStep, ReadBefore, Refused, Accepted, CopyToAdd,
       CopyThrows, CopyToRemove, Overwritten
  <2>2. CASE ~ ChangingSets(t)
    BY <1>3, <2>2 DEF ThreadStep, TasksChanged, Attached, NotAttached, ReadCallback,
       StartRefused, ExchangeCallback, OnStart, Detached, NotDetached, DisposedBefore,
       NotDisposedBefore, NoTimerToTake, TakeTimer, CloseTimer, TimerStopped, Sweep,
       Return, Call, cowVars
  <2> QED  BY <2>1, <2>2
<1>4. ASSUME NEW w \in Workers, CallbackStep(w) \/ \E m \in Timers : Fire(w, m)
      PROVE  contents' = contents
  BY <1>4 DEF CallbackStep, ListTasks, HandOver, CallbackReturns, Fire, cowVars
<1>5. ASSUME NEW m \in Timers, Collect(m)
      PROVE  contents' = contents
  BY <1>5 DEF Collect, cowVars
<1> QED  BY <1>1, <1>2, <1>3, <1>4, <1>5 DEF Next

\* A thread adds triggers to the scheduler and tasks to triggers.
LEMMA StepContents ==
    ASSUME FrameInv, RestOK, [Next]_vars
    PROVE  ContentsOK'
<1>1. CASE contents' = contents
  BY <1>1 DEF FrameInv, ContentsOK
<1>2. ASSUME NEW t \in Threads, Installed(t)
      PROVE  ContentsOK'
  <2>1. StageOK(t) /\ CowInv /\ ContentsOK
    BY DEF FrameInv
  <2>2. step[t] = "cas"
    BY <1>2, <2>1, InstalledEffect
  <2>3. \/ call[t].cell = Scheduler /\ call[t].item \in Triggers
        \/ call[t].cell \in Triggers /\ call[t].item \in Tasks
    <3>1. stage[t] \in {"attaching", "detaching", "changing tasks"}
      BY <2>1, <2>2 DEF StageOK
    <3>2. CASE stage[t] \in {"attaching", "detaching"}
      <4>1. trigger[t] \in Triggers
        BY <2>1, <3>2 DEF StageOK
      <4>2. PICK op : call[t] = [op |-> op, cell |-> Scheduler, item |-> trigger[t]]
        BY <2>1, <3>2 DEF StageOK
      <4>3. call[t].cell = Scheduler /\ call[t].item = trigger[t]
        BY <4>2
      <4> QED  BY <4>1, <4>3
    <3>3. CASE stage[t] = "changing tasks"
      BY <2>1, <3>3 DEF StageOK
    <3> QED  BY <3>1, <3>2, <3>3
  <2>4. contents'[call[t].cell] \subseteq contents[call[t].cell] \cup {call[t].item}
    BY <1>2, <2>1, InstalledEffect DEF Field, Without
  <2>5. \A c \in Cells \ {call[t].cell} : contents'[c] = contents[c]
    BY <1>2, <2>1, InstalledEffect
  <2> QED  BY <2>1, <2>3, <2>4, <2>5, SchedulingAssumption DEF ContentsOK
<1> QED  BY <1>1, <1>2, OnlyInstalledChanges

\* The Timer that OnStart creates was used by nobody.
LEMMA OnStartEffect ==
    ASSUME NEW t \in Threads, OnStart(t)
    PROVE  \E m \in Timers \ ticking :
              /\ Unreferenced(m)
              /\ owner' = [owner EXCEPT ![m] = trigger[t]]
              /\ ticking' = ticking \cup {m}
              /\ timer' = [timer EXCEPT ![trigger[t]] = m]
<1> DEFINE m == CHOOSE n \in NewTimers : TRUE
<1>1. m \in NewTimers
  BY DEF OnStart
<1> HIDE DEF m
<1>2. m \in Timers \ ticking /\ Unreferenced(m)
  BY <1>1 DEF NewTimers
<1>3. /\ owner' = [owner EXCEPT ![m] = trigger[t]]
      /\ ticking' = ticking \cup {m}
      /\ timer' = [timer EXCEPT ![trigger[t]] = m]
  BY DEF OnStart, m
<1> QED  BY <1>2, <1>3

\* Nobody moves another thread.
LEMMA OthersStand ==
    ASSUME FrameInv, NEW t \in Threads, CallBegins(t) \/ ThreadStep(t),
           NEW u \in Threads, u # t
    PROVE  /\ stage'[u] = stage[u] /\ trigger'[u] = trigger[u]
           /\ oldTimer'[u] = oldTimer[u]
           /\ step'[u] = step[u] /\ call'[u] = call[u]
<1> USE DEF FrameInv, VariablesOK, CowInv, CowTypeOK
<1>1. CASE CallBegins(t)
  BY <1>1 DEF CallBegins, AttachTrigger, DetachTrigger, DisposeTrigger, AttachTask, DetachTask,
     DisposeScheduler, Begins, Goes, Call, Moves, cowVars
<1>2. CASE ChangingSets(t)
  BY <1>2 DEF ChangingSets, callerVars, CallStep, Moves, ReadBefore, Refused, Accepted,
     CopyToAdd, CopyThrows, CopyToRemove, Installed, Overwritten
<1>3. CASE TasksChanged(t) \/ NotAttached(t) \/ NotDetached(t)
  BY <1>3 DEF TasksChanged, NotAttached, NotDetached, Ends, Return
<1>4. CASE Attached(t) \/ Detached(t)
  BY <1>4 DEF Attached, Detached, Goes, Return
<1>5. CASE ReadCallback(t) \/ ExchangeCallback(t) \/ NotDisposedBefore(t)
           \/ TakeTimer(t) \/ CloseTimer(t)
  BY <1>5 DEF ReadCallback, ExchangeCallback, NotDisposedBefore, TakeTimer, CloseTimer, Goes,
     cowVars
<1>6. CASE StartRefused(t) \/ OnStart(t) \/ DisposedBefore(t) \/ NoTimerToTake(t)
           \/ TimerStopped(t)
  BY <1>6 DEF StartRefused, OnStart, DisposedBefore, NoTimerToTake, TimerStopped, Ends, cowVars
<1>7. CASE Sweep(t)
  BY <1>7 DEF Sweep, Goes, Call, Moves
<1> QED  BY <1>1, <1>2, <1>3, <1>4, <1>5, <1>6, <1>7 DEF ThreadStep

LEMMA StepVariables ==
    ASSUME FrameInv, Next
    PROVE  VariablesOK'
<1> USE DEF VariablesOK, callerVars, triggerVars, timerVars, usageVars
<1>0. /\ VariablesOK
      /\ contents[Scheduler] \subseteq Triggers
      /\ \A r \in Triggers : contents[r] \subseteq Tasks
      /\ \A t \in Threads : stage[t] \notin {"idle", "sweeping"} => trigger[t] \in Triggers
      /\ MaxCalls \in Nat
  BY SchedulingAssumption DEF FrameInv, ContentsOK, StageOK
<1>1. ASSUME NEW t \in Threads, CallBegins(t)
      PROVE  VariablesOK'
  <2> USE DEF Begins, Goes, Stages
  <2>1. calls' \in [Threads -> 0..MaxCalls]
    <3>1. calls' = [calls EXCEPT ![t] = @ + 1] /\ calls[t] < MaxCalls
      BY <1>1 DEF CallBegins, AttachTrigger, DetachTrigger, DisposeTrigger, AttachTask,
         DetachTask, DisposeScheduler
    <3>2. \A n \in 0..MaxCalls : n < MaxCalls => n + 1 \in 0..MaxCalls
      BY SchedulingAssumption
    <3>3. calls[t] \in 0..MaxCalls
      BY <1>0
    <3>4. calls[t] + 1 \in 0..MaxCalls
      BY <3>1, <3>2, <3>3, Zenon
    <3> QED  BY <1>0, <3>1, <3>4
  <2>2. CASE DisposeScheduler(t)
    BY <1>0, <2>1, <2>2 DEF DisposeScheduler
  <2>3. ASSUME NEW r \in Triggers, AttachTrigger(t, r)
        PROVE  VariablesOK'
    BY <1>0, <2>1, <2>3 DEF AttachTrigger
  <2>4. ASSUME NEW r \in Triggers, DetachTrigger(t, r)
        PROVE  VariablesOK'
    <3>1. CarelesslyDetached(r) \subseteq Triggers
      BY DEF CarelesslyDetached, Twins
    <3> QED  BY <1>0, <2>1, <2>4, <3>1 DEF DetachTrigger
  <2>5. ASSUME NEW r \in Triggers, DisposeTrigger(t, r)
        PROVE  VariablesOK'
    BY <1>0, <2>1, <2>5 DEF DisposeTrigger
  <2>6. ASSUME NEW r \in Triggers, NEW k \in Tasks, AttachTask(t, r, k)
        PROVE  VariablesOK'
    BY <1>0, <2>1, <2>6 DEF AttachTask
  <2>7. ASSUME NEW r \in Triggers, NEW k \in Tasks, DetachTask(t, r, k)
        PROVE  VariablesOK'
    BY <1>0, <2>1, <2>7 DEF DetachTask
  <2> HIDE DEF VariablesOK
  <2> QED  BY <1>1, <2>2, <2>3, <2>4, <2>5, <2>6, <2>7 DEF CallBegins
<1>2. ASSUME NEW t \in Threads, ThreadStep(t)
      PROVE  VariablesOK'
  <2> USE DEF Ends, Goes, Stages
  <2>1. CASE ChangingSets(t)
    BY <1>0, <2>1 DEF ChangingSets
  <2>2. CASE TasksChanged(t) \/ NotAttached(t) \/ NotDetached(t)
    BY <1>0, <2>2 DEF TasksChanged, NotAttached, NotDetached
  <2>3. CASE Attached(t) \/ Detached(t)
    BY <1>0, <2>3 DEF Attached, Detached
  <2>4. CASE ReadCallback(t)  BY <1>0, <2>4 DEF ReadCallback
  <2>5. CASE ExchangeCallback(t)  BY <1>0, <2>5 DEF ExchangeCallback
  <2>6. CASE NotDisposedBefore(t)  BY <1>0, <2>6 DEF NotDisposedBefore
  <2>7. CASE StartRefused(t) \/ DisposedBefore(t) \/ NoTimerToTake(t)
    BY <1>0, <2>7 DEF StartRefused, DisposedBefore, NoTimerToTake
  <2>8. CASE OnStart(t)
    <3>1. PICK m \in Timers \ ticking :
              /\ owner' = [owner EXCEPT ![m] = trigger[t]]
              /\ ticking' = ticking \cup {m}
              /\ timer' = [timer EXCEPT ![trigger[t]] = m]
      BY <2>8, OnStartEffect
    <3>2. stage[t] = "on start" /\ trigger[t] \in Triggers
      BY <1>0, <2>8 DEF OnStart
    <3>3. owner' \in [Timers -> Triggers \cup {NoTrigger}] /\ ticking' \subseteq Timers
          /\ timer' \in [Triggers -> Timers \cup {NoTimer}]
      BY <1>0, <3>1, <3>2
    <3>4. /\ stage' \in [Threads -> Stages]
          /\ trigger' \in [Threads -> Triggers \cup {NoTrigger}]
          /\ rest' \in [Threads -> SUBSET Triggers]
          /\ sawCallback' \subseteq Threads
          /\ oldTimer' \in [Threads -> Timers \cup {NoTimer}]
      BY <1>0, <2>8 DEF OnStart
    <3> QED  BY <1>0, <2>8, <3>3, <3>4 DEF OnStart
  <2>9. CASE TakeTimer(t)  BY <1>0, <2>9 DEF TakeTimer
  <2>10. CASE CloseTimer(t)  BY <1>0, <2>10 DEF CloseTimer
  <2>11. CASE TimerStopped(t)  BY <1>0, <2>11 DEF TimerStopped
  <2>12. CASE Sweep(t)
    <3>1. PICK r \in rest[t] :
              /\ trigger' = [trigger EXCEPT ![t] = r]
              /\ rest' = [rest EXCEPT ![t] = @ \ {r}]
              /\ misused' = misused \cup CarelesslyDetached(r)
      BY <2>12 DEF Sweep
    <3>2. r \in Triggers /\ CarelesslyDetached(r) \subseteq Triggers
      BY <1>0 DEF CarelesslyDetached, Twins
    <3> QED  BY <1>0, <2>12, <3>1, <3>2 DEF Sweep
  <2> HIDE DEF VariablesOK
  <2> QED  BY <1>2, <2>1, <2>2, <2>3, <2>4, <2>5, <2>6, <2>7, <2>8, <2>9, <2>10, <2>11, <2>12
              DEF ThreadStep
<1>3. ASSUME NEW w \in Workers, CallbackStep(w) \/ \E m \in Timers : Fire(w, m)
      PROVE  VariablesOK'
  <2>1. CASE ListTasks(w)
    <3>1. owner[running[w]] \in Triggers
      BY <1>0, <2>1 DEF ListTasks, FrameInv, TimersOK
    <3>2. contents[owner[running[w]]] \subseteq Tasks
      BY <1>0, <3>1
    <3> QED  BY <1>0, <2>1, <3>2 DEF ListTasks
  <2>2. CASE HandOver(w)  BY <1>0, <2>2 DEF HandOver
  <2>3. CASE CallbackReturns(w)  BY <1>0, <2>3 DEF CallbackReturns
  <2>4. ASSUME NEW m \in Timers, Fire(w, m) PROVE VariablesOK'
    BY <1>0, <2>4 DEF Fire
  <2> QED  BY <1>3, <2>1, <2>2, <2>3, <2>4 DEF CallbackStep
<1>4. ASSUME NEW m \in Timers, Collect(m)
      PROVE  VariablesOK'
  BY <1>0, <1>4 DEF Collect
<1> HIDE DEF VariablesOK
<1> QED  BY <1>1, <1>2, <1>3, <1>4 DEF Next

\* Most steps create no Timer and give none to a thread.
LEMMA HandsStand ==
    ASSUME FrameInv, NEW t \in Threads, CallBegins(t) \/ ThreadStep(t),
           ~ OnStart(t), ~ TakeTimer(t)
    PROVE  /\ owner' = owner /\ timer' = timer /\ ticking' \subseteq ticking
           /\ running' = running
           /\ \/ oldTimer'[t] = NoTimer
              \/ oldTimer'[t] = oldTimer[t] /\ trigger'[t] = trigger[t]
<1>0. /\ oldTimer \in [Threads -> Timers \cup {NoTimer}]
      /\ stage[t] \in {"idle", "sweeping"} => oldTimer[t] = NoTimer
  BY DEF FrameInv, VariablesOK, StageOK, CloseStages
<1> USE DEF callerVars, triggerVars, timerVars
<1>1. CASE CallBegins(t)
  BY <1>0, <1>1 DEF CallBegins, AttachTrigger, DetachTrigger, DisposeTrigger, AttachTask, DetachTask,
     DisposeScheduler, Begins, Goes
<1>2. CASE \/ TasksChanged(t) \/ NotAttached(t) \/ StartRefused(t)
           \/ NotDetached(t) \/ DisposedBefore(t) \/ NoTimerToTake(t) \/ TimerStopped(t)
  BY <1>0, <1>2 DEF TasksChanged, NotAttached, StartRefused, NotDetached,
     DisposedBefore, NoTimerToTake, TimerStopped, Ends
<1>3. CASE \/ ChangingSets(t) \/ Attached(t) \/ ReadCallback(t) \/ ExchangeCallback(t)
           \/ Detached(t) \/ NotDisposedBefore(t) \/ CloseTimer(t)
  BY <1>3 DEF ChangingSets, Attached, ReadCallback, ExchangeCallback, Detached,
     NotDisposedBefore, CloseTimer
<1>4. CASE Sweep(t)
  BY <1>0, <1>4 DEF Sweep, Goes
<1> QED  BY <1>1, <1>2, <1>3, <1>4 DEF ThreadStep

LEMMA TimersStand ==
    ASSUME FrameInv, owner' = owner, timer' = timer, ticking' \subseteq ticking,
           \A w \in Workers : running'[w] \in ticking \cup {NoTimer, running[w]},
           \A v \in Threads : \/ oldTimer'[v] = NoTimer
                              \/ oldTimer'[v] = oldTimer[v] /\ trigger'[v] = trigger[v]
    PROVE  TimersOK'
<1>1. TimersOK
  BY DEF FrameInv
<1> QED  BY <1>1 DEF TimersOK

LEMMA StepTimers ==
    ASSUME FrameInv, Next
    PROVE  TimersOK'
<1> USE DEF callerVars, triggerVars, timerVars
<1>0. /\ TimersOK /\ NoTimer \notin Timers \cup Triggers
      /\ oldTimer \in [Threads -> Timers \cup {NoTimer}]
      /\ timer \in [Triggers -> Timers \cup {NoTimer}]
      /\ owner \in [Timers -> Triggers \cup {NoTrigger}]
      /\ trigger \in [Threads -> Triggers \cup {NoTrigger}]
      /\ running \in [Workers -> Timers \cup {NoTimer}]
      /\ ticking \subseteq Timers
  BY SchedulingAssumption DEF FrameInv, VariablesOK
<1>1. ASSUME NEW t \in Threads, CallBegins(t) \/ ThreadStep(t)
      PROVE  TimersOK'
  <2>1. \A v \in Threads \ {t} : oldTimer'[v] = oldTimer[v] /\ trigger'[v] = trigger[v]
    BY <1>1, OthersStand
  <2>2. CASE ~ OnStart(t) /\ ~ TakeTimer(t)
    <3>1. /\ owner' = owner /\ timer' = timer /\ ticking' \subseteq ticking
          /\ running' = running
          /\ oldTimer'[t] = NoTimer \/ (oldTimer'[t] = oldTimer[t] /\ trigger'[t] = trigger[t])
      BY <1>1, <2>2, HandsStand
    <3> QED  BY <2>1, <3>1, TimersStand
  <2>3. CASE OnStart(t)
    <3>1. PICK m \in Timers \ ticking :
              /\ Unreferenced(m)
              /\ owner' = [owner EXCEPT ![m] = trigger[t]]
              /\ ticking' = ticking \cup {m}
              /\ timer' = [timer EXCEPT ![trigger[t]] = m]
      BY <2>3, OnStartEffect
    <3>2. /\ stage[t] = "on start" /\ oldTimer' = [oldTimer EXCEPT ![t] = NoTimer]
          /\ running' = running
      BY <2>3 DEF OnStart, Ends
    <3>3. trigger[t] \in Triggers /\ trigger[t] # NoTrigger /\ oldTimer'[t] = NoTimer
      BY <1>0, <3>2 DEF FrameInv, StageOK, NoTrigger
    <3>4. \A v \in Threads : \/ oldTimer'[v] = NoTimer
                             \/ oldTimer'[v] = oldTimer[v] /\ trigger'[v] = trigger[v]
      BY <2>1, <3>3
    <3>5. /\ owner'[m] = trigger[t] /\ timer'[trigger[t]] = m
          /\ \A n \in Timers \ {m} : owner'[n] = owner[n]
          /\ \A r \in Triggers \ {trigger[t]} : timer'[r] = timer[r]
      BY <1>0, <3>1, <3>3
    <3>6. /\ \A r \in Triggers : timer[r] # m /\ timer[r] \in Timers \cup {NoTimer}
          /\ \A v \in Threads : oldTimer[v] # m /\ oldTimer[v] \in Timers \cup {NoTimer}
          /\ \A w \in Workers : running[w] # m /\ running[w] \in Timers \cup {NoTimer}
      BY <1>0, <3>1 DEF Unreferenced
    <3>7. m # NoTimer
      BY <1>0, <3>1
    <3>8. \A n \in ticking' : owner'[n] # NoTrigger
      BY <1>0, <3>1, <3>3, <3>5 DEF TimersOK
    <3>9. \A w \in Workers : running'[w] # NoTimer => owner'[running'[w]] # NoTrigger
      BY <1>0, <3>2, <3>5, <3>6 DEF TimersOK
    <3>10. ASSUME NEW r \in Triggers, timer'[r] # NoTimer
           PROVE  /\ owner'[timer'[r]] = r
                  /\ \A v \in Threads : oldTimer'[v] # timer'[r]
      <4>1. CASE r = trigger[t]
        BY <3>4, <3>5, <3>6, <3>7, <4>1
      <4>2. CASE r # trigger[t]
        BY <1>0, <3>4, <3>5, <3>6, <3>10, <4>2 DEF TimersOK
      <4> QED  BY <4>1, <4>2
    <3>11. ASSUME NEW v \in Threads, oldTimer'[v] # NoTimer
           PROVE  /\ owner'[oldTimer'[v]] = trigger'[v]
                  /\ \A u \in Threads : oldTimer'[u] = oldTimer'[v] => u = v
      BY <1>0, <3>4, <3>5, <3>6, <3>11 DEF TimersOK
    <3> QED  BY <3>8, <3>9, <3>10, <3>11 DEF TimersOK
  <2>4. CASE TakeTimer(t)
    <3>1. /\ stage[t] = "taking" /\ timer[trigger[t]] # NoTimer
          /\ oldTimer' = [oldTimer EXCEPT ![t] = timer[trigger[t]]]
          /\ timer' = [timer EXCEPT ![trigger[t]] = NoTimer]
          /\ owner' = owner /\ ticking' = ticking /\ running' = running /\ trigger' = trigger
      BY <2>4 DEF TakeTimer
    <3>2. trigger[t] \in Triggers
      BY <3>1 DEF FrameInv, StageOK
    <3>3. /\ oldTimer'[t] = timer[trigger[t]] /\ timer'[trigger[t]] = NoTimer
          /\ \A r \in Triggers \ {trigger[t]} : timer'[r] = timer[r]
      BY <1>0, <3>1, <3>2
    <3>4. ASSUME NEW r \in Triggers, timer'[r] # NoTimer
          PROVE  /\ owner'[timer'[r]] = r
                 /\ \A v \in Threads : oldTimer'[v] # timer'[r]
      <4>1. r # trigger[t] /\ timer'[r] = timer[r]
        BY <3>3, <3>4
      <4>2. owner[timer[r]] = r /\ owner[timer[trigger[t]]] = trigger[t]
        BY <1>0, <3>1, <3>2, <3>4, <4>1 DEF TimersOK
      <4>3. oldTimer'[t] # timer'[r]
        BY <3>3, <4>1, <4>2
      <4> QED  BY <1>0, <2>1, <3>1, <3>4, <4>1, <4>2, <4>3 DEF TimersOK
    <3>5. ASSUME NEW v \in Threads, oldTimer'[v] # NoTimer
          PROVE  /\ owner'[oldTimer'[v]] = trigger'[v]
                 /\ \A u \in Threads : oldTimer'[u] = oldTimer'[v] => u = v
      BY <1>0, <2>1, <3>1, <3>2, <3>3, <3>5 DEF TimersOK
    <3> QED  BY <1>0, <3>1, <3>4, <3>5 DEF TimersOK
  <2> QED  BY <2>2, <2>3, <2>4
<1>2. ASSUME NEW w \in Workers, CallbackStep(w) \/ \E m \in Timers : Fire(w, m)
      PROVE  TimersOK'
  <2>1. CASE CallbackStep(w)
    BY <1>0, <2>1, TimersStand DEF CallbackStep, ListTasks, HandOver, CallbackReturns
  <2>2. ASSUME NEW m \in Timers, Fire(w, m)
        PROVE  TimersOK'
    BY <1>0, <2>2, TimersStand DEF Fire
  <2> QED  BY <1>2, <2>1, <2>2
<1>3. ASSUME NEW m \in Timers, Collect(m)
      PROVE  TimersOK'
  BY <1>0, <1>3, TimersStand DEF Collect
<1> QED  BY <1>1, <1>2, <1>3 DEF Next

LEMMA StepStages ==
    ASSUME FrameInv, Next, NEW u \in Threads
    PROVE  StageOK(u)'
<1>0. /\ StageOK(u) /\ NoTimer \notin Timers \cup Triggers
      /\ oldTimer \in [Threads -> Timers \cup {NoTimer}]
      /\ timer \in [Triggers -> Timers \cup {NoTimer}]
      /\ trigger \in [Threads -> Triggers \cup {NoTrigger}]
      /\ stage \in [Threads -> Stages]
      /\ rest \in [Threads -> SUBSET Triggers]
      /\ step \in [Threads -> Steps]
      /\ call \in [Threads -> Calls \cup {NoCall}]
  BY SchedulingAssumption DEF FrameInv, VariablesOK, CowInv, CowTypeOK
<1>1. CASE \E t \in Threads \ {u} : CallBegins(t) \/ ThreadStep(t)
  <2>1. /\ stage'[u] = stage[u] /\ trigger'[u] = trigger[u] /\ oldTimer'[u] = oldTimer[u]
        /\ step'[u] = step[u] /\ call'[u] = call[u]
    BY <1>1, OthersStand
  <2> QED  BY <1>0, <2>1 DEF StageOK
<1>2. CASE UNCHANGED <<cowVars, callerVars>>
  BY <1>0, <1>2 DEF StageOK, cowVars, callerVars
<1>3. CASE CallBegins(u)
  <2>1. /\ oldTimer' = oldTimer /\ stage[u] = "idle" /\ oldTimer[u] = NoTimer
        /\ step[u] = "idle"
    BY <1>0, <1>3 DEF StageOK, CloseStages, CallBegins, AttachTrigger, DetachTrigger,
       DisposeTrigger, AttachTask, DetachTask, DisposeScheduler, Begins, Goes
  <2>2. ASSUME NEW r \in Triggers, AttachTrigger(u, r)
        PROVE  StageOK(u)'
    <3>1. /\ stage'[u] = "attaching" /\ trigger'[u] = r /\ step'[u] = "read"
          /\ call'[u] = [op |-> "add", cell |-> Scheduler, item |-> r]
      BY <1>0, <2>2 DEF AttachTrigger, Begins, Goes, Call, Moves
    <3> QED  BY <2>1, <3>1 DEF StageOK, CloseStages
  <2>3. ASSUME NEW r \in Triggers, DetachTrigger(u, r)
        PROVE  StageOK(u)'
    <3>1. /\ stage'[u] = "detaching" /\ trigger'[u] = r /\ step'[u] = "read"
          /\ call'[u] = [op |-> "remove", cell |-> Scheduler, item |-> r]
      BY <1>0, <2>3 DEF DetachTrigger, Begins, Goes, Call, Moves
    <3> QED  BY <2>1, <3>1 DEF StageOK, CloseStages
  <2>4. ASSUME NEW r \in Triggers, DisposeTrigger(u, r)
        PROVE  StageOK(u)'
    <3>1. stage'[u] = "stopping" /\ trigger'[u] = r /\ step' = step
      BY <1>0, <2>4 DEF DisposeTrigger, Begins, Goes, cowVars
    <3> QED  BY <2>1, <3>1 DEF StageOK, CloseStages
  <2>5. ASSUME NEW r \in Triggers, NEW k \in Tasks, NEW op \in {"add", "remove"},
               Begins(u, "changing tasks", r), Call(u, op, r, k)
        PROVE  StageOK(u)'
    <3>1. /\ stage'[u] = "changing tasks" /\ trigger'[u] = r /\ step'[u] = "read"
          /\ call'[u] = [op |-> op, cell |-> r, item |-> k]
      BY <1>0, <2>5 DEF Begins, Goes, Call, Moves
    <3>2. [op |-> op, cell |-> r, item |-> k].cell = r /\ [op |-> op, cell |-> r, item |-> k].item = k
      OBVIOUS
    <3>3. call'[u].cell = r /\ call'[u].item = k
      BY <3>1, <3>2
    <3> QED  BY <2>1, <3>1, <3>3 DEF StageOK, CloseStages
  <2>6. ASSUME DisposeScheduler(u)
        PROVE  StageOK(u)'
    <3>1. stage'[u] = "sweeping" /\ trigger'[u] = NoTrigger /\ step' = step
      BY <1>0, <2>6 DEF DisposeScheduler, Begins, Goes, cowVars
    <3> QED  BY <2>1, <3>1 DEF StageOK, CloseStages
  <2> QED  BY <1>3, <2>2, <2>3, <2>4, <2>5, <2>6 DEF CallBegins, AttachTask, DetachTask
<1>4. CASE ThreadStep(u)
  <2>1. CASE ChangingSets(u)
    <3>1. /\ stage' = stage /\ trigger' = trigger /\ oldTimer' = oldTimer
          /\ call' = call /\ step[u] # "idle" /\ step'[u] # "idle"
      BY <1>0, <2>1 DEF ChangingSets, callerVars, CallStep, Moves, ReadBefore, Refused, Accepted,
         CopyToAdd, CopyThrows, CopyToRemove, Installed, Overwritten
    <3> QED  BY <1>0, <3>1 DEF StageOK
  <2>2. CASE \/ TasksChanged(u) \/ NotAttached(u) \/ StartRefused(u) \/ OnStart(u)
             \/ NotDetached(u) \/ DisposedBefore(u) \/ NoTimerToTake(u) \/ TimerStopped(u)
    <3>1. stage'[u] \in {"idle", "sweeping"} /\ trigger'[u] = NoTrigger /\ oldTimer'[u] = NoTimer
      BY <1>0, <2>2 DEF TasksChanged, NotAttached, StartRefused, OnStart, NotDetached,
         DisposedBefore, NoTimerToTake, TimerStopped, Ends
    <3>2. step'[u] = "idle"
      <4>1. CASE TasksChanged(u) \/ NotAttached(u) \/ NotDetached(u)
        BY <1>0, <4>1 DEF TasksChanged, NotAttached, NotDetached, Return
      <4>2. CASE StartRefused(u) \/ OnStart(u) \/ DisposedBefore(u)
                 \/ NoTimerToTake(u) \/ TimerStopped(u)
        BY <1>0, <4>2 DEF StartRefused, OnStart, DisposedBefore, NoTimerToTake, TimerStopped,
           Ends, cowVars, StageOK
      <4> QED  BY <2>2, <4>1, <4>2
    <3> QED  BY <3>1, <3>2 DEF StageOK, CloseStages
  <2>3. CASE Attached(u) \/ Detached(u)
    <3>1. /\ stage[u] \in {"attaching", "detaching"} /\ stage'[u] \in {"starting", "stopping"}
          /\ trigger' = trigger /\ oldTimer' = oldTimer /\ step'[u] = "idle"
      BY <1>0, <2>3 DEF Attached, Detached, Goes, Return
    <3> QED  BY <1>0, <3>1 DEF StageOK, CloseStages
  <2>4. CASE ReadCallback(u) \/ ExchangeCallback(u) \/ NotDisposedBefore(u) \/ CloseTimer(u)
    <3>1. /\ <<stage[u], stage'[u]>> \in {<<"starting", "exchanging">>,
                 <<"exchanging", "on start">>, <<"stopping", "taking">>, <<"closing", "waiting">>}
          /\ trigger' = trigger /\ oldTimer' = oldTimer /\ step' = step
      BY <1>0, <2>4 DEF ReadCallback, ExchangeCallback, NotDisposedBefore, CloseTimer, Goes,
         cowVars
    <3> QED  BY <1>0, <3>1 DEF StageOK, CloseStages
  <2>5. CASE TakeTimer(u)
    <3>1. /\ stage[u] = "taking" /\ stage'[u] = "closing"
          /\ trigger' = trigger /\ step' = step
          /\ oldTimer'[u] = timer[trigger[u]] /\ timer[trigger[u]] # NoTimer
      BY <1>0, <2>5 DEF TakeTimer, Goes, cowVars
    <3> QED  BY <1>0, <3>1 DEF StageOK, CloseStages
  <2>6. CASE Sweep(u)
    <3>1. PICK r \in rest[u] :
              /\ Goes(u, "sweeping", "detaching") /\ Call(u, "remove", Scheduler, r)
              /\ trigger' = [trigger EXCEPT ![u] = r] /\ oldTimer' = oldTimer
      BY <2>6 DEF Sweep
    <3>2. /\ stage[u] = "sweeping" /\ stage'[u] = "detaching" /\ trigger'[u] = r
          /\ step'[u] = "read" /\ r \in Triggers
          /\ call'[u] = [op |-> "remove", cell |-> Scheduler, item |-> r]
      BY <1>0, <3>1 DEF Goes, Call, Moves
    <3> QED  BY <1>0, <3>1, <3>2 DEF StageOK, CloseStages
  <2> QED  BY <1>4, <2>1, <2>2, <2>3, <2>4, <2>5, <2>6 DEF ThreadStep
<1>5. ASSUME NEW w \in Workers, CallbackStep(w) \/ \E m \in Timers : Fire(w, m)
      PROVE  UNCHANGED <<cowVars, callerVars>>
  BY <1>5 DEF CallbackStep, ListTasks, HandOver, CallbackReturns, Fire
<1>6. ASSUME NEW m \in Timers, Collect(m)
      PROVE  UNCHANGED <<cowVars, callerVars>>
  BY <1>6 DEF Collect
<1> QED  BY <1>1, <1>2, <1>3, <1>4, <1>5, <1>6 DEF Next

LEMMA FrameHolds == Spec => [](FrameInv /\ RestOK)
<1>1. Init => FrameInv
  <2> SUFFICES ASSUME Init PROVE FrameInv
    OBVIOUS
  <2>1. CowInv /\ ContentsOK
    BY InitInv, SchedulingAssumption DEF Init, CowInit, ContentsOK
  <2>2. VariablesOK
    BY SchedulingAssumption DEF Init, VariablesOK, Stages
  <2>3. TimersOK
    BY DEF Init, TimersOK
  <2>4. ASSUME NEW t \in Threads PROVE StageOK(t)
    BY DEF Init, CowInit, StageOK, CloseStages
  <2> QED  BY <2>1, <2>2, <2>3, <2>4 DEF FrameInv
<1>2. FrameInv /\ RestOK /\ [Next]_vars => FrameInv'
  <2> SUFFICES ASSUME FrameInv, RestOK, [Next]_vars PROVE FrameInv'
    OBVIOUS
  <2>1. CASE Next
    <3>1. CowInv'
      BY StepIsSetStep, StepInv DEF FrameInv
    <3> QED  BY <2>1, <3>1, StepContents, StepVariables, StepTimers, StepStages DEF FrameInv
  <2>2. CASE UNCHANGED vars
    <3>1. CowInv'
      BY StepIsSetStep, StepInv DEF FrameInv
    <3> USE DEF FrameInv, vars, cowVars, callerVars, triggerVars, timerVars, usageVars
    <3>2. ContentsOK' /\ TimersOK'
      BY <2>2 DEF ContentsOK, TimersOK
    <3>3. VariablesOK'
      BY <2>2 DEF VariablesOK
    <3>4. ASSUME NEW t \in Threads PROVE StageOK(t)'
      BY <2>2 DEF StageOK
    <3> QED  BY <3>1, <3>2, <3>3, <3>4
  <2> QED  BY <2>1, <2>2
<1> QED  BY <1>1, <1>2, RestHolds, PTL DEF Spec

\* The variables of scheduler, triggers and timers keep their types.
THEOREM SchedulingTypeCorrect == Spec => []SchedulingTypeOK
<1>1. FrameInv => SchedulingTypeOK
  BY DEF FrameInv, VariablesOK, TimersOK, StageOK, CloseStages, CowInv, SchedulingTypeOK
<1> QED  BY <1>1, FrameHolds, PTL

-----------------------------------------------------------------------------
(* The life of a trigger that is used with care *)

Attacher(t, r) == trigger[t] = r /\ stage[t] \in AttachStages
Closer(v, r) == trigger[v] = r /\ stage[v] \in CloseStages

\* Detached or disposed, it will be asked for its Timer.
Stopper(u, r) ==
    /\ trigger[u] = r
    /\ \/ stage[u] = "detaching" /\ step[u] = "true"
       \/ stage[u] \in {"stopping", "taking"}

\* The scheduler's set has not yet answered the attaching thread t.
Asking(t) == stage[t] = "attaching" /\ step[t] # "true"

\* Before it is attached, and until it is started, a trigger has no Timer.
FreshOK(r) ==
    /\ (r \in contents[Scheduler] \/ r \in callback \/ \E t \in Threads : Attacher(t, r))
          => r \in attachedOnce
    /\ (r \notin attachedOnce \/ \E t \in Threads : Attacher(t, r)) =>
          /\ timer[r] = NoTimer /\ ~ Active(r) /\ r \notin disposed
          /\ \A v \in Threads : ~ Closer(v, r)

\* One thread attaches it, and nobody detaches it meanwhile.
AttacherOK(r) ==
    \A t \in Threads : Attacher(t, r) =>
        /\ \A u \in Threads : Attacher(u, r) => u = t
        /\ r \in contents[Scheduler] <=> ~ Asking(t)
        /\ stage[t] # "on start" => r \notin callback

\* Once it has been attached, no trigger of its name is detached but itself.
DetacherOK(r) ==
    \A u \in Threads :
        (stage[u] = "detaching" /\ trigger[u] \in Twins(r) /\ r \in attachedOnce) =>
            trigger[u] = r /\ \A t \in Threads : ~ Attacher(t, r)

\* Its Timer is with the trigger or with the one thread that stops it.
TimerOK(r) ==
    /\ timer[r] # NoTimer =>
          /\ r \notin OneTime => timer[r] \in ticking
          /\ r \notin disposed
          /\ \A v \in Threads : ~ Closer(v, r)
    /\ \A v \in Threads : Closer(v, r) =>
          /\ r \notin disposed
          /\ \A u \in Threads : Closer(u, r) => u = v
          /\ stage[v] = "waiting" => oldTimer[v] \notin ticking
    /\ \A m \in Timers : (owner[m] = r /\ (m \in ticking \/ \E w \in Workers : running[w] = m)) =>
          timer[r] = m \/ \E v \in Threads : Closer(v, r) /\ oldTimer[v] = m

\* Its Timer is left only with those who are about to stop it.
HeldOK(r) ==
    /\ timer[r] # NoTimer => r \in contents[Scheduler] \/ \E u \in Threads : Stopper(u, r)
    /\ r \in contents[Scheduler] =>
          \/ r \in disposed \/ timer[r] # NoTimer
          \/ \E t \in Threads : Attacher(t, r) \/ Closer(t, r)

LifeOK(r) ==
    FreshOK(r) /\ AttacherOK(r) /\ DetacherOK(r) /\ TimerOK(r) /\ HeldOK(r)

LifeInv == \A r \in Triggers \ misused : LifeOK(r)

OnlyMoves(t) == \A u \in Threads : u # t =>
    /\ stage'[u] = stage[u] /\ trigger'[u] = trigger[u]
    /\ oldTimer'[u] = oldTimer[u] /\ step'[u] = step[u]

SetsStand(r) ==
    /\ r \in contents'[Scheduler] <=> r \in contents[Scheduler]
    /\ r \in attachedOnce' <=> r \in attachedOnce

TriggerStands(r) ==
    /\ timer'[r] = timer[r]
    /\ r \in disposed' <=> r \in disposed

TimersAlone == owner' = owner /\ ticking' = ticking /\ running' = running

\* A thread whose call ends without doing anything to the trigger.
LEMMA LeavingKeepsLife ==
    ASSUME NEW r \in Triggers, LifeOK(r), NEW t \in Threads, OnlyMoves(t),
           SetsStand(r), TriggerStands(r), TimersAlone, r \in callback' <=> r \in callback,
           trigger'[t] # r, stage'[t] # "detaching",
           ~ Closer(t, r),
           Attacher(t, r) => r \notin contents[Scheduler],
           Stopper(t, r) => timer[r] = NoTimer
    PROVE  LifeOK(r)'
<1> USE DEF LifeOK, OnlyMoves, SetsStand, TriggerStands, TimersAlone, Attacher, Closer
<1>1. FreshOK(r)'
  BY DEF FreshOK, Active
<1>2. AttacherOK(r)'
  BY DEF AttacherOK, Asking
<1>3. DetacherOK(r)'
  BY DEF DetacherOK
<1>4. TimerOK(r)'
  BY DEF TimerOK
<1>5. HeldOK(r)'
  BY DEF HeldOK, Stopper
<1> QED  BY <1>1, <1>2, <1>3, <1>4, <1>5

\* A thread that goes on with its call, and does no more than to set _callback.
LEMMA ProceedingKeepsLife ==
    ASSUME NEW r \in Triggers, LifeOK(r), NEW t \in Threads, OnlyMoves(t),
           SetsStand(r), TriggerStands(r), TimersAlone,
           trigger'[t] = trigger[t], Closer(t, r) => oldTimer'[t] = oldTimer[t],
           Attacher(t, r)' <=> Attacher(t, r),
           Closer(t, r)' <=> Closer(t, r),
           Attacher(t, r) => (Asking(t)' <=> Asking(t)),
           stage'[t] = "waiting" => stage[t] = "waiting",
           stage'[t] = "detaching" => stage[t] = "detaching",
           Stopper(t, r) => Stopper(t, r)',
           \/ /\ r \in callback' <=> r \in callback
              /\ stage[t] = "on start" => stage'[t] = "on start"
           \/ Attacher(t, r) /\ stage'[t] = "on start"
    PROVE  LifeOK(r)'
<1> USE DEF LifeOK, OnlyMoves, SetsStand, TriggerStands, TimersAlone
<1>0. \A u \in Threads : /\ Attacher(u, r)' <=> Attacher(u, r)
                         /\ Closer(u, r)' <=> Closer(u, r)
                         /\ Attacher(u, r) => (Asking(u)' <=> Asking(u))
                         /\ Stopper(u, r) => Stopper(u, r)'
                         /\ trigger'[u] = trigger[u]
                         /\ Closer(u, r) => oldTimer'[u] = oldTimer[u]
                         /\ stage'[u] = "waiting" => stage[u] = "waiting"
                         /\ stage'[u] = "detaching" => stage[u] = "detaching"
  BY DEF Attacher, Closer, Asking, Stopper
<1>1. FreshOK(r)'
  BY <1>0 DEF FreshOK, Active
<1>2. AttacherOK(r)'
  BY <1>0 DEF AttacherOK
<1>3. DetacherOK(r)'
  BY <1>0 DEF DetacherOK
<1>4. TimerOK(r)'
  <2>1. \A u \in Threads : /\ Closer(u, r)' <=> Closer(u, r)
                           /\ Closer(u, r) => oldTimer'[u] = oldTimer[u]
    BY <1>0
  <2>2. ASSUME NEW m \in Timers, owner'[m] = r,
               m \in ticking' \/ \E w \in Workers : running'[w] = m
        PROVE  timer'[r] = m \/ \E v \in Threads : Closer(v, r)' /\ oldTimer'[v] = m
    <3>1. timer[r] = m \/ \E v \in Threads : Closer(v, r) /\ oldTimer[v] = m
      BY <2>2 DEF TimerOK
    <3> QED  BY <2>1, <3>1
  <2>3. \A v \in Threads : Closer(v, r)' =>
          /\ r \notin disposed'
          /\ \A u \in Threads : Closer(u, r)' => u = v
          /\ stage'[v] = "waiting" => oldTimer'[v] \notin ticking'
    BY <1>0 DEF TimerOK
  <2> QED  BY <2>1, <2>2, <2>3 DEF TimerOK
<1>5. HeldOK(r)'
  BY <1>0 DEF HeldOK
<1> QED  BY <1>1, <1>2, <1>3, <1>4, <1>5

\* A thread whose call begins, unless it attaches the trigger.
LEMMA BeginningKeepsLife ==
    ASSUME NEW r \in Triggers, LifeOK(r), NEW t \in Threads, OnlyMoves(t),
           SetsStand(r), TriggerStands(r), TimersAlone, r \in callback' <=> r \in callback,
           trigger[t] # r,
           ~ Attacher(t, r)', ~ Closer(t, r)',
           (stage'[t] = "detaching" /\ trigger'[t] \in Twins(r) /\ r \in attachedOnce) =>
              trigger'[t] = r /\ \A u \in Threads : ~ Attacher(u, r)
    PROVE  LifeOK(r)'
<1> USE DEF LifeOK, OnlyMoves, SetsStand, TriggerStands, TimersAlone
<1>0. /\ \A u \in Threads : /\ Attacher(u, r)' <=> Attacher(u, r)
                            /\ Closer(u, r)' <=> Closer(u, r)
                            /\ Stopper(u, r) => Stopper(u, r)'
      /\ ~ Attacher(t, r) /\ ~ Closer(t, r)
  BY DEF Attacher, Closer, Stopper
<1>1. FreshOK(r)'
  BY <1>0 DEF FreshOK, Active
<1>2. AttacherOK(r)'
  BY <1>0 DEF AttacherOK, Asking
<1>3. DetacherOK(r)'
  BY <1>0 DEF DetacherOK
<1>4. TimerOK(r)'
  BY <1>0 DEF TimerOK
<1>5. HeldOK(r)'
  BY <1>0 DEF HeldOK
<1> QED  BY <1>1, <1>2, <1>3, <1>4, <1>5

\* The call that attaches it: it has not been attached before, and nobody
\* detaches it or a twin.
LEMMA AttachingKeepsLife ==
    ASSUME FrameInv, NEW r \in Triggers, LifeOK(r), NEW t \in Threads,
           AttachTrigger(t, r), r \notin misused'
    PROVE  LifeOK(r)'
<1>1. OnlyMoves(t)
  BY OthersStand DEF OnlyMoves, CallBegins
<1>2. /\ contents' = contents /\ callback' = callback /\ timer' = timer /\ disposed' = disposed
      /\ TimersAlone /\ attachedOnce' = attachedOnce \cup {r}
  BY DEF AttachTrigger, Call, triggerVars, timerVars, TimersAlone
<1>3. r \notin attachedOnce /\ \A s \in Twins(r) : ~ InDetach(s)
  BY DEF AttachTrigger, AttachIsCareless
<1>4. stage[t] = "idle" /\ stage'[t] = "attaching" /\ trigger'[t] = r /\ step'[t] = "read"
  BY DEF AttachTrigger, Begins, Goes, Call, Moves, FrameInv, VariablesOK, CowInv, CowTypeOK
<1>5. /\ \A u \in Threads : ~ Attacher(u, r) /\ ~ Closer(u, r)
      /\ r \notin contents[Scheduler] /\ r \notin callback
      /\ timer[r] = NoTimer /\ ~ Active(r) /\ r \notin disposed
  BY <1>3 DEF LifeOK, FreshOK
<1>6. /\ \A u \in Threads : (Attacher(u, r)' <=> u = t) /\ ~ Closer(u, r)'
      /\ Attacher(t, r)' /\ Asking(t)'
  BY <1>1, <1>4, <1>5 DEF OnlyMoves, Attacher, Closer, AttachStages, CloseStages, Asking
<1>7. \A u \in Threads : stage'[u] = "detaching" => trigger'[u] \notin Twins(r)
  BY <1>1, <1>3, <1>4 DEF OnlyMoves, InDetach
<1> USE <1>2, <1>5, <1>6 DEF TimersAlone
<1>8. FreshOK(r)'
  BY DEF FreshOK, Active
<1>9. AttacherOK(r)'
  BY DEF AttacherOK
<1>10. DetacherOK(r)'
  BY <1>7 DEF DetacherOK
<1>11. TimerOK(r)'
  BY SchedulingAssumption DEF TimerOK, Active
<1>12. HeldOK(r)'
  BY DEF HeldOK
<1> QED  BY <1>8, <1>9, <1>10, <1>11, <1>12 DEF LifeOK

\* OnStart of the trigger itself, and of others.
LEMMA OnStartKeepsLife ==
    ASSUME FrameInv, NEW r \in Triggers, LifeOK(r), NEW t \in Threads, OnStart(t)
    PROVE  LifeOK(r)'
<1>0. /\ NoTimer \notin Timers \cup Triggers
      /\ timer \in [Triggers -> Timers \cup {NoTimer}]
      /\ owner \in [Timers -> Triggers \cup {NoTrigger}]
      /\ ticking \subseteq Timers
      /\ trigger \in [Threads -> Triggers \cup {NoTrigger}]
      /\ oldTimer \in [Threads -> Timers \cup {NoTimer}]
      /\ stage \in [Threads -> Stages]
  BY SchedulingAssumption DEF FrameInv, VariablesOK
<1>1. OnlyMoves(t)
  BY OthersStand DEF OnlyMoves, ThreadStep
<1>2. /\ stage[t] = "on start" /\ trigger[t] \in Triggers
      /\ stage'[t] \in {"idle", "sweeping"} /\ trigger'[t] = NoTrigger
  BY <1>0 DEF OnStart, Ends, FrameInv, StageOK
<1>3. /\ contents' = contents /\ callback' = callback /\ disposed' = disposed
      /\ running' = running /\ attachedOnce' = attachedOnce
  BY DEF OnStart, cowVars, usageVars
<1>4. PICK m \in Timers \ ticking :
          /\ Unreferenced(m)
          /\ owner' = [owner EXCEPT ![m] = trigger[t]]
          /\ ticking' = ticking \cup {m}
          /\ timer' = [timer EXCEPT ![trigger[t]] = m]
  BY OnStartEffect
<1>5. /\ owner'[m] = trigger[t] /\ \A n \in Timers : n # m => owner'[n] = owner[n]
      /\ timer'[trigger[t]] = m /\ \A s \in Triggers : s # trigger[t] => timer'[s] = timer[s]
      /\ m # NoTimer
  BY <1>0, <1>2, <1>4
<1>6. /\ timer[r] # m
      /\ \A v \in Threads : oldTimer[v] # m
      /\ \A w \in Workers : running[w] # m
  BY <1>4 DEF Unreferenced
<1>7. \A u \in Threads :
          /\ u # t => /\ Attacher(u, r)' <=> Attacher(u, r)
                      /\ Closer(u, r)' <=> Closer(u, r)
                      /\ Asking(u)' <=> Asking(u)
                      /\ Stopper(u, r)' <=> Stopper(u, r)
                      /\ stage'[u] = stage[u] /\ trigger'[u] = trigger[u]
                      /\ oldTimer'[u] = oldTimer[u]
          /\ stage'[u] = "detaching" => u # t
  BY <1>1, <1>2 DEF OnlyMoves, Attacher, Closer, Asking, Stopper
<1>8. /\ ~ Closer(t, r) /\ ~ Closer(t, r)' /\ ~ Attacher(t, r)' /\ ~ Stopper(t, r)
      /\ Attacher(t, r) <=> trigger[t] = r
  BY <1>0, <1>2 DEF Attacher, Closer, Stopper, AttachStages, CloseStages, NoTrigger
<1>9. CASE trigger[t] = r
  <2>1. /\ Attacher(t, r) /\ \A u \in Threads : ~ Attacher(u, r)'
        /\ r \in contents[Scheduler] /\ r \in attachedOnce
    BY <1>2, <1>7, <1>8, <1>9 DEF LifeOK, AttacherOK, FreshOK, Asking
  <2>2. r \notin disposed /\ ~ Active(r) /\ \A u \in Threads : ~ Closer(u, r)'
    BY <1>7, <1>8, <2>1 DEF LifeOK, FreshOK
  <2>3. FreshOK(r)'
    BY <1>3, <2>1 DEF FreshOK
  <2>4. AttacherOK(r)'
    BY <2>1 DEF AttacherOK
  <2>5. DetacherOK(r)'
    BY <1>7, <2>1 DEF LifeOK, DetacherOK
  <2>6. TimerOK(r)'
    <3>1. ASSUME NEW n \in Timers, owner'[n] = r,
                 n \in ticking' \/ \E w \in Workers : running'[w] = n
          PROVE  n = m
      <4>1. CASE n # m
        <5>1. owner[n] = r /\ (n \in ticking \/ \E w \in Workers : running[w] = n)
          BY <1>3, <1>4, <1>5, <3>1, <4>1
        <5>2. Active(r)
          BY <1>0, <5>1 DEF Active
        <5> QED  BY <2>2, <5>2
      <4> QED  BY <4>1
    <3>2. timer'[r] = m /\ m \in ticking' /\ r \notin disposed'
      BY <1>3, <1>4, <1>5, <1>9, <2>2
    <3> QED  BY <2>2, <3>1, <3>2 DEF TimerOK
  <2>7. HeldOK(r)'
    BY <1>3, <1>5, <1>9, <2>1 DEF HeldOK
  <2> QED  BY <2>3, <2>4, <2>5, <2>6, <2>7 DEF LifeOK
<1>10. CASE trigger[t] # r
  <2>1. \A u \in Threads : /\ Attacher(u, r)' <=> Attacher(u, r)
                           /\ Closer(u, r)' <=> Closer(u, r)
                           /\ Stopper(u, r) => Stopper(u, r)'
                           /\ Attacher(u, r) => (Asking(u)' <=> Asking(u)) /\ stage'[u] = stage[u]
                           /\ Closer(u, r) => oldTimer'[u] = oldTimer[u] /\ stage'[u] = stage[u]
    BY <1>7, <1>8, <1>10
  <2>2. timer'[r] = timer[r] /\ \A n \in Timers : owner'[n] = r => n # m /\ owner[n] = r
    BY <1>5, <1>10
  <2>3. FreshOK(r)'
    <3>1. Active(r)' => Active(r)
      BY <1>0, <1>3, <1>4, <1>6, <2>2, FrameInv DEF Active, FrameInv, VariablesOK
    <3> QED  BY <1>3, <2>1, <2>2, <3>1 DEF LifeOK, FreshOK
  <2>4. AttacherOK(r)'
    BY <1>3, <2>1 DEF LifeOK, AttacherOK
  <2>5. DetacherOK(r)'
    BY <1>3, <1>7, <2>1 DEF LifeOK, DetacherOK
  <2>6. TimerOK(r)'
    <3>1. timer'[r] # NoTimer =>
            /\ r \notin OneTime => timer'[r] \in ticking'
            /\ r \notin disposed'
            /\ \A v \in Threads : ~ Closer(v, r)'
      BY <1>3, <1>4, <2>1, <2>2 DEF LifeOK, TimerOK
    <3>2. \A v \in Threads : Closer(v, r)' =>
            /\ r \notin disposed'
            /\ \A u \in Threads : Closer(u, r)' => u = v
            /\ stage'[v] = "waiting" => oldTimer'[v] \notin ticking'
      BY <1>3, <1>4, <1>6, <2>1 DEF LifeOK, TimerOK
    <3>3. ASSUME NEW n \in Timers, owner'[n] = r,
                 n \in ticking' \/ \E w \in Workers : running'[w] = n
          PROVE  timer'[r] = n \/ \E v \in Threads : Closer(v, r)' /\ oldTimer'[v] = n
      <4>1. owner[n] = r /\ (n \in ticking \/ \E w \in Workers : running[w] = n)
        BY <1>3, <1>4, <2>2, <3>3
      <4>2. timer[r] = n \/ \E v \in Threads : Closer(v, r) /\ oldTimer[v] = n
        BY <4>1 DEF LifeOK, TimerOK
      <4> QED  BY <2>1, <2>2, <4>2
    <3> QED  BY <3>1, <3>2, <3>3 DEF TimerOK
  <2>7. HeldOK(r)'
    BY <1>3, <2>1, <2>2 DEF LifeOK, HeldOK
  <2> QED  BY <2>3, <2>4, <2>5, <2>6, <2>7 DEF LifeOK
<1> QED  BY <1>9, <1>10

\* The exchange of a set that holds the trigger or gets it.
LEMMA InstallingKeepsLife ==
    ASSUME FrameInv, NEW r \in Triggers, LifeOK(r), NEW t \in Threads,
           ChangingSets(t), Installed(t)
    PROVE  LifeOK(r)'
<1>1. OnlyMoves(t)
  BY OthersStand DEF OnlyMoves, ThreadStep
<1>2. /\ stage' = stage /\ trigger' = trigger /\ oldTimer' = oldTimer /\ callback' = callback
      /\ timer' = timer /\ disposed' = disposed /\ attachedOnce' = attachedOnce /\ TimersAlone
  BY DEF ChangingSets, callerVars, triggerVars, timerVars, usageVars, TimersAlone
<1>3. StageOK(t) /\ CowInv /\ ContentsOK
  BY DEF FrameInv
<1>4. step[t] = "cas" /\ step'[t] = "true"
  BY <1>3, InstalledEffect
<1>5. stage[t] \in {"attaching", "detaching", "changing tasks"}
  BY <1>3, <1>4 DEF StageOK
<1>6. \A u \in Threads : /\ Attacher(u, r)' <=> Attacher(u, r)
                         /\ Closer(u, r)' <=> Closer(u, r)
                         /\ u # t => (Asking(u)' <=> Asking(u))
                         /\ Stopper(u, r) => Stopper(u, r)'
  BY <1>1, <1>2, <1>4 DEF OnlyMoves, Attacher, Closer, Asking, Stopper
<1>7. ASSUME r \in contents'[Scheduler] <=> r \in contents[Scheduler],
             Attacher(t, r) => (Asking(t)' <=> Asking(t))
      PROVE  LifeOK(r)'
  <2>1. SetsStand(r) /\ TriggerStands(r)
    BY <1>2, <1>7 DEF SetsStand, TriggerStands
  <2> QED  BY <1>1, <1>2, <1>6, <1>7, <2>1, ProceedingKeepsLife
<1>8. CASE stage[t] = "changing tasks"
  <2>1. call[t].cell # Scheduler /\ Scheduler \in Cells
    BY <1>3, <1>8, SchedulingAssumption DEF StageOK
  <2>2. contents'[Scheduler] = contents[Scheduler]
    BY <1>3, <2>1, InstalledEffect
  <2>3. ~ Attacher(t, r)
    BY <1>8 DEF Attacher, AttachStages
  <2> QED  BY <1>7, <2>2, <2>3
<1>9. CASE stage[t] = "attaching"
  <2>1. call[t] = [op |-> "add", cell |-> Scheduler, item |-> trigger[t]]
    BY <1>3, <1>9 DEF StageOK
  <2>2. call[t].op = "add" /\ call[t].cell = Scheduler /\ call[t].item = trigger[t]
    BY <2>1
  <2>3. contents'[Scheduler] = contents[Scheduler] \cup {trigger[t]}
    BY <1>3, <2>2, InstalledEffect DEF Field
  <2>4. CASE trigger[t] # r
    BY <1>7, <2>3, <2>4 DEF Attacher
  <2>5. CASE trigger[t] = r
    <3>1. Attacher(t, r) /\ Asking(t) /\ ~ Asking(t)' /\ r \in contents'[Scheduler]
      BY <1>2, <1>4, <1>9, <2>3, <2>5 DEF Attacher, AttachStages, Asking
    <3>2. \A u \in Threads : Attacher(u, r) => u = t
      BY <3>1 DEF LifeOK, AttacherOK
    <3> USE <1>2, <1>6 DEF LifeOK, TimersAlone
    <3>3. FreshOK(r)'
      BY <3>1 DEF FreshOK, Active
    <3>4. AttacherOK(r)'
      BY <3>1, <3>2 DEF AttacherOK
    <3>5. DetacherOK(r)'
      BY DEF DetacherOK
    <3>6. TimerOK(r)'
      BY DEF TimerOK
    <3>7. HeldOK(r)'
      BY <3>1 DEF HeldOK
    <3> QED  BY <3>3, <3>4, <3>5, <3>6, <3>7
  <2> QED  BY <2>4, <2>5
<1>10. CASE stage[t] = "detaching"
  <2>1. call[t] = [op |-> "remove", cell |-> Scheduler, item |-> trigger[t]]
    BY <1>3, <1>10 DEF StageOK
  <2>2. call[t].op = "remove" /\ call[t].cell = Scheduler /\ call[t].item = trigger[t]
    BY <2>1
  <2>3. contents'[Scheduler] = Without(contents[Scheduler], trigger[t])
    BY <1>3, <2>2, InstalledEffect DEF Field
  <2>4. ~ Attacher(t, r) /\ trigger[t] \in Triggers
    BY <1>3, <1>10 DEF Attacher, AttachStages, StageOK
  <2>5. CASE ~ (r \in contents[Scheduler] /\ trigger[t] \in Twins(r))
    <3>1. r \in contents'[Scheduler] <=> r \in contents[Scheduler]
      BY <2>3, <2>4, <2>5 DEF Without, Twins
    <3> QED  BY <1>7, <2>4, <3>1
  <2>6. CASE r \in contents[Scheduler] /\ trigger[t] \in Twins(r)
    <3>1. r \in attachedOnce
      BY <2>6 DEF LifeOK, FreshOK
    <3>2. trigger[t] = r /\ \A u \in Threads : ~ Attacher(u, r)
      BY <1>10, <2>6, <3>1 DEF LifeOK, DetacherOK
    <3>3. r \notin contents'[Scheduler]
      BY <2>3, <3>2 DEF Without
    <3>4. Stopper(t, r)'
      BY <1>2, <1>4, <1>10, <3>2 DEF Stopper
    <3> USE <1>2, <1>6, <3>2, <3>3 DEF LifeOK, TimersAlone
    <3>5. FreshOK(r)'
      BY <3>1 DEF FreshOK, Active
    <3>6. AttacherOK(r)'
      BY DEF AttacherOK
    <3>7. DetacherOK(r)'
      BY DEF DetacherOK
    <3>8. TimerOK(r)'
      BY DEF TimerOK
    <3>9. HeldOK(r)'
      BY <3>4 DEF HeldOK
    <3> QED  BY <3>5, <3>6, <3>7, <3>8, <3>9
  <2> QED  BY <2>5, <2>6
<1> QED  BY <1>5, <1>8, <1>9, <1>10

\* The rest of Stop.
LEMMA TakingKeepsLife ==
    ASSUME FrameInv, NEW r \in Triggers, LifeOK(r), NEW t \in Threads, TakeTimer(t)
    PROVE  LifeOK(r)'
<1>0. /\ timer \in [Triggers -> Timers \cup {NoTimer}]
      /\ oldTimer \in [Threads -> Timers \cup {NoTimer}]
      /\ stage \in [Threads -> Stages]
      /\ StageOK(t)
  BY DEF FrameInv, VariablesOK
<1>1. OnlyMoves(t)
  BY OthersStand DEF OnlyMoves, ThreadStep
<1>2. /\ contents' = contents /\ trigger' = trigger /\ callback' = callback /\ step' = step
      /\ disposed' = disposed /\ attachedOnce' = attachedOnce /\ TimersAlone
  BY DEF TakeTimer, cowVars, timerVars, usageVars, TimersAlone
<1>3. /\ stage[t] = "taking" /\ stage'[t] = "closing" /\ timer[trigger[t]] # NoTimer
      /\ oldTimer'[t] = timer[trigger[t]]
  BY <1>0 DEF TakeTimer, Goes
<1>4. trigger[t] \in Triggers
  BY <1>0, <1>3 DEF StageOK
<1>5. timer'[trigger[t]] = NoTimer /\ \A s \in Triggers : s # trigger[t] => timer'[s] = timer[s]
  BY <1>0, <1>4 DEF TakeTimer
<1>6. CASE trigger[t] # r
  <2>1. SetsStand(r) /\ TriggerStands(r)
    BY <1>2, <1>5, <1>6 DEF SetsStand, TriggerStands
  <2>2. ~ Attacher(t, r) /\ ~ Closer(t, r) /\ ~ Stopper(t, r)
        /\ ~ Attacher(t, r)' /\ ~ Closer(t, r)'
    BY <1>2, <1>6 DEF Attacher, Closer, Stopper
  <2> QED  BY <1>1, <1>2, <1>3, <2>1, <2>2, ProceedingKeepsLife
<1>7. CASE trigger[t] = r
  <2>1. r \notin disposed /\ r \in attachedOnce /\ timer'[r] = NoTimer
        /\ \A u \in Threads : ~ Closer(u, r) /\ ~ Attacher(u, r)
    BY <1>3, <1>5, <1>7 DEF LifeOK, TimerOK, FreshOK
  <2>2. Closer(t, r)' /\ \A u \in Threads : ~ Attacher(u, r)' /\ (Closer(u, r)' => u = t)
    BY <1>1, <1>2, <1>3, <1>7, <2>1 DEF OnlyMoves, Attacher, Closer, AttachStages, CloseStages
  <2>3. FreshOK(r)'
    BY <1>2, <2>1, <2>2 DEF FreshOK
  <2>4. AttacherOK(r)'
    BY <2>2 DEF AttacherOK
  <2>5. DetacherOK(r)'
    <3>1. \A u \in Threads : stage'[u] = "detaching" => stage[u] = "detaching"
      BY <1>1, <1>3 DEF OnlyMoves
    <3> QED  BY <1>2, <2>2, <3>1 DEF LifeOK, DetacherOK
  <2>6. TimerOK(r)'
    <3>1. ASSUME NEW m \in Timers, owner'[m] = r,
                 m \in ticking' \/ \E w \in Workers : running'[w] = m
          PROVE  Closer(t, r)' /\ oldTimer'[t] = m
      <4>1. timer[r] = m
        BY <1>2, <2>1, <3>1 DEF LifeOK, TimerOK, TimersAlone
      <4> QED  BY <1>3, <1>7, <2>2, <4>1
    <3> QED  BY <1>2, <1>3, <2>1, <2>2, <3>1 DEF TimerOK
  <2>7. HeldOK(r)'
    BY <2>1, <2>2 DEF HeldOK
  <2> QED  BY <2>3, <2>4, <2>5, <2>6, <2>7 DEF LifeOK
<1> QED  BY <1>6, <1>7

LEMMA ClosingKeepsLife ==
    ASSUME FrameInv, NEW r \in Triggers, LifeOK(r), NEW t \in Threads, CloseTimer(t)
    PROVE  LifeOK(r)'
<1>0. stage \in [Threads -> Stages] /\ StageOK(t) /\ TimersOK
  BY DEF FrameInv, VariablesOK
<1>1. OnlyMoves(t)
  BY OthersStand DEF OnlyMoves, ThreadStep
<1>2. /\ contents' = contents /\ trigger' = trigger /\ callback' = callback /\ step' = step
      /\ oldTimer' = oldTimer /\ timer' = timer /\ owner' = owner /\ running' = running
      /\ disposed' = disposed /\ attachedOnce' = attachedOnce
      /\ ticking' = ticking \ {oldTimer[t]}
  BY DEF CloseTimer, cowVars, triggerVars, usageVars
<1>3. stage[t] = "closing" /\ stage'[t] = "waiting"
  BY <1>0 DEF CloseTimer, Goes
<1>4. \A u \in Threads : /\ Attacher(u, r)' <=> Attacher(u, r)
                         /\ Closer(u, r)' <=> Closer(u, r)
                         /\ Asking(u)' <=> Asking(u)
                         /\ Stopper(u, r) => Stopper(u, r)'
                         /\ u # t => stage'[u] = stage[u]
                         /\ Attacher(u, r) => stage'[u] = stage[u]
                         /\ stage'[u] = "detaching" => stage[u] = "detaching"
  BY <1>1, <1>2, <1>3 DEF OnlyMoves, Attacher, Closer, Asking, Stopper, AttachStages, CloseStages
<1>5. timer[r] # NoTimer => timer[r] # oldTimer[t]
  BY <1>0 DEF TimersOK
<1> USE <1>2, <1>4 DEF LifeOK
<1>6. FreshOK(r)'
  <2>1. Active(r)' => Active(r)
    BY DEF Active
  <2> QED  BY <2>1 DEF FreshOK
<1>7. AttacherOK(r)'
  BY DEF AttacherOK
<1>8. DetacherOK(r)'
  BY DEF DetacherOK
<1>9. TimerOK(r)'
  BY <1>5 DEF TimerOK
<1>10. HeldOK(r)'
  BY DEF HeldOK
<1> QED  BY <1>6, <1>7, <1>8, <1>9, <1>10

LEMMA StoppedKeepsLife ==
    ASSUME FrameInv, NEW r \in Triggers, LifeOK(r), NEW t \in Threads, TimerStopped(t)
    PROVE  LifeOK(r)'
<1>0. /\ stage \in [Threads -> Stages] /\ StageOK(t) /\ TimersOK
      /\ trigger \in [Threads -> Triggers \cup {NoTrigger}]
      /\ NoTimer \notin Timers \cup Triggers
  BY SchedulingAssumption DEF FrameInv, VariablesOK
<1>1. OnlyMoves(t)
  BY OthersStand DEF OnlyMoves, ThreadStep
<1>2. /\ contents' = contents /\ callback' = callback /\ timer' = timer
      /\ TimersAlone /\ disposed' = disposed \cup {trigger[t]} /\ attachedOnce' = attachedOnce
  BY DEF TimerStopped, cowVars, timerVars, usageVars, TimersAlone
<1>3. /\ stage[t] = "waiting" /\ stage'[t] \in {"idle", "sweeping"} /\ trigger'[t] = NoTrigger
      /\ \A w \in Workers : running[w] # oldTimer[t]
  BY <1>0 DEF TimerStopped, Ends
<1>4. trigger'[t] # r /\ stage'[t] # "detaching" /\ ~ Attacher(t, r) /\ ~ Stopper(t, r)
  BY <1>0, <1>3 DEF NoTrigger, Attacher, AttachStages, Stopper
<1>5. CASE trigger[t] # r
  <2>1. SetsStand(r) /\ TriggerStands(r) /\ ~ Closer(t, r)
    BY <1>2, <1>5 DEF SetsStand, TriggerStands, Closer
  <2> QED  BY <1>1, <1>2, <1>4, <2>1, LeavingKeepsLife
<1>6. CASE trigger[t] = r
  <2>1. Closer(t, r)
    BY <1>3, <1>6 DEF Closer, CloseStages
  <2>2. timer[r] = NoTimer /\ r \in attachedOnce /\ oldTimer[t] \notin ticking
        /\ \A u \in Threads : ~ Attacher(u, r) /\ (Closer(u, r) => u = t)
    BY <1>3, <2>1 DEF LifeOK, TimerOK, FreshOK
  <2>3. \A u \in Threads : ~ Attacher(u, r)' /\ ~ Closer(u, r)'
    BY <1>1, <1>4, <2>2 DEF OnlyMoves, Attacher, Closer
  <2>4. r \in disposed' /\ timer'[r] = NoTimer /\ r \in attachedOnce'
    BY <1>2, <1>6, <2>2
  <2>5. FreshOK(r)'
    BY <2>3, <2>4 DEF FreshOK
  <2>6. AttacherOK(r)'
    BY <2>3 DEF AttacherOK
  <2>7. DetacherOK(r)'
    <3>1. \A u \in Threads : stage'[u] = "detaching" => stage[u] = "detaching" /\ trigger'[u] = trigger[u]
      BY <1>1, <1>4 DEF OnlyMoves
    <3> QED  BY <1>2, <2>3, <3>1 DEF LifeOK, DetacherOK
  <2>8. TimerOK(r)'
    <3>1. ASSUME NEW m \in Timers, owner'[m] = r,
                 m \in ticking' \/ \E w \in Workers : running'[w] = m
          PROVE  FALSE
      <4>1. owner[m] = r /\ (m \in ticking \/ \E w \in Workers : running[w] = m)
        BY <1>2, <3>1 DEF TimersAlone
      <4>2. timer[r] = m \/ \E v \in Threads : Closer(v, r) /\ oldTimer[v] = m
        BY <4>1 DEF LifeOK, TimerOK
      <4>3. oldTimer[t] = m
        BY <1>0, <2>2, <4>2
      <4> QED  BY <1>3, <2>2, <4>1, <4>3
    <3> QED  BY <2>3, <2>4, <3>1 DEF TimerOK
  <2>9. HeldOK(r)'
    BY <2>4 DEF HeldOK
  <2> QED  BY <2>5, <2>6, <2>7, <2>8, <2>9 DEF LifeOK
<1> QED  BY <1>5, <1>6

\* A Timer fires, a callback goes on, or the collector takes a Timer.
LEMMA TimersKeepLife ==
    ASSUME FrameInv, NEW r \in Triggers, LifeOK(r),
           \/ \E w \in Workers : CallbackStep(w) \/ \E m \in Timers : Fire(w, m)
           \/ \E m \in Timers : Collect(m)
    PROVE  LifeOK(r)'
<1>0. /\ running \in [Workers -> Timers \cup {NoTimer}]
      /\ NoTimer \notin Timers \cup Triggers /\ ticking \subseteq Timers
      /\ TimersOK
  BY SchedulingAssumption DEF FrameInv, VariablesOK
<1>1. UNCHANGED <<cowVars, callerVars, triggerVars, usageVars, owner>>
  BY DEF CallbackStep, ListTasks, HandOver, CallbackReturns, Fire, Collect
<1>2. /\ ticking' \subseteq ticking
      /\ \A w \in Workers : running'[w] \in ticking \cup {NoTimer, running[w]}
      /\ (r \notin OneTime /\ timer[r] \in ticking) => timer[r] \in ticking'
  <2>1. ASSUME NEW w \in Workers, CallbackStep(w)
        PROVE  <1>2!:
    BY <1>0, <2>1 DEF CallbackStep, ListTasks, HandOver, CallbackReturns
  <2>2. ASSUME NEW w \in Workers, NEW m \in Timers, Fire(w, m)
        PROVE  <1>2!:
    BY <1>0, <2>2 DEF Fire, TimersOK
  <2>3. ASSUME NEW m \in Timers, Collect(m)
        PROVE  <1>2!:
    BY <1>0, <2>3 DEF Collect, Unreferenced
  <2> QED  BY <2>1, <2>2, <2>3
<1>3. /\ stage' = stage /\ trigger' = trigger /\ oldTimer' = oldTimer /\ step' = step
      /\ contents' = contents /\ callback' = callback /\ timer' = timer /\ owner' = owner
      /\ disposed' = disposed /\ attachedOnce' = attachedOnce
  BY <1>1 DEF cowVars, callerVars, triggerVars, usageVars
<1>4. \A m \in Timers : (m \in ticking' \/ \E w \in Workers : running'[w] = m) =>
                           m \in ticking \/ \E w \in Workers : running[w] = m
  BY <1>0, <1>2
<1> USE <1>3 DEF LifeOK, Attacher, Closer
<1>5. FreshOK(r)'
  <2>1. Active(r)' => Active(r)
    BY <1>0, <1>2 DEF Active
  <2> QED  BY <2>1 DEF FreshOK
<1>6. AttacherOK(r)'
  BY DEF AttacherOK, Asking
<1>7. DetacherOK(r)'
  BY DEF DetacherOK
<1>8. TimerOK(r)'
  BY <1>2, <1>4 DEF TimerOK
<1>9. HeldOK(r)'
  BY DEF HeldOK, Stopper
<1> QED  BY <1>5, <1>6, <1>7, <1>8, <1>9

LEMMA CallBeginsKeepsLife ==
    ASSUME FrameInv, NEW r \in Triggers, LifeOK(r), r \notin misused', NEW t \in Threads,
           CallBegins(t) \/ Sweep(t)
    PROVE  LifeOK(r)'
<1>0. /\ stage \in [Threads -> Stages] /\ StageOK(t)
      /\ rest \in [Threads -> SUBSET Triggers]
      /\ trigger \in [Threads -> Triggers \cup {NoTrigger}]
      /\ NoTimer \notin Timers \cup Triggers
  BY SchedulingAssumption DEF FrameInv, VariablesOK
<1>1. OnlyMoves(t)
  BY OthersStand DEF OnlyMoves, ThreadStep
<1>2. stage[t] \in {"idle", "sweeping"}
  BY DEF CallBegins, AttachTrigger, DetachTrigger, DisposeTrigger, AttachTask, DetachTask,
     DisposeScheduler, Sweep, Begins, Goes
<1>3. trigger[t] # r
  BY <1>0, <1>2 DEF StageOK, NoTrigger
<1>4. TriggerStands(r) /\ TimersAlone /\ callback' = callback /\ contents' = contents
  BY DEF CallBegins, AttachTrigger, DetachTrigger, DisposeTrigger, AttachTask, DetachTask,
     DisposeScheduler, Sweep, Call, cowVars, triggerVars, timerVars, TriggerStands, TimersAlone
<1>5. ASSUME NEW s \in Triggers \cup {NoTrigger},
             stage'[t] \in {"attaching", "detaching", "stopping", "changing tasks", "sweeping"},
             trigger'[t] = s,
             stage'[t] = "attaching" => s # r,
             r \in attachedOnce' <=> r \in attachedOnce,
             stage'[t] = "detaching" => s \in Triggers /\ misused' = misused \cup CarelesslyDetached(s)
      PROVE  LifeOK(r)'
  <2>1. SetsStand(r)
    BY <1>4, <1>5 DEF SetsStand
  <2>2. ~ Attacher(t, r)' /\ ~ Closer(t, r)'
    BY <1>5 DEF Attacher, Closer, AttachStages, CloseStages
  <2>3. ASSUME stage'[t] = "detaching", trigger'[t] \in Twins(r), r \in attachedOnce
        PROVE  trigger'[t] = r /\ \A u \in Threads : ~ Attacher(u, r)
    <3>1. r \in Twins(s) /\ r \notin CarelesslyDetached(s)
      BY <1>5, <2>3 DEF Twins
    <3> QED  BY <1>5, <2>3, <3>1 DEF CarelesslyDetached, InAttach, Attacher, AttachStages
  <2> QED  BY <1>1, <1>3, <1>4, <2>1, <2>2, <2>3, BeginningKeepsLife
<1>6. ASSUME NEW s \in Triggers, AttachTrigger(t, s)
      PROVE  LifeOK(r)'
  <2>1. CASE s = r
    BY <1>6, <2>1, AttachingKeepsLife
  <2>2. CASE s # r
    <3>1. stage'[t] = "attaching" /\ trigger'[t] = s /\ attachedOnce' = attachedOnce \cup {s}
      BY <1>0, <1>6 DEF AttachTrigger, Begins, Goes
    <3> QED  BY <1>5, <2>2, <3>1
  <2> QED  BY <2>1, <2>2
<1>7. ASSUME NEW s \in Triggers, DetachTrigger(t, s)
      PROVE  LifeOK(r)'
  <2>1. /\ stage'[t] = "detaching" /\ trigger'[t] = s /\ attachedOnce' = attachedOnce
        /\ misused' = misused \cup CarelesslyDetached(s)
    BY <1>0, <1>7 DEF DetachTrigger, Begins, Goes
  <2> QED  BY <1>5, <2>1
<1>8. ASSUME NEW s \in Triggers, DisposeTrigger(t, s)
      PROVE  LifeOK(r)'
  <2>1. stage'[t] = "stopping" /\ trigger'[t] = s /\ attachedOnce' = attachedOnce
    BY <1>0, <1>8 DEF DisposeTrigger, Begins, Goes, usageVars
  <2> QED  BY <1>5, <2>1
<1>9. ASSUME NEW s \in Triggers, NEW k \in Tasks, AttachTask(t, s, k) \/ DetachTask(t, s, k)
      PROVE  LifeOK(r)'
  <2>1. stage'[t] = "changing tasks" /\ trigger'[t] = s /\ attachedOnce' = attachedOnce
    BY <1>0, <1>9 DEF AttachTask, DetachTask, Begins, Goes, usageVars
  <2> QED  BY <1>5, <2>1
<1>10. CASE DisposeScheduler(t)
  <2>1. stage'[t] = "sweeping" /\ trigger'[t] = NoTrigger /\ attachedOnce' = attachedOnce
    BY <1>0, <1>10 DEF DisposeScheduler, Begins, Goes, usageVars
  <2> QED  BY <1>5, <2>1
<1>11. CASE Sweep(t)
  <2>1. PICK s \in rest[t] :
            /\ Goes(t, "sweeping", "detaching") /\ trigger' = [trigger EXCEPT ![t] = s]
            /\ misused' = misused \cup CarelesslyDetached(s) /\ attachedOnce' = attachedOnce
    BY <1>11 DEF Sweep
  <2>2. stage'[t] = "detaching" /\ trigger'[t] = s /\ s \in Triggers
    BY <1>0, <2>1 DEF Goes
  <2> QED  BY <1>5, <2>1, <2>2
<1> QED  BY <1>6, <1>7, <1>8, <1>9, <1>10, <1>11 DEF CallBegins

LEMMA EndingKeepsLife ==
    ASSUME FrameInv, NEW r \in Triggers, LifeOK(r), NEW t \in Threads,
           \/ TasksChanged(t) \/ NotAttached(t) \/ StartRefused(t)
           \/ NotDetached(t) \/ DisposedBefore(t) \/ NoTimerToTake(t)
    PROVE  LifeOK(r)'
<1>0. /\ stage \in [Threads -> Stages] /\ StageOK(t)
      /\ trigger \in [Threads -> Triggers \cup {NoTrigger}]
      /\ NoTimer \notin Timers \cup Triggers
  BY SchedulingAssumption DEF FrameInv, VariablesOK
<1>1. OnlyMoves(t)
  BY OthersStand DEF OnlyMoves, ThreadStep
<1>2. SetsStand(r) /\ TriggerStands(r) /\ TimersAlone /\ callback' = callback
  BY DEF TasksChanged, NotAttached, StartRefused, NotDetached, DisposedBefore, NoTimerToTake,
     Return, cowVars, triggerVars, timerVars, usageVars, SetsStand, TriggerStands, TimersAlone
<1>3. stage'[t] \in {"idle", "sweeping"} /\ trigger'[t] = NoTrigger /\ trigger'[t] # r
  BY <1>0 DEF TasksChanged, NotAttached, StartRefused, NotDetached, DisposedBefore,
     NoTimerToTake, Ends, NoTrigger
<1>4. ~ Closer(t, r)
  BY DEF TasksChanged, NotAttached, StartRefused, NotDetached, DisposedBefore, NoTimerToTake,
     Ends, Closer, CloseStages
<1>5. Attacher(t, r) => r \notin contents[Scheduler]
  <2>1. CASE NotAttached(t)
    <3>1. Asking(t)
      BY <2>1 DEF NotAttached, Ends, Asking
    <3> QED  BY <3>1 DEF LifeOK, AttacherOK
  <2>2. CASE StartRefused(t)
    BY <2>2 DEF StartRefused, StartedMeanwhile, Ends, Attacher, LifeOK, AttacherOK
  <2>3. CASE TasksChanged(t) \/ NotDetached(t) \/ DisposedBefore(t) \/ NoTimerToTake(t)
    BY <2>3 DEF TasksChanged, NotDetached, DisposedBefore, NoTimerToTake, Ends, Attacher, AttachStages
  <2> QED  BY <2>1, <2>2, <2>3
<1>6. Stopper(t, r) => timer[r] = NoTimer
  <2>1. CASE DisposedBefore(t)
    BY <2>1 DEF DisposedBefore, Stopper, LifeOK, TimerOK
  <2>2. CASE NoTimerToTake(t)
    BY <2>2 DEF NoTimerToTake, Stopper
  <2>3. CASE TasksChanged(t) \/ NotAttached(t) \/ StartRefused(t) \/ NotDetached(t)
    BY <2>3 DEF TasksChanged, NotAttached, StartRefused, NotDetached, Ends, Stopper
  <2> QED  BY <2>1, <2>2, <2>3
<1> QED  BY <1>1, <1>2, <1>3, <1>4, <1>5, <1>6, LeavingKeepsLife

LEMMA GoingOnKeepsLife ==
    ASSUME FrameInv, NEW r \in Triggers, LifeOK(r), NEW t \in Threads,
           \/ ChangingSets(t) /\ ~ Installed(t)
           \/ Attached(t) \/ ReadCallback(t) \/ ExchangeCallback(t)
           \/ Detached(t) \/ NotDisposedBefore(t)
    PROVE  LifeOK(r)'
<1>0. stage \in [Threads -> Stages] /\ step \in [Threads -> Steps]
  BY DEF FrameInv, VariablesOK, CowInv, CowTypeOK
<1>1. OnlyMoves(t)
  BY OthersStand DEF OnlyMoves, ThreadStep
<1>2. /\ contents' = contents /\ attachedOnce' = attachedOnce /\ timer' = timer
      /\ disposed' = disposed /\ TimersAlone /\ trigger' = trigger /\ oldTimer' = oldTimer
  BY DEF ChangingSets, CallStep, ReadBefore, Refused, Accepted, CopyToAdd, CopyThrows,
     CopyToRemove, Overwritten, Attached, ReadCallback, ExchangeCallback, Detached,
     NotDisposedBefore, Return, cowVars, callerVars, triggerVars, timerVars, usageVars, TimersAlone
<1>3. SetsStand(r) /\ TriggerStands(r)
  BY <1>2 DEF SetsStand, TriggerStands
<1>4. CASE ChangingSets(t) /\ ~ Installed(t)
  <2>1. step[t] # "true" /\ step'[t] # "true" /\ stage' = stage /\ callback' = callback
    BY <1>0, <1>4 DEF ChangingSets, CallStep, Moves, ReadBefore, Refused, Accepted, CopyToAdd,
       CopyThrows, CopyToRemove, Overwritten, callerVars, triggerVars
  <2>2. /\ Attacher(t, r)' <=> Attacher(t, r)
        /\ Closer(t, r)' <=> Closer(t, r)
        /\ Asking(t)' <=> Asking(t)
        /\ Stopper(t, r) => Stopper(t, r)'
    BY <1>2, <2>1 DEF Attacher, Closer, Asking, Stopper
  <2> QED  BY <1>1, <1>2, <1>3, <2>1, <2>2, ProceedingKeepsLife
<1>5. CASE \/ Attached(t) \/ ReadCallback(t) \/ ExchangeCallback(t)
           \/ Detached(t) \/ NotDisposedBefore(t)
  <2>1. /\ <<stage[t], stage'[t]>> \in {<<"attaching", "starting">>, <<"starting", "exchanging">>,
               <<"exchanging", "on start">>, <<"detaching", "stopping">>, <<"stopping", "taking">>}
        /\ stage[t] \in {"attaching", "detaching"} => step[t] = "true"
    BY <1>0, <1>5 DEF Attached, ReadCallback, ExchangeCallback, Detached, NotDisposedBefore, Goes
  <2>2. /\ Attacher(t, r)' <=> Attacher(t, r)
        /\ Closer(t, r)' <=> Closer(t, r)
        /\ Asking(t)' <=> Asking(t)
        /\ Stopper(t, r) => Stopper(t, r)'
        /\ stage'[t] # "waiting" /\ stage'[t] # "detaching" /\ stage[t] # "on start"
    BY <1>2, <2>1 DEF Attacher, Closer, Asking, Stopper, AttachStages, CloseStages
  <2>3. \/ r \in callback' <=> r \in callback
        \/ Attacher(t, r) /\ stage'[t] = "on start"
    <3>1. CASE ExchangeCallback(t)
      BY <1>0, <3>1 DEF ExchangeCallback, Goes, Attacher, AttachStages
    <3>2. CASE ~ ExchangeCallback(t)
      BY <1>5, <3>2 DEF Attached, ReadCallback, Detached, NotDisposedBefore, triggerVars
    <3> QED  BY <3>1, <3>2
  <2> QED  BY <1>1, <1>2, <1>3, <2>2, <2>3, ProceedingKeepsLife
<1> QED  BY <1>4, <1>5

LEMMA StepLife ==
    ASSUME FrameInv, LifeInv, [Next]_vars
    PROVE  LifeInv'
<1> SUFFICES ASSUME NEW r \in Triggers, r \notin misused'
             PROVE  LifeOK(r)'
  BY DEF LifeInv
<1>1. misused \subseteq misused'
  BY DEF Next, CallBegins, AttachTrigger, DetachTrigger, DisposeTrigger, AttachTask, DetachTask,
     DisposeScheduler, ThreadStep, ChangingSets, TasksChanged, Attached, NotAttached,
     ReadCallback, StartRefused, ExchangeCallback, OnStart, Detached, NotDetached,
     DisposedBefore, NotDisposedBefore, NoTimerToTake, TakeTimer, CloseTimer, TimerStopped,
     Sweep, CallbackStep, ListTasks, HandOver, CallbackReturns, Fire, Collect, usageVars, vars
<1>2. LifeOK(r)
  BY <1>1 DEF LifeInv
<1>3. CASE UNCHANGED vars
  BY <1>2, <1>3 DEF vars, cowVars, callerVars, triggerVars, timerVars, usageVars, LifeOK, FreshOK,
     AttacherOK, DetacherOK, TimerOK, HeldOK, Attacher, Closer, Stopper, Asking, Active
<1>4. ASSUME NEW t \in Threads, CallBegins(t) \/ ThreadStep(t)
      PROVE  LifeOK(r)'
  <2>1. CASE ChangingSets(t)
    BY <1>2, <2>1, InstallingKeepsLife, GoingOnKeepsLife
  <2>2. CASE CallBegins(t) \/ Sweep(t)
    BY <1>2, <2>2, CallBeginsKeepsLife
  <2>3. CASE \/ TasksChanged(t) \/ NotAttached(t) \/ StartRefused(t)
             \/ NotDetached(t) \/ DisposedBefore(t) \/ NoTimerToTake(t)
    BY <1>2, <2>3, EndingKeepsLife
  <2>4. CASE \/ Attached(t) \/ ReadCallback(t) \/ ExchangeCallback(t)
             \/ Detached(t) \/ NotDisposedBefore(t)
    BY <1>2, <2>4, GoingOnKeepsLife
  <2>5. CASE OnStart(t) \/ TakeTimer(t) \/ CloseTimer(t) \/ TimerStopped(t)
    BY <1>2, <2>5, OnStartKeepsLife, TakingKeepsLife, ClosingKeepsLife, StoppedKeepsLife
  <2> QED  BY <1>4, <2>1, <2>2, <2>3, <2>4, <2>5 DEF ThreadStep
<1> QED  BY <1>2, <1>3, <1>4, TimersKeepLife DEF Next

LEMMA LifeHolds == Spec => [](FrameInv /\ LifeInv)
<1>1. Init => LifeInv
  BY SchedulingAssumption DEF Init, CowInit, LifeInv, LifeOK, FreshOK, AttacherOK, DetacherOK,
     TimerOK, HeldOK, Attacher, Closer, Stopper, Asking, Active, AttachStages, CloseStages
<1> QED  BY <1>1, StepLife, FrameHolds, PTL DEF Spec

\* Between two calls, a trigger that is used with care and is not in the set
\* has no Timer.
LEMMA OutsideHasNoTimer ==
    ASSUME LifeInv, NEW r \in Triggers \ misused, Settled(r), r \notin contents[Scheduler]
    PROVE  timer[r] = NoTimer
<1>1. LifeOK(r)
  BY DEF LifeInv
<1>2. \A u \in Threads : ~ Stopper(u, r)
  BY DEF Settled, Stopper
<1> QED  BY <1>1, <1>2 DEF LifeOK, HeldOK

\* A trigger that its owners use with care hands over no task once it has been
\* detached: for any number of threads that attach, detach and dispose, and of
\* callbacks that run meanwhile.
THEOREM DetachedIsQuietCorrect == Spec => []DetachedIsQuiet
<1>1. FrameInv /\ LifeInv => DetachedIsQuiet
  <2> SUFFICES ASSUME FrameInv, LifeInv, NEW r \in Triggers \ misused,
                      Settled(r), r \notin contents[Scheduler], Active(r)
               PROVE  FALSE
    BY DEF DetachedIsQuiet
  <2>1. LifeOK(r)
    BY DEF LifeInv
  <2>2. \A u \in Threads : ~ Closer(u, r) /\ ~ Stopper(u, r)
    BY DEF Settled, Closer, Stopper
  <2>3. timer[r] = NoTimer
    BY OutsideHasNoTimer
  <2>4. PICK m \in Timers : owner[m] = r /\ (m \in ticking \/ \E w \in Workers : running[w] = m)
    BY DEF Active, FrameInv, VariablesOK
  <2>5. timer[r] = m
    BY <2>1, <2>2, <2>4 DEF LifeOK, TimerOK
  <2> QED  BY <2>3, <2>4, <2>5, SchedulingAssumption
<1> QED  BY <1>1, LifeHolds, PTL

\* Stop fails to stop a trigger only where somebody was not careful: as long as
\* nobody attaches a trigger for a second time or while one of its name is
\* detached, or detaches one that is being attached or through another of its
\* name, whoever has detached a trigger has also taken its Timer from it.
THEOREM OnlyMisuseKeepsTimers == Spec => [](misused = {} => DetachStops)
<1>1. LifeInv => (misused = {} => DetachStops)
  BY OutsideHasNoTimer DEF DetachStops
<1> QED  BY <1>1, LifeHolds, PTL

\* A trigger that the scheduler holds has its Timer, unless somebody disposed it.
THEOREM AttachedIsRunningCorrect == Spec => []AttachedIsRunning
<1>1. LifeInv => AttachedIsRunning
  <2> SUFFICES ASSUME LifeInv, NEW r \in Triggers, r \in contents[Scheduler],
                      r \notin misused, r \notin disposed, Settled(r)
               PROVE  timer[r] # NoTimer /\ (r \notin OneTime => timer[r] \in ticking)
    BY DEF AttachedIsRunning
  <2>1. LifeOK(r)
    BY DEF LifeInv
  <2>2. \A u \in Threads : ~ Closer(u, r) /\ ~ Attacher(u, r)
    BY DEF Settled, Closer, Attacher
  <2> QED  BY <2>1, <2>2 DEF LifeOK, HeldOK, TimerOK
<1> QED  BY <1>1, LifeHolds, PTL

=============================================================================
