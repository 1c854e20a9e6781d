--------------------------- MODULE ContainerProofs ---------------------------
(***************************************************************************)
(* Proofs about TaskDispatcher and about Container, which extends it.  The *)
(* executors see the dispatcher as one of the callers QueuedExecutor       *)
(* allows, so what QueuedExecutorProofs says of the executors holds here;  *)
(* the dispatcher's own counter follows by the argument on counters that   *)
(* is stated there.  The container in turn uses the dispatcher as any      *)
(* caller may, and it refuses every task that comes after its end.         *)
(***************************************************************************)
EXTENDS Container, QueuedExecutorProofs


\* The envelope that ended its worker is nowhere any more.
FatalOK == \A e \in fatal : Nowhere(e)

DispatcherOK == PlacesOK /\ DispatcherTypeOK /\ FatalOK

-----------------------------------------------------------------------------
(* The dispatcher as a caller of its executors *)

\* Each step of the dispatcher is a step of its executors or leaves them alone.
LEMMA StepIsQueueStep ==
    ASSUME DispatcherTypeOK, [Next]_vars
    PROVE  [QueueNext]_queueVars
<1>1. CASE UNCHANGED vars
  BY <1>1 DEF vars
<1>2. ASSUME NEW p \in Producers, CallDispose(p) \/ \E e \in Envelopes : Execute(p, e)
      PROVE  [QueueNext]_queueVars
  <2>1. p \in Threads
    BY DispatcherAssumption
  <2> QED  BY <1>2, <2>1 DEF CallDispose, Execute, QueueNext
<1>3. ASSUME NEW t \in Threads, ThreadStep(t)
      PROVE  [QueueNext]_queueVars
  <2>1. CASE Enqueueing(t) \/ OnTaskAdded(t)
    BY <2>1 DEF Enqueueing, OnTaskAdded, QueueNext, EnqueueStep
  <2>2. CASE Claim(t)
    <3>1. CASE UNCHANGED queueVars  BY <3>1
    <3>2. CASE CallDequeue(t, executor[t]) /\ executor[t] # None
      BY <3>2 DEF QueueNext, DispatcherTypeOK
    <3> QED  BY <2>2, <3>1, <3>2 DEF Claim
  <2>3. CASE AskNextQueue(t) \/ Dequeueing(t)
    <3>1. scan[t] \subseteq Queues
      BY DEF DispatcherTypeOK
    <3> QED  BY <2>3, <3>1 DEF AskNextQueue, Dequeueing, QueueNext
  <2>4. CASE Start(t)
    <3>1. PICK w \in Workers : HandOver(t, w)
      BY <2>4 DEF Start
    <3>2. w \in Threads
      BY DispatcherAssumption
    <3> QED  BY <3>1, <3>2 DEF QueueNext
  <2>5. CASE Loop(t) \/ Executing(t) \/ Faulted(t)
    BY <2>5 DEF Loop, Executing, Faulted, QueueNext, ExecuteStep
  <2>6. CASE \/ Begin(t) \/ Unclaim(t) \/ NoTaskFound(t) \/ Leave(t)
             \/ MarkDisposed(t) \/ DisposeReturns(t)
    BY <2>6 DEF Begin, Unclaim, NoTaskFound, Leave, MarkDisposed, DisposeReturns
  <2> QED  BY <1>3, <2>1, <2>2, <2>3, <2>4, <2>5, <2>6 DEF ThreadStep
<1> QED  BY <1>1, <1>2, <1>3 DEF Next

\* What a step does to the variables of the dispatcher, as far as their types
\* are concerned.
LEMMA StepTypes ==
    ASSUME PlacesOK, DispatcherTypeOK, Next, PlacesOK'
    PROVE  DispatcherTypeOK'
<1> USE DispatcherAssumption DEF DispatcherTypeOK, Places, SlotPlaces, Moves, shutdownVars
<1>0. QueueTypeOK'
  BY DEF PlacesOK
<1>1. ASSUME NEW p \in Producers, CallDispose(p) \/ \E e \in Envelopes : Execute(p, e)
      PROVE  DispatcherTypeOK'
  BY <1>0, <1>1 DEF CallDispose, Execute
<1>2. ASSUME NEW t \in Threads, ThreadStep(t)
      PROVE  DispatcherTypeOK'
  <2>1. CASE Enqueueing(t)  BY <1>0, <2>1 DEF Enqueueing
  <2>2. CASE OnTaskAdded(t)
    <3>1. at[t] \in Queues
      BY <2>2 DEF OnTaskAdded, Signal, PlacesOK, FrameOK
    <3> QED  BY <1>0, <2>2, <3>1 DEF OnTaskAdded
  <2>3. CASE Begin(t)  BY <1>0, <2>3 DEF Begin
  <2>4. CASE Claim(t)  BY <1>0, <2>4 DEF Claim
  <2>5. CASE Unclaim(t)  BY <1>0, <2>5 DEF Unclaim
  <2>6. CASE AskNextQueue(t)  BY <1>0, <2>6 DEF AskNextQueue
  <2>7. CASE Dequeueing(t)  BY <1>0, <2>7 DEF Dequeueing, dispatcherVars
  <2>8. CASE NoTaskFound(t)  BY <1>0, <2>8 DEF NoTaskFound
  <2>9. CASE Start(t)  BY <1>0, <2>9 DEF Start, TakeFreeCell
  <2>10. CASE Loop(t)  BY <1>0, <2>10 DEF Loop
  <2>11. CASE Executing(t)  BY <1>0, <2>11 DEF Executing
  <2>12. CASE Faulted(t)
    <3>1. env[t] \in Envelopes
      BY <2>12 DEF Faulted, ReleaseFails, DeleteFails, PlacesOK, FrameOK, EnvelopeSteps
    <3> QED  BY <1>0, <2>12, <3>1 DEF Faulted
  <2>13. CASE Leave(t)  BY <1>0, <2>13 DEF Leave
  <2>14. CASE MarkDisposed(t)
    <3>1. disposed' \in BOOLEAN
      BY <2>14 DEF MarkDisposed
    <3>2. disposeCount' \in Nat
      BY <2>14 DEF MarkDisposed
    <3>3. pc' \in [Threads -> Places]
      BY <2>14 DEF MarkDisposed
    <3> QED  BY <1>0, <2>14, <3>1, <3>2, <3>3, Zenon DEF MarkDisposed
  <2>15. CASE DisposeReturns(t)  BY <1>0, <2>15 DEF DisposeReturns
  <2> HIDE DEF DispatcherTypeOK
  <2> QED  BY <1>2, <2>1, <2>2, <2>3, <2>4, <2>5, <2>6, <2>7, <2>8, <2>9, <2>10,
              <2>11, <2>12, <2>13, <2>14, <2>15 DEF ThreadStep
<1> QED  BY <1>1, <1>2 DEF Next

-----------------------------------------------------------------------------
(* The counter of the dispatcher *)

UnclaimingThreads == {t \in Threads : pc[t] = "unclaim"}

\* The effects named Keeps, Enters and so on, on the dispatcher's counter.
SlotsKept ==
    Keeps(SlotHolders, UnclaimingThreads, active,
          SlotHolders', UnclaimingThreads', active')
SlotEntered(t) ==
    Enters(SlotHolders, UnclaimingThreads, active,
           SlotHolders', UnclaimingThreads', active', t, Limit)
SlotExited(t) ==
    Exits(SlotHolders, UnclaimingThreads, active,
          SlotHolders', UnclaimingThreads', active', t)
SlotReplaced(t, x) ==
    Replaces(SlotHolders, UnclaimingThreads, active,
             SlotHolders', UnclaimingThreads', active', t, x)

SlotsOK == Counted(SlotHolders, UnclaimingThreads, active, Limit)

\* _maxConcurrency is a number, which does not change.
LEMMA LimitType == Limit \in Nat
<1> DEFINE S == {w \in Queues \X (1..255) : w[2] <= Priority[w[1]]}
<1>1. IsFiniteSet(1..255)
  <2>1. 1 \in Int /\ 255 \in Int
    OBVIOUS
  <2> QED  BY <2>1, FS_Interval, Zenon
<1>2. IsFiniteSet(Queues \X (1..255))
  BY <1>1, DispatcherAssumption, FS_Product, Zenon
<1>3. IsFiniteSet(S)
  BY <1>2, FS_Subset
<1>4. Cardinality(S) \in Nat
  BY <1>3, FS_CardinalityType
<1>5. QueueTotalConcurrency \in Nat
  <2> HIDE DEF S
  <2>1. Cardinality(S) % 256 \in Nat
    BY <1>4
  <2> QED  BY <2>1 DEF QueueTotalConcurrency, S
<1> QED  BY <1>5, DispatcherAssumption DEF Limit

LEMMA SlotHoldersFinite ==
    ASSUME DispatcherTypeOK
    PROVE  IsFiniteSet(SlotHolders) /\ UnclaimingThreads \subseteq SlotHolders
<1>1. SlotHolders \subseteq Threads \cup Envelopes
  BY DEF SlotHolders, DispatcherTypeOK
<1>2. IsFiniteSet(Threads \cup Envelopes)
  BY QueueAssumption, FS_Union
<1>3. UnclaimingThreads \subseteq SlotHolders
  BY DEF UnclaimingThreads, SlotHolders, SlotPlaces
<1> QED  BY <1>1, <1>2, <1>3, FS_Subset

\* Which of the effects each step has on the dispatcher's counter.
LEMMA SlotEffect ==
    ASSUME DispatcherOK, Next
    PROVE  \/ SlotsKept
           \/ \E t : SlotEntered(t)
           \/ \E t : SlotExited(t)
           \/ \E t, x : SlotReplaced(t, x)
<1> USE DEF DispatcherTypeOK, DispatcherOK, SlotHolders, SlotPlaces, UnclaimingThreads, Moves
<1>0. fatal \cap Threads = {}
  BY QueueAssumption
<1>1. ASSUME NEW p \in Producers, CallDispose(p) \/ \E e \in Envelopes : Execute(p, e)
      PROVE  SlotsKept
  <2>1. p \in Threads
    BY DispatcherAssumption
  <2> QED  BY <1>1, <2>1 DEF CallDispose, Execute, SlotsKept, Keeps
<1>2. ASSUME NEW t \in Threads,
             \/ Enqueueing(t) \/ OnTaskAdded(t) \/ Begin(t) \/ AskNextQueue(t)
             \/ Dequeueing(t) \/ Loop(t) \/ Executing(t)
             \/ MarkDisposed(t) \/ DisposeReturns(t)
      PROVE  SlotsKept
  <2>1. /\ active' = active /\ fatal' = fatal
        /\ \E s \in Places :
               /\ pc' = [pc EXCEPT ![t] = s]
               /\ s \in SlotPlaces <=> pc[t] \in SlotPlaces
               /\ s # "unclaim" /\ pc[t] # "unclaim"
    <3> USE DEF Places
    <3>1. CASE Enqueueing(t) \/ OnTaskAdded(t) \/ Begin(t)
      BY <3>1 DEF Enqueueing, OnTaskAdded, Begin
    <3>2. CASE AskNextQueue(t) \/ Dequeueing(t)
      BY <3>2 DEF AskNextQueue, Dequeueing, dispatcherVars
    <3>3. CASE Loop(t) \/ Executing(t)
      BY <3>3 DEF Loop, Executing
    <3>4. CASE MarkDisposed(t) \/ DisposeReturns(t)
      BY <3>4 DEF MarkDisposed, DisposeReturns
    <3> QED  BY <1>2, <3>1, <3>2, <3>3, <3>4
  <2> QED  BY <2>1 DEF SlotsKept, Keeps
<1>3. ASSUME NEW t \in Threads, Claim(t)
      PROVE  SlotEntered(t)
  <2>1. /\ pc[t] = "claim" /\ active' = active + 1 /\ fatal' = fatal
        /\ \E s \in {"unclaim", "fetch", "dequeue"} :
               /\ pc' = [pc EXCEPT ![t] = s]
               /\ active + 1 > Limit => s = "unclaim"
    BY <1>3, LimitType DEF Claim
  <2> QED  BY <2>1, <1>0 DEF SlotEntered, Enters
<1>4. ASSUME NEW t \in Threads, Unclaim(t) \/ NoTaskFound(t) \/ Leave(t)
      PROVE  SlotExited(t)
  <2>1. /\ pc[t] \in SlotPlaces /\ active' = active - 1 /\ fatal' = fatal
        /\ \E s \in {"begin", "out"} : pc' = [pc EXCEPT ![t] = s]
    BY <1>4 DEF Unclaim, NoTaskFound, Leave
  <2> QED  BY <2>1, <1>0 DEF SlotExited, Exits
<1>5. ASSUME NEW t \in Threads, Start(t)
      PROVE  \E w : SlotReplaced(t, w)
  <2>1. PICK w \in Workers :
            /\ pc[w] = "out"
            /\ pc' = [pc EXCEPT ![t] = "out", ![w] = "next"]
    BY <1>5 DEF Start
  <2>2. pc[t] \in {"dequeue", "fetch"} /\ active' = active /\ fatal' = fatal
    BY <1>5 DEF Start
  <2>3. w \in Threads /\ w # t
    BY <2>1, <2>2, DispatcherAssumption
  <2>4. SlotReplaced(t, w)
    BY <2>1, <2>2, <2>3, <1>0 DEF SlotReplaced, Replaces
  <2> QED  BY <2>4
<1>6. ASSUME NEW t \in Threads, Faulted(t)
      PROVE  SlotReplaced(t, env[t])
  <2>1. env[t] \notin fatal
    BY DEF FatalOK, Nowhere
  <2>2. step[t] \in EnvelopeSteps
    BY <1>6 DEF Faulted, ReleaseFails, DeleteFails, EnvelopeSteps
  <2>3. env[t] \in Envelopes /\ env[t] \notin Threads
    BY <2>2, QueueAssumption DEF PlacesOK, FrameOK
  <2>4. /\ pc[t] = "execute" /\ pc' = [pc EXCEPT ![t] = "out"]
        /\ active' = active /\ fatal' = fatal \cup {env[t]}
    BY <1>6 DEF Faulted
  <2> QED  BY <2>1, <2>3, <2>4, <1>0 DEF SlotReplaced, Replaces
<1> HIDE DEF DispatcherTypeOK, DispatcherOK, SlotHolders, SlotPlaces, UnclaimingThreads, Moves
<1>7. ASSUME NEW t \in Threads, ThreadStep(t)
      PROVE  SlotsKept \/ SlotEntered(t) \/ SlotExited(t) \/ \E x : SlotReplaced(t, x)
  BY <1>2, <1>3, <1>4, <1>5, <1>6, <1>7 DEF ThreadStep
<1> QED  BY <1>1, <1>7 DEF Next

LEMMA NextSlots ==
    ASSUME DispatcherOK, SlotsOK, [Next]_vars
    PROVE  SlotsOK'
<1>1. CASE Next
  <2>1. IsFiniteSet(SlotHolders) /\ UnclaimingThreads \subseteq SlotHolders
    BY SlotHoldersFinite DEF DispatcherOK
  <2>2. \/ SlotsKept
        \/ \E t : SlotEntered(t)
        \/ \E t : SlotExited(t)
        \/ \E t, x : SlotReplaced(t, x)
    BY <1>1, SlotEffect
  <2> QED  BY <2>1, <2>2, LimitType, EffectKeepsCount
           DEF SlotsOK, SlotsKept, SlotEntered, SlotExited, SlotReplaced
<1>2. CASE UNCHANGED vars
  BY <1>2 DEF vars, dispatcherVars, SlotsOK, Counted, SlotHolders, UnclaimingThreads
<1> QED  BY <1>1, <1>2

LEMMA NextFatal ==
    ASSUME DispatcherOK, [Next]_vars
    PROVE  FatalOK'
<1> USE DEF DispatcherOK
<1>0. /\ [QueueNext]_queueVars
      /\ fatal \subseteq Envelopes
  BY StepIsQueueStep DEF DispatcherTypeOK
<1>1. ASSUME NEW e \in fatal
      PROVE  Nowhere(e)'
  <2>1. Nowhere(e) /\ e \in Envelopes
    BY <1>0 DEF FatalOK
  <2>2. CASE UNCHANGED queueVars
    BY <2>1, <2>2 DEF Nowhere, queueVars
  <2> QED  BY <1>0, <2>1, <2>2, NowhereForGood
<1>2. ASSUME NEW t \in Threads, Faulted(t), NEW e, e = env[t]
      PROVE  Nowhere(e)'
  <2>1. /\ step[t] \in EnvelopeSteps
        /\ env' = [env EXCEPT ![t] = None]
        /\ UNCHANGED <<queue, offered>>
    BY <1>2 DEF Faulted, ReleaseFails, DeleteFails, EnvelopeSteps, Returns, Goes,
       contents, history
  <2>2. /\ e \in offered /\ e \in Envelopes
        /\ \A u \in Threads : u # t => env[u] # e
        /\ \A q \in Queues : e \notin Elements(queue[q])
    BY <1>2, <2>1, QueueAssumption DEF PlacesOK, FrameOK, HoldersOK, QueuesOK
  <2> QED  BY <2>1, <2>2, QueueAssumption DEF Nowhere, PlacesOK, QueueTypeOK
<1>3. \/ fatal' = fatal
      \/ \E t \in Threads : Faulted(t) /\ fatal' = fatal \cup {env[t]}
  <2>1. ASSUME NEW t \in Threads, ThreadStep(t), ~Faulted(t)
        PROVE  fatal' = fatal
    BY <2>1 DEF ThreadStep, Enqueueing, OnTaskAdded, Begin, Claim, Unclaim, AskNextQueue,
       Dequeueing, NoTaskFound, Start, Loop, Executing, Leave, MarkDisposed,
       DisposeReturns, dispatcherVars
  <2>2. ASSUME NEW t \in Threads, Faulted(t)
        PROVE  fatal' = fatal \cup {env[t]}
    BY <2>2 DEF Faulted
  <2>3. ASSUME NEW p \in Producers, CallDispose(p) \/ \E e \in Envelopes : Execute(p, e)
        PROVE  fatal' = fatal
    BY <2>3 DEF CallDispose, Execute
  <2> QED  BY <2>1, <2>2, <2>3 DEF Next, vars, dispatcherVars
<1>4. CASE fatal' = fatal
  BY <1>1, <1>4 DEF FatalOK
<1>5. ASSUME NEW t \in Threads, Faulted(t), fatal' = fatal \cup {env[t]}
      PROVE  FatalOK'
  BY <1>1, <1>2, <1>5 DEF FatalOK
<1> QED  BY <1>3, <1>4, <1>5

LEMMA InitDispatcher == Init => DispatcherOK /\ SlotsOK
<1> SUFFICES ASSUME Init
             PROVE  DispatcherOK /\ SlotsOK
  OBVIOUS
<1>1. PlacesOK
  BY InitPlaces DEF Init
<1>2. DispatcherTypeOK
  <2>1. QueueTypeOK /\ active \in Int /\ disposeCount \in Nat
    BY <1>1 DEF Init, PlacesOK
  <2>2. disposed \in BOOLEAN
    BY DEF Init
  <2>3. /\ executionInfos \in [Cells -> Workers \cup {None}]
        /\ pc \in [Threads -> Places]
        /\ executor \in [Threads -> Queues \cup {None}]
        /\ scan \in [Threads -> SUBSET Queues]
        /\ fatal \subseteq Envelopes
    BY DEF Init, Places
  <2> QED  BY <2>1, <2>2, <2>3, Zenon DEF DispatcherTypeOK
<1>3. SlotHolders = {} /\ active = 0
  BY DEF Init, SlotHolders, SlotPlaces
<1>4. Cardinality({}) = 0 /\ SlotHolders \ UnclaimingThreads = {}
  BY <1>3, FS_EmptySet
<1>5. SlotsOK
  BY <1>3, <1>4, LimitType DEF SlotsOK, Counted
<1>6. FatalOK
  BY DEF Init, FatalOK
<1> QED  BY <1>1, <1>2, <1>5, <1>6 DEF DispatcherOK

LEMMA NextDispatcher == DispatcherOK /\ [Next]_vars => DispatcherOK'
<1> SUFFICES ASSUME DispatcherOK, [Next]_vars
             PROVE  DispatcherOK'
  OBVIOUS
<1>1. PlacesOK'
  BY StepIsQueueStep, NextPlaces DEF DispatcherOK
<1>2. DispatcherTypeOK'
  <2>1. CASE UNCHANGED vars
    BY <1>1, <2>1 DEF DispatcherOK, DispatcherTypeOK, vars, dispatcherVars, shutdownVars,
       PlacesOK
  <2> QED  BY <1>1, <2>1, StepTypes DEF DispatcherOK
<1>3. FatalOK'
  BY NextFatal
<1> QED  BY <1>1, <1>2, <1>3 DEF DispatcherOK

LEMMA DispatcherInvariant == Spec => [](DispatcherOK /\ SlotsOK)
<1>1. DispatcherOK /\ SlotsOK /\ [Next]_vars => (DispatcherOK /\ SlotsOK)'
  BY NextDispatcher, NextSlots
<1> QED  BY <1>1, InitDispatcher, PTL DEF Spec

-----------------------------------------------------------------------------

\* The fields and local variables of the dispatcher and of its executors have
\* their types in every state.
THEOREM DispatcherTypeCorrect == Spec => []DispatcherTypeOK
<1>1. DispatcherOK => DispatcherTypeOK
  BY DEF DispatcherOK
<1> QED  BY <1>1, DispatcherInvariant, PTL

\* The dispatcher uses its executors as any caller may: every behaviour of
\* TaskDispatcher is one of QueuedExecutor, whose theorems hold of it.
THEOREM DispatcherUsesQueues == Spec => QueueSpec
<1>1. Init => QueueInit
  BY DEF Init
<1>2. DispatcherOK /\ [Next]_vars => [QueueNext]_queueVars
  BY StepIsQueueStep DEF DispatcherOK
<1> QED  BY <1>1, <1>2, DispatcherInvariant, PTL DEF Spec, QueueSpec

\* Under the dispatcher, too, no more than MaxConcurrency tasks of an executor
\* are out of its queue and unfinished.
THEOREM DispatcherKeepsQueueLimits == Spec => [](CounterIsExact /\ ConcurrencyLimit)
BY DispatcherUsesQueues, CounterCorrect, LimitCorrect, PTL

\* Whatever the dispatcher does, up to faults and disposal, an accepted task
\* is in one place, is stored if it is persistent and not executed, and does
\* not start before those that came earlier leave it a slot.
THEOREM DispatcherKeepsTasks ==
    Spec => [](OnePlace /\ PersistedUntilExecuted /\ StartsInArrivalOrder)
BY DispatcherUsesQueues, OnePlaceCorrect, PersistenceCorrect, OrderCorrect, PTL

\* The slots of the dispatcher are counted exactly, on every way through
\* TryStartNewThread and PerformTasks, exceptions included.
THEOREM ActiveCorrect == Spec => []ActiveIsExact
<1>1. SlotsOK => ActiveIsExact
  BY DEF SlotsOK, Counted, ActiveIsExact
<1> QED  BY <1>1, DispatcherInvariant, PTL

\* No interleaving of starts, retries and leaving workers lets more threads
\* work for the dispatcher than _maxConcurrency.
THEOREM DispatcherLimitCorrect == Spec => []DispatcherLimit
<1>1. SlotsOK => DispatcherLimit
  BY DEF SlotsOK, Counted, DispatcherLimit, UnclaimingThreads
<1> QED  BY <1>1, DispatcherInvariant, PTL

-----------------------------------------------------------------------------
(* The dispatcher is a task pool *)

\* Where a thread is in the executors fits its place in the dispatcher.
StagesOK ==
    \A t \in Threads :
        \/ pc[t] \in {"out", "begin", "claim", "unclaim", "leave", "marking", "waiting"}
           /\ step[t] = "idle"
        \/ pc[t] = "enqueue" /\ step[t] \in {"persist", "append", "check", "signal"}
        \/ /\ pc[t] \in {"dequeue", "fetch", "next"}
           /\ step[t] \in {"idle", "reserve", "unreserve", "take", "giveback", "holding"}
        \/ pc[t] = "execute" /\ step[t] \in {"running", "settle", "delete"}

LEMMA NextStages ==
    ASSUME DispatcherOK, StagesOK, [Next]_vars
    PROVE  StagesOK'
<1>0. step \in [Threads -> Steps] /\ pc \in [Threads -> Places]
  BY DEF DispatcherOK, PlacesOK, QueueTypeOK, DispatcherTypeOK
<1>1. CASE UNCHANGED vars
  BY <1>1 DEF vars, queueVars, dispatcherVars, StagesOK
<1>2. ASSUME NEW p \in Producers, CallDispose(p) \/ \E e \in Envelopes : Execute(p, e)
      PROVE  StagesOK'
  BY <1>0, <1>2, DispatcherAssumption DEF StagesOK, CallDispose, Execute, Enqueue, Goes,
     Moves, queueVars
<1>3. ASSUME NEW t \in Threads, ThreadStep(t)
      PROVE  StagesOK'
  <2> USE DEF StagesOK, Moves, Goes, Returns
  <2>1. CASE Enqueueing(t)
    <3>1. pc[t] = "enqueue"
          /\ \E s \in {"append", "check", "signal", "idle"} :
                /\ step' = [step EXCEPT ![t] = s]
                /\ pc' = [pc EXCEPT ![t] = IF s = "idle" THEN "out" ELSE "enqueue"]
      BY <1>0, <2>1 DEF Enqueueing, Persist, PersistFails, AppendToQueue, Check
    <3> QED  BY <1>0, <3>1
  <2>2. CASE OnTaskAdded(t)  BY <1>0, <2>2 DEF OnTaskAdded, Signal
  <2>3. CASE Begin(t)  BY <1>0, <2>3 DEF Begin, queueVars
  <2>4. CASE Claim(t)  BY <1>0, <2>4 DEF Claim, queueVars, CallDequeue
  <2>5. CASE Unclaim(t)  BY <1>0, <2>5 DEF Unclaim, queueVars
  <2>6. CASE AskNextQueue(t)  BY <1>0, <2>6 DEF AskNextQueue, CallDequeue
  <2>7. CASE Dequeueing(t)
    <3>1. /\ pc[t] \in {"dequeue", "fetch", "next"} /\ pc' = pc
          /\ \E s \in {"idle", "reserve", "unreserve", "take", "giveback", "holding"} :
                step' = [step EXCEPT ![t] = s]
      BY <2>7 DEF Dequeueing, DequeueStep, Reserve, Unreserve, Take, GiveBack, dispatcherVars
    <3> QED  BY <1>0, <3>1
  <2>8. CASE NoTaskFound(t)  BY <1>0, <2>8 DEF NoTaskFound, CameBackEmpty, queueVars
  <2>9. CASE Start(t)
    <3>1. PICK w \in Threads :
            /\ pc[w] = "out" /\ pc[t] \in {"dequeue", "fetch"}
            /\ pc' = [pc EXCEPT ![t] = "out", ![w] = "next"]
            /\ step' = [step EXCEPT ![t] = "idle", ![w] = "holding"]
      BY <2>9, DispatcherAssumption DEF Start, HandOver
    <3> QED  BY <1>0, <3>1
  <2>10. CASE Loop(t)
    BY <1>0, <2>10 DEF Loop, Abandon, ExecuteTask, CameBackEmpty, queueVars
  <2>11. CASE Executing(t)
    <3>1. \E s \in {"settle", "delete", "idle"} :
            /\ pc[t] = "execute" /\ step' = [step EXCEPT ![t] = s]
            /\ IF s = "idle" THEN pc' = [pc EXCEPT ![t] = "next"] ELSE pc' = pc
      BY <1>0, <2>11 DEF Executing, TaskReturns, Settle, Delete
    <3> QED  BY <1>0, <3>1
  <2>12. CASE Faulted(t)  BY <1>0, <2>12 DEF Faulted, ReleaseFails, DeleteFails
  <2>13. CASE Leave(t)  BY <1>0, <2>13 DEF Leave, queueVars
  <2>14. CASE MarkDisposed(t)  BY <1>0, <2>14 DEF MarkDisposed, queueVars
  <2>15. CASE DisposeReturns(t)  BY <1>0, <2>15 DEF DisposeReturns, queueVars
  <2> HIDE DEF StagesOK, Moves, Goes, Returns
  <2> QED  BY <1>3, <2>1, <2>2, <2>3, <2>4, <2>5, <2>6, <2>7, <2>8, <2>9, <2>10,
              <2>11, <2>12, <2>13, <2>14, <2>15 DEF ThreadStep
<1> QED  BY <1>1, <1>2, <1>3 DEF Next

\* Those who have a task have a slot, and there are no more slots than Limit.
TakenFits == Cardinality(Taken) <= Limit

LEMMA SlotsForTaken ==
    ASSUME DispatcherOK, SlotsOK, StagesOK
    PROVE  TakenFits
<1> DEFINE C == SlotHolders \ UnclaimingThreads
<1>1. Holders \subseteq C
  BY DEF StagesOK, Holders, SlotHolders, SlotPlaces, UnclaimingThreads
<1>2. IsFiniteSet(C) /\ Cardinality(C) <= Limit
  BY SlotHoldersFinite, FS_Subset DEF DispatcherOK, SlotsOK, Counted
<1>3. Taken \subseteq Envelopes /\ \A e \in Taken : \E t \in Holders : env[t] = e
  BY TakenByHolders DEF DispatcherOK
<1>4. Holders \subseteq Threads
  BY DEF Holders
<1>5. IsFiniteSet(Holders) /\ Cardinality(Taken) <= Cardinality(Holders)
  BY <1>3, <1>4, HoldersSuffice
<1> HIDE DEF C
<1>6. Cardinality(Holders) <= Cardinality(C)
  BY <1>1, <1>2, FS_Subset
<1>7. IsFiniteSet(Taken)
  BY <1>3, QueueAssumption, FS_Subset
<1>8. /\ Cardinality(Taken) \in Nat /\ Cardinality(Holders) \in Nat
      /\ Cardinality(C) \in Nat /\ Limit \in Nat
  BY <1>2, <1>5, <1>7, LimitType, FS_CardinalityType
<1>9. \A a, b, c, d \in Nat : a <= b /\ b <= c /\ c <= d => a <= d
  OBVIOUS
<1> QED  BY <1>2, <1>5, <1>6, <1>8, <1>9, Zenon DEF TakenFits

LEMMA SameCardinalityInPool == \A S : Pool!Cardinality(S) = Cardinality(S)
BY DEF Pool!Cardinality, Cardinality

\* The pool of the executors never has more tasks taken than fit.
LEMMA FittingStep ==
    ASSUME PlacesOK, TakenFits', [QueuePool!Next]_(QueuePool!poolVars)
    PROVE  [Pool!Next]_(Pool!poolVars)
<1>1. CASE UNCHANGED QueuePool!poolVars
  BY <1>1 DEF QueuePool!poolVars, Pool!poolVars
<1>2. ASSUME NEW e \in Envelopes,
             QueuePool!Accept(e) \/ QueuePool!Finish(e) \/ QueuePool!Drop(e)
      PROVE  Pool!Next
  BY <1>2 DEF QueuePool!Accept, QueuePool!Finish, QueuePool!Drop,
     Pool!Accept, Pool!Finish, Pool!Drop, Pool!Next
<1>3. ASSUME NEW q \in Queues, QueuePool!TakeFrom(q)
      PROVE  Pool!Next
  <2>1. /\ queue[q] # <<>>
        /\ Cardinality({e \in Taken : Home[e] = q}) < MaxConcurrency[q]
        /\ Taken' = Taken \cup {Head(queue[q])}
        /\ queue' = [queue EXCEPT ![q] = Tail(@)]
        /\ UNCHANGED <<executed, lost \ executed>>
    BY <1>3, SameCardinality DEF QueuePool!TakeFrom, QueuePool!TakenFrom
  <2>2. Head(queue[q]) \notin Taken
    <3>1. PICK s \in Seq(Envelopes) : s = queue[q]
      BY DEF PlacesOK, QueueTypeOK
    <3>2. Head(s) \in Elements(s)
      BY <2>1, <3>1, TailDistinct DEF PlacesOK, QueuesOK
    <3> QED  BY <3>1, <3>2 DEF PlacesOK, QueuesOK, Taken
  <2>3. IsFiniteSet(Taken)
    BY TakenByHolders, QueueAssumption, FS_Subset
  <2>4. Cardinality(Taken') = Cardinality(Taken) + 1 /\ Cardinality(Taken) \in Nat
    BY <2>1, <2>2, <2>3, FS_AddElement, FS_CardinalityType
  <2>5. Cardinality(Taken) < Limit
    BY <2>4, LimitType DEF TakenFits
  <2>6. Pool!TakeFrom(q)
    BY <2>1, <2>5, SameCardinalityInPool DEF Pool!TakeFrom, Pool!TakenFrom
  <2> QED  BY <2>6 DEF Pool!Next
<1> QED  BY <1>1, <1>2, <1>3 DEF QueuePool!Next

\* The dispatcher and its executors together do what TaskPool promises of a
\* pool that is _maxConcurrency wide.
THEOREM DispatcherIsPool == Spec => ImplementsPool
<1>1. Spec => QueueSpec /\ QueuePool!Spec
  BY DispatcherUsesQueues, QueuesArePool, PTL DEF QueueImplementsPool
<1>2. Spec => []TakenFits
  <2>1. Init => StagesOK
    BY DEF Init, QueueInit, StagesOK
  <2>2. DispatcherOK /\ StagesOK /\ [Next]_vars => StagesOK'
    BY NextStages
  <2>3. DispatcherOK /\ SlotsOK /\ StagesOK => TakenFits
    BY SlotsForTaken
  <2> QED  BY <2>1, <2>2, <2>3, DispatcherInvariant, PTL DEF Spec
<1>3. QueuePool!Init => Pool!Init
  BY DEF QueuePool!Init, Pool!Init
<1>4. PlacesOK /\ TakenFits' /\ [QueuePool!Next]_(QueuePool!poolVars)
        => [Pool!Next]_(Pool!poolVars)
  BY FittingStep
<1>5. Spec => []PlacesOK
  BY DispatcherUsesQueues, PlacesInvariant, PTL
<1> QED  BY <1>1, <1>2, <1>3, <1>4, <1>5, PTL
            DEF QueuePool!Spec, Pool!Spec, ImplementsPool
-----------------------------------------------------------------------------
(* A refusal is the only way to strand a task *)

\* Thread t is to ask queue q, and has not asked it yet: it has appended to
\* q, or was told of an append, and its TryDequeue on q is still to come.
Announces(t, q) ==
    \/ pc[t] = "enqueue" /\ step[t] \in {"check", "signal"} /\ at[t] = q
    \/ pc[t] \in {"begin", "claim"} /\ executor[t] = q
    \/ pc[t] = "dequeue" /\ step[t] \in {"reserve", "take"} /\ at[t] = q

Announcing(q) == {t \in Threads : Announces(t, q)}

\* Before Dispose, every task in a queue has a thread of its own that will
\* ask for it.  A thread that is refused leaves without having asked.
TasksAnnounced ==
    ~disposed => \A q \in Queues : Len(queue[q]) <= Cardinality(Announcing(q))

\* What a step may do to a queue and to those who announce it: both stay or
\* the queue gets shorter, one task comes with its announcer, one task goes
\* with its announcer, or the queue is empty.
Heeds(q, t) ==
    \/ /\ queue'[q] = queue[q] \/ (queue[q] # <<>> /\ queue'[q] = Tail(queue[q]))
       /\ Announcing(q) \subseteq Announcing(q)'
    \/ /\ \E e \in Envelopes : queue'[q] = Append(queue[q], e)
       /\ t \notin Announcing(q) /\ Announcing(q) \cup {t} \subseteq Announcing(q)'
    \/ /\ queue[q] # <<>> /\ queue'[q] = Tail(queue[q])
       /\ Announcing(q) \ {t} \subseteq Announcing(q)'
    \/ queue'[q] = <<>>

LEMMA HeedsKeepsAnnounced ==
    ASSUME NEW q \in Queues, NEW t \in Threads, Heeds(q, t),
           queue[q] \in Seq(Envelopes), Len(queue[q]) <= Cardinality(Announcing(q))
    PROVE  Len(queue'[q]) <= Cardinality(Announcing(q)')
<1> DEFINE A == Announcing(q)
           B == Announcing(q)'
<1>1. IsFiniteSet(A) /\ IsFiniteSet(B)
  <2>1. A \subseteq Threads /\ B \subseteq Threads BY DEF Announcing
  <2> QED BY <2>1, QueueAssumption, FS_Subset
<1>2. Cardinality(A) \in Nat /\ Cardinality(B) \in Nat BY <1>1, FS_CardinalityType
<1>3. A \subseteq B => Cardinality(A) <= Cardinality(B) BY <1>1, FS_Subset
<1>4. t \notin A /\ A \cup {t} \subseteq B => Cardinality(A) + 1 <= Cardinality(B)
  <2>1. t \notin A => Cardinality(A \cup {t}) = Cardinality(A) + 1 BY <1>1, FS_AddElement
  <2>2. A \cup {t} \subseteq B => Cardinality(A \cup {t}) <= Cardinality(B) BY <1>1, FS_Subset
  <2> QED BY <2>1, <2>2
<1>5. A \ {t} \subseteq B => Cardinality(A) - 1 <= Cardinality(B)
  <2>1. IsFiniteSet(A \ {t}) /\ Cardinality(A \ {t}) \in Nat
    BY <1>1, FS_Subset, FS_CardinalityType
  <2>2. Cardinality(A) - 1 <= Cardinality(A \ {t})
    <3>1. t \in A => Cardinality(A \ {t}) = Cardinality(A) - 1 BY <1>1, FS_RemoveElement
    <3>2. t \notin A => A \ {t} = A OBVIOUS
    <3>3. CASE t \in A
      <4>1. \A m, n \in Nat : m = n - 1 => n - 1 <= m OBVIOUS
      <4> QED BY <1>2, <2>1, <3>1, <3>3, <4>1, Zenon
    <3>4. CASE t \notin A
      <4>1. \A n \in Nat : n - 1 <= n OBVIOUS
      <4> QED BY <1>2, <3>2, <3>4, <4>1, Zenon
    <3> QED BY <3>3, <3>4
  <2>3. A \ {t} \subseteq B => Cardinality(A \ {t}) <= Cardinality(B) BY <1>1, FS_Subset
  <2> QED BY <1>2, <2>1, <2>2, <2>3
<1>6. PICK s \in Seq(Envelopes) : s = queue[q] OBVIOUS
<1>7. /\ Len(s) \in Nat
      /\ s # <<>> => Len(Tail(s)) = Len(s) - 1
      /\ \A e \in Envelopes : Len(Append(s, e)) = Len(s) + 1
      /\ Len(<<>>) = 0
  OBVIOUS
<1>8. Len(s) <= Cardinality(A) BY <1>6
<1>9. \/ queue'[q] = s /\ A \subseteq B
      \/ s # <<>> /\ queue'[q] = Tail(s) /\ A \subseteq B
      \/ (\E e \in Envelopes : queue'[q] = Append(s, e)) /\ t \notin A /\ A \cup {t} \subseteq B
      \/ s # <<>> /\ queue'[q] = Tail(s) /\ A \ {t} \subseteq B
      \/ queue'[q] = <<>>
  BY <1>6 DEF Heeds
<1>10. CASE (queue'[q] = s \/ (s # <<>> /\ queue'[q] = Tail(s))) /\ A \subseteq B
  <2>1. Len(queue'[q]) \in Nat /\ Len(queue'[q]) <= Len(s) BY <1>7, <1>10
  <2> HIDE DEF A, B
  <2> QED BY <1>2, <1>3, <1>7, <1>8, <1>10, <2>1 DEF B
<1>11. CASE (\E e \in Envelopes : queue'[q] = Append(s, e)) /\ t \notin A /\ A \cup {t} \subseteq B
  <2>1. Len(queue'[q]) = Len(s) + 1 BY <1>7, <1>11
  <2> HIDE DEF A, B
  <2> QED BY <1>2, <1>4, <1>7, <1>8, <1>11, <2>1 DEF B
<1>12. CASE s # <<>> /\ queue'[q] = Tail(s) /\ A \ {t} \subseteq B
  <2>1. Len(queue'[q]) = Len(s) - 1 BY <1>7, <1>12
  <2> HIDE DEF A, B
  <2> QED BY <1>2, <1>5, <1>7, <1>8, <1>12, <2>1 DEF B
<1>13. CASE queue'[q] = <<>>
  <2>1. Len(queue'[q]) = 0 BY <1>7, <1>13
  <2> HIDE DEF A, B
  <2> QED BY <1>2, <2>1 DEF B
<1> QED BY <1>9, <1>10, <1>11, <1>12, <1>13

\* While nobody is refused, no counter stands above its limit.
LEMMA BelowLimit ==
    ASSUME PlacesOK, CounterIsExact, ConcurrencyLimit, ~SomebodyIsRefused, NEW q \in Queues
    PROVE  ~(concurrency[q] > MaxConcurrency[q])
<1>1. Charged(q) \ Refused(q) = Charged(q) BY DEF Refused, SomebodyIsRefused
<1>2. Cardinality(Charged(q)) <= MaxConcurrency[q] BY <1>1 DEF ConcurrencyLimit
<1>3. concurrency[q] = Cardinality(Charged(q)) BY DEF CounterIsExact
<1>4. Cardinality(Charged(q)) \in Nat BY ChargedFinite, FS_CardinalityType
<1>5. MaxConcurrency[q] \in Nat BY LimitIsNumber
<1> QED BY <1>2, <1>3, <1>4, <1>5

\* What the proofs about refusals use of the invariants proved above.
CountsOK == DispatcherOK /\ StagesOK /\ CounterIsExact /\ ConcurrencyLimit

LEMMA ThreadHeeds ==
    ASSUME CountsOK, ~SomebodyIsRefused, ~SomebodyIsRefused', ~disposed,
           NEW t \in Threads, ThreadStep(t), NEW q \in Queues
    PROVE  Heeds(q, t)
<1>0. /\ step \in [Threads -> Steps] /\ pc \in [Threads -> Places]
      /\ at \in [Threads -> Queues \cup {None}]
      /\ executor \in [Threads -> Queues \cup {None}]
      /\ queue \in [Queues -> Seq(Envelopes)]
      /\ env \in [Threads -> Envelopes \cup {None}]
      /\ step[t] # "idle" => at[t] \in Queues
      /\ step[t] \in EnvelopeSteps => env[t] \in Envelopes
  BY DEF CountsOK, DispatcherOK, PlacesOK, QueueTypeOK, DispatcherTypeOK, FrameOK
<1>1. pc[t] # "unclaim" /\ step[t] # "unreserve" BY DEF SomebodyIsRefused
<1>2. pc'[t] # "unclaim" /\ step'[t] # "unreserve" BY DEF SomebodyIsRefused
<1>3. ASSUME queue'[q] = queue[q], NEW S \in SUBSET Threads, \A u \in S : ~Announces(u, q),
             \A u \in Threads \ S : /\ pc'[u] = pc[u] /\ step'[u] = step[u]
                                    /\ at'[u] = at[u] /\ executor'[u] = executor[u]
      PROVE  Heeds(q, t)
  <2>1. Announcing(q) \subseteq Announcing(q)' BY <1>3 DEF Announcing, Announces
  <2> QED BY <1>3, <2>1 DEF Heeds
<1>4. ASSUME queue'[q] = queue[q], Announces(t, q) => Announces(t, q)',
             \A u \in Threads \ {t} : /\ pc'[u] = pc[u] /\ step'[u] = step[u]
                                      /\ at'[u] = at[u] /\ executor'[u] = executor[u]
      PROVE  Heeds(q, t)
  <2>1. Announcing(q) \subseteq Announcing(q)' BY <1>4 DEF Announcing, Announces
  <2> QED BY <1>4, <2>1 DEF Heeds
<1>5. CASE Enqueueing(t) /\ (Persist(t) \/ PersistFails(t))
  <2>1. queue' = queue /\ executor' = executor BY <1>5 DEF Enqueueing, Persist, PersistFails, contents
  <2>2. ~Announces(t, q) BY <1>5 DEF Enqueueing, Persist, PersistFails, Announces
  <2>3. \A u \in Threads \ {t} : pc'[u] = pc[u] /\ step'[u] = step[u] /\ at'[u] = at[u]
    BY <1>0, <1>5 DEF Enqueueing, Persist, PersistFails, Goes, Returns, Moves
  <2> QED BY <2>1, <2>2, <2>3, <1>4
<1>6. CASE Enqueueing(t) /\ AppendToQueue(t)
  <2>1. /\ queue' = [queue EXCEPT ![at[t]] = Append(@, env[t])] /\ executor' = executor
        /\ step[t] = "append" /\ pc[t] = "enqueue"
        /\ step' = [step EXCEPT ![t] = "check"] /\ at' = [at EXCEPT ![t] = at[t]]
    BY <1>6 DEF Enqueueing, AppendToQueue, Goes
  <2>2. pc' = [pc EXCEPT ![t] = "enqueue"]
    <3>1. step'[t] = "check" BY <1>0, <2>1
    <3> QED BY <1>6, <3>1 DEF Enqueueing, Moves
  <2>3. \A u \in Threads \ {t} : pc'[u] = pc[u] /\ step'[u] = step[u] /\ at'[u] = at[u]
    BY <1>0, <2>1, <2>2
  <2>4. ~Announces(t, q) BY <2>1 DEF Announces
  <2>5. CASE at[t] = q
    <3>1. queue'[q] = Append(queue[q], env[t]) /\ env[t] \in Envelopes
      BY <1>0, <2>1, <2>5 DEF EnvelopeSteps
    <3>2. pc'[t] = "enqueue" /\ step'[t] = "check" /\ at'[t] = q BY <1>0, <2>1, <2>2, <2>5
    <3>3. Announcing(q) \cup {t} \subseteq Announcing(q)'
      BY <2>1, <2>3, <3>2 DEF Announcing, Announces
    <3>4. t \notin Announcing(q) BY <2>4 DEF Announcing
    <3> QED BY <3>1, <3>3, <3>4 DEF Heeds
  <2>6. CASE at[t] # q
    <3>1. queue'[q] = queue[q] BY <1>0, <2>1, <2>6
    <3> QED BY <3>1, <2>1, <2>3, <2>4, <1>4
  <2> QED BY <2>5, <2>6
<1>7. CASE Enqueueing(t) /\ Check(t)
  <2>1. step[t] = "check" /\ pc[t] = "enqueue" BY <1>7 DEF Enqueueing, Check
  <2>2. at[t] \in Queues BY <1>0, <2>1
  <2>3. ~(concurrency[at[t]] > MaxConcurrency[at[t]])
    BY <2>2, BelowLimit DEF CountsOK, DispatcherOK
  <2>4. Goes(t, "signal", at[t], None) /\ queue' = queue /\ executor' = executor
    BY <1>7, <2>3 DEF Enqueueing, Check, contents
  <2>5. step'[t] = "signal" /\ at'[t] = at[t] BY <1>0, <2>4 DEF Goes
  <2>6. pc'[t] = "enqueue" BY <1>0, <1>7, <2>5 DEF Enqueueing, Moves
  <2>7. \A u \in Threads \ {t} : pc'[u] = pc[u] /\ step'[u] = step[u] /\ at'[u] = at[u]
    BY <1>0, <1>7, <2>4 DEF Enqueueing, Goes, Moves
  <2>8. Announces(t, q) => Announces(t, q)' BY <2>1, <2>5, <2>6 DEF Announces
  <2> QED BY <2>4, <2>7, <2>8, <1>4
<1>8. CASE OnTaskAdded(t)
  <2>1. /\ queue' = queue /\ pc[t] = "enqueue" /\ step[t] = "signal"
        /\ executor' = [executor EXCEPT ![t] = at[t]] /\ pc' = [pc EXCEPT ![t] = "begin"]
        /\ step' = [step EXCEPT ![t] = "idle"] /\ at' = [at EXCEPT ![t] = None]
    BY <1>8 DEF OnTaskAdded, Signal, contents, Returns, Goes, Moves
  <2>2. \A u \in Threads \ {t} : /\ pc'[u] = pc[u] /\ step'[u] = step[u]
                                 /\ at'[u] = at[u] /\ executor'[u] = executor[u]
    BY <1>0, <2>1
  <2>3. pc'[t] = "begin" /\ executor'[t] = at[t] BY <1>0, <2>1
  <2>4. Announces(t, q) => Announces(t, q)' BY <2>1, <2>3 DEF Announces
  <2> QED BY <2>1, <2>2, <2>4, <1>4
<1>9. CASE Begin(t)
  <2>1. /\ pc[t] = "begin" /\ pc' = [pc EXCEPT ![t] = "claim"]
        /\ UNCHANGED <<queue, step, at, executor>>
    BY <1>9 DEF Begin, Moves, queueVars
  <2>2. Announces(t, q) => Announces(t, q)' BY <1>0, <2>1 DEF Announces
  <2>3. \A u \in Threads \ {t} : pc'[u] = pc[u] BY <1>0, <2>1
  <2> QED BY <2>1, <2>2, <2>3, <1>4
<1>10. CASE Claim(t)
  <2>1. pc[t] = "claim" /\ queue' = queue /\ executor' = executor
    BY <1>10 DEF Claim, queueVars, CallDequeue, contents
  <2>2. \A u \in Threads \ {t} : pc'[u] = pc[u] /\ step'[u] = step[u] /\ at'[u] = at[u]
    BY <1>0, <1>10 DEF Claim, queueVars, CallDequeue, Goes, Moves
  <2>3. ~(active + 1 > Limit)
    <3>1. ASSUME active + 1 > Limit PROVE FALSE
      <4>1. active \in Int /\ Limit \in Nat
        BY LimitType DEF CountsOK, DispatcherOK, DispatcherTypeOK
      <4>2. ~(active + 1 <= Limit) BY <3>1, <4>1
      <4>3. pc' = [pc EXCEPT ![t] = "unclaim"] BY <1>10, <4>2 DEF Claim, Moves
      <4> QED BY <1>0, <1>2, <4>3
    <3> QED BY <3>1
  <2>4. ASSUME executor[t] = q PROVE Announces(t, q)'
    <3>1. executor[t] # None BY <2>4, QueueAssumption
    <3>2. CallDequeue(t, q) /\ Moves(t, "dequeue") BY <1>10, <2>3, <2>4, <3>1 DEF Claim
    <3>3. pc'[t] = "dequeue" /\ step'[t] = "reserve" /\ at'[t] = q
      BY <1>0, <3>2 DEF CallDequeue, Goes, Moves
    <3> QED BY <3>3 DEF Announces
  <2>5. Announces(t, q) => executor[t] = q BY <2>1 DEF Announces
  <2> QED BY <2>1, <2>2, <2>4, <2>5, <1>4
<1>11. CASE AskNextQueue(t)
  <2>1. /\ pc[t] \in {"fetch", "next"} /\ queue' = queue /\ executor' = executor /\ pc' = pc
        /\ \A u \in Threads \ {t} : step'[u] = step[u] /\ at'[u] = at[u]
    BY <1>0, <1>11 DEF AskNextQueue, CallDequeue, contents, Goes
  <2>2. ~Announces(t, q) BY <2>1 DEF Announces
  <2> QED BY <2>1, <2>2, <1>4
<1>12. CASE Dequeueing(t) /\ (Reserve(t) \/ GiveBack(t))
  <2>1. queue' = queue /\ executor' = executor /\ pc' = pc
    BY <1>12 DEF Dequeueing, dispatcherVars, Reserve, GiveBack, contents
  <2>2. \A u \in Threads \ {t} : step'[u] = step[u] /\ at'[u] = at[u]
    BY <1>0, <1>12 DEF Reserve, GiveBack, Goes, Returns
  <2>3. Announces(t, q) => Announces(t, q)'
    <3>1. CASE GiveBack(t) BY <1>12, <3>1 DEF GiveBack, Dequeueing, Announces
    <3>2. CASE Reserve(t)
      <4>1. step'[t] = "take" /\ at'[t] = at[t] BY <1>0, <1>2, <3>2 DEF Reserve, Goes
      <4>2. step[t] = "reserve" /\ pc[t] \in {"dequeue", "fetch", "next"}
        BY <1>12, <3>2 DEF Reserve, Dequeueing
      <4> QED BY <2>1, <4>1, <4>2 DEF Announces
    <3> QED BY <1>12, <3>1, <3>2
  <2> QED BY <2>1, <2>2, <2>3, <1>4
<1>13. CASE Dequeueing(t) /\ Take(t)
  <2>1. executor' = executor /\ pc' = pc /\ step[t] = "take"
    BY <1>13 DEF Dequeueing, dispatcherVars, Take
  <2>2. \A u \in Threads \ {t} : step'[u] = step[u] /\ at'[u] = at[u]
    BY <1>0, <1>13 DEF Take, Goes
  <2>3. Announcing(q) \ {t} \subseteq Announcing(q)' BY <2>1, <2>2 DEF Announcing, Announces
  <2>4. CASE at[t] = q /\ queue[q] # <<>>
    <3>1. queue'[q] = Tail(queue[q]) BY <1>0, <1>13, <2>4 DEF Take
    <3> QED BY <2>3, <2>4, <3>1 DEF Heeds
  <2>5. CASE at[t] = q /\ queue[q] = <<>>
    <3>1. queue'[q] = <<>> BY <1>13, <2>5 DEF Take
    <3> QED BY <3>1 DEF Heeds
  <2>6. CASE at[t] # q
    <3>1. queue'[q] = queue[q] BY <1>0, <1>13, <2>6 DEF Take
    <3>2. ~Announces(t, q) BY <2>1, <2>6, <1>13 DEF Announces, Dequeueing
    <3> QED BY <2>1, <2>2, <3>1, <3>2, <1>4
  <2> QED BY <2>4, <2>5, <2>6
<1>14. CASE NoTaskFound(t)
  <2>1. /\ UNCHANGED <<queue, step, at, executor>> /\ step[t] = "idle"
        /\ pc[t] \in {"dequeue", "fetch"}
    BY <1>14 DEF NoTaskFound, queueVars, CameBackEmpty
  <2>2. \A u \in Threads \ {t} : pc'[u] = pc[u] BY <1>0, <1>14 DEF NoTaskFound, Moves
  <2>3. ~Announces(t, q) BY <2>1 DEF Announces
  <2> QED BY <2>1, <2>2, <2>3, <1>4
<1>15. CASE Start(t)
  <2>1. PICK w \in Threads :
            /\ pc[w] = "out" /\ pc[t] \in {"dequeue", "fetch"} /\ step[t] = "holding"
            /\ pc' = [pc EXCEPT ![t] = "out", ![w] = "next"]
            /\ HandOver(t, w)
    BY <1>15, DispatcherAssumption DEF Start
  <2>2. queue' = queue /\ executor' = executor BY <1>15 DEF Start, HandOver, contents
  <2>3. ~Announces(t, q) /\ ~Announces(w, q) BY <2>1 DEF Announces
  <2>4. \A u \in Threads \ {t, w} : pc'[u] = pc[u] /\ step'[u] = step[u] /\ at'[u] = at[u]
    BY <1>0, <2>1 DEF HandOver
  <2>5. \A u \in {t, w} : ~Announces(u, q) BY <2>3
  <2>6. {t, w} \in SUBSET Threads OBVIOUS
  <2> QED BY <2>2, <2>4, <2>5, <2>6, <1>3
<1>16. CASE Loop(t) \/ Executing(t) \/ Faulted(t) \/ Leave(t)
  <2>1. queue' = queue /\ pc[t] \in {"next", "execute", "leave"}
    BY <1>16 DEF Loop, Executing, Faulted, Leave, Abandon, ExecuteTask, TaskReturns, Settle,
                 Delete, ReleaseFails, DeleteFails, contents, queueVars
  <2>2. ~Announces(t, q) BY <2>1 DEF Announces
  <2>3. \A u \in Threads \ {t} : pc'[u] = pc[u] /\ executor'[u] = executor[u]
    BY <1>0, <1>16 DEF Loop, Executing, Faulted, Leave, Moves
  <2>4. \A u \in Threads \ {t} : step'[u] = step[u] /\ at'[u] = at[u]
    BY <1>0, <1>16 DEF Loop, Executing, Faulted, Leave, Abandon, ExecuteTask, TaskReturns, Settle,
                       Delete, ReleaseFails, DeleteFails, Goes, Returns, queueVars
  <2> QED BY <2>1, <2>2, <2>3, <2>4, <1>4
<1>17. CASE MarkDisposed(t) \/ DisposeReturns(t)
  <2>1. UNCHANGED <<queue, step, at, executor>> /\ pc[t] \in {"marking", "waiting"}
    BY <1>17 DEF MarkDisposed, DisposeReturns, queueVars
  <2>2. ~Announces(t, q) BY <2>1 DEF Announces
  <2>3. \A u \in Threads \ {t} : pc'[u] = pc[u]
    BY <1>0, <1>17 DEF MarkDisposed, DisposeReturns, Moves
  <2> QED BY <2>1, <2>2, <2>3, <1>4
<1>18. ~Unclaim(t) /\ ~Unreserve(t)
  BY <1>1 DEF Unclaim, Unreserve
<1>19. Enqueueing(t) => Persist(t) \/ PersistFails(t) \/ AppendToQueue(t) \/ Check(t)
  BY DEF Enqueueing
<1>20. Dequeueing(t) => Reserve(t) \/ Take(t) \/ GiveBack(t)
  BY <1>18 DEF Dequeueing, DequeueStep
<1> QED BY <1>5, <1>6, <1>7, <1>8, <1>9, <1>10, <1>11, <1>12, <1>13, <1>14, <1>15, <1>16, <1>17,
           <1>18, <1>19, <1>20 DEF ThreadStep

LEMMA NextAnnounced ==
    ASSUME CountsOK, TasksAnnounced, ~SomebodyIsRefused, ~SomebodyIsRefused', [Next]_vars
    PROVE  TasksAnnounced'
<1> SUFFICES ASSUME ~disposed', NEW q \in Queues
             PROVE  Len(queue'[q]) <= Cardinality(Announcing(q)')
  BY DEF TasksAnnounced
<1>0. queue[q] \in Seq(Envelopes) BY DEF CountsOK, DispatcherOK, PlacesOK, QueueTypeOK
<1>1. ~disposed
  <2>1. ASSUME NEW t \in Threads, ThreadStep(t) PROVE disposed' = disposed \/ disposed'
    BY <2>1
    DEF ThreadStep, Enqueueing, OnTaskAdded, Begin, Claim, Unclaim, AskNextQueue, Dequeueing,
        NoTaskFound, Start, Loop, Executing, Faulted, Leave, MarkDisposed, DisposeReturns,
        shutdownVars, dispatcherVars
  <2>2. ASSUME NEW p \in Producers, CallDispose(p) \/ \E e \in Envelopes : Execute(p, e)
        PROVE  disposed' = disposed
    BY <2>2 DEF CallDispose, Execute, shutdownVars
  <2>3. CASE UNCHANGED vars BY <2>3 DEF vars, dispatcherVars, shutdownVars
  <2> QED BY <2>1, <2>2, <2>3 DEF Next
<1>2. Len(queue[q]) <= Cardinality(Announcing(q)) BY <1>1 DEF TasksAnnounced
<1>3. ASSUME NEW t \in Threads, ThreadStep(t)
      PROVE  Len(queue'[q]) <= Cardinality(Announcing(q)')
  <2>1. Heeds(q, t) BY <1>1, <1>3, ThreadHeeds
  <2> QED BY <1>0, <1>2, <2>1, HeedsKeepsAnnounced
<1>4. ASSUME NEW p \in Producers, CallDispose(p) \/ \E e \in Envelopes : Execute(p, e)
      PROVE  Len(queue'[q]) <= Cardinality(Announcing(q)')
  <2>0. /\ p \in Threads /\ pc \in [Threads -> Places] /\ step \in [Threads -> Steps]
        /\ at \in [Threads -> Queues \cup {None}]
    BY DispatcherAssumption DEF CountsOK, DispatcherOK, PlacesOK, QueueTypeOK, DispatcherTypeOK
  <2>1. pc[p] = "out" /\ queue' = queue /\ executor' = executor
    BY <1>4 DEF CallDispose, Execute, Enqueue, contents, queueVars
  <2>2. \A u \in Threads \ {p} : pc'[u] = pc[u] /\ step'[u] = step[u] /\ at'[u] = at[u]
    BY <1>4, <2>0 DEF CallDispose, Execute, Enqueue, Goes, Moves, queueVars
  <2>3. Announcing(q) \subseteq Announcing(q)' BY <2>1, <2>2 DEF Announcing, Announces
  <2>4. Heeds(q, p) BY <2>1, <2>3 DEF Heeds
  <2> QED BY <1>0, <1>2, <2>0, <2>4, HeedsKeepsAnnounced
<1>5. CASE UNCHANGED vars
  <2>1. UNCHANGED <<queue, pc, step, at, executor>> BY <1>5 DEF vars, queueVars, dispatcherVars
  <2>2. Announcing(q)' = Announcing(q) BY <2>1 DEF Announcing, Announces
  <2> QED BY <1>2, <2>1, <2>2
<1> QED BY <1>3, <1>4, <1>5 DEF Next

\* As long as no thread is refused a slot, every queued task has a thread of
\* its own on the way to it: OnTaskAdded of the thread that enqueued it, with
\* the executor as the argument of TryStartNewThread.
THEOREM TasksAnnouncedCorrect == Spec /\ []~SomebodyIsRefused => []TasksAnnounced
<1>1. Init => TasksAnnounced
  <2> SUFFICES ASSUME Init, NEW q \in Queues PROVE Len(queue[q]) <= Cardinality(Announcing(q))
    BY DEF TasksAnnounced
  <2>1. Len(queue[q]) = 0 BY DEF Init, QueueInit
  <2>2. Cardinality(Announcing(q)) \in Nat
    <3>1. Announcing(q) \subseteq Threads BY DEF Announcing
    <3> QED BY <3>1, QueueAssumption, FS_Subset, FS_CardinalityType
  <2> QED BY <2>1, <2>2
<1>2. CountsOK /\ TasksAnnounced /\ ~SomebodyIsRefused /\ ~SomebodyIsRefused' /\ [Next]_vars
      => TasksAnnounced'
  BY NextAnnounced
<1>3. Spec => []CountsOK
  <2>1. Init => StagesOK BY DEF Init, QueueInit, StagesOK
  <2>2. DispatcherOK /\ StagesOK /\ [Next]_vars => StagesOK' BY NextStages
  <2>3. DispatcherOK /\ StagesOK /\ CounterIsExact /\ ConcurrencyLimit => CountsOK
    BY DEF CountsOK
  <2> QED BY <2>1, <2>2, <2>3, DispatcherInvariant, DispatcherKeepsQueueLimits, PTL DEF Spec
<1> QED BY <1>1, <1>2, <1>3, PTL DEF Spec

\* A task hangs in a queue only where some thread was refused a slot of an
\* executor or of the dispatcher: the comment of PerformTasks (line 139) is
\* wrong of the code only in the behaviours with such a refusal.
THEOREM RefusalsAloneStrand == Spec /\ []~SomebodyIsRefused => []NoTaskHangs
<1>1. DispatcherOK /\ TasksAnnounced => NoTaskHangs
  <2> SUFFICES ASSUME DispatcherOK, TasksAnnounced, \A t \in Threads : pc[t] = "out", ~disposed,
                      NEW q \in Queues
               PROVE  queue[q] = <<>>
    BY DEF NoTaskHangs
  <2>1. Announcing(q) = {} BY DEF Announcing, Announces
  <2>2. Cardinality(Announcing(q)) = 0 BY <2>1, FS_EmptySet
  <2>3. Len(queue[q]) <= 0 BY <2>2 DEF TasksAnnounced
  <2>4. queue[q] \in Seq(Envelopes) BY DEF DispatcherOK, PlacesOK, QueueTypeOK
  <2> QED BY <2>3, <2>4
<1> QED BY <1>1, TasksAnnouncedCorrect, DispatcherInvariant, PTL

-----------------------------------------------------------------------------
(* The container *)

\* What lies between EnsureNotDisposed and the route: the task of a thread
\* there is nobody else's, was not asked for too late, and is not enqueued.
CallsOK ==
    /\ offered \subseteq called
    /\ RefusedAfterDispose
    /\ \A t \in Threads : place[t] = "routing" => t \in Producers /\ task[t] \notin late
    /\ \A t, u \in Threads :
          place[t] = "routing" /\ place[u] = "routing" /\ task[t] = task[u] => t = u

\* The parts are disposed in order.
OrderOK ==
    /\ closed => executorDisposed
    /\ \A t \in Threads : place[t] \in {"dispatcher", "database"} => executorDisposed

ContainerInv == ContainerTypeOK /\ CallsOK /\ OrderOK

LEMMA ContainerInvInit == ContainerInit => ContainerInv
<1> SUFFICES ASSUME ContainerInit PROVE ContainerInv OBVIOUS
<1>1. offered = {} BY DEF ContainerInit, Init, QueueInit
<1>2. ContainerTypeOK BY DEF ContainerInit, ContainerTypeOK, ContainerPlaces
<1>3. CallsOK BY <1>1 DEF ContainerInit, CallsOK, RefusedAfterDispose
<1>4. OrderOK BY DEF ContainerInit, OrderOK
<1> QED BY <1>2, <1>3, <1>4 DEF ContainerInv

\* Only Execute offers an envelope to Enqueue.
LEMMA StepKeepsOffered ==
    ASSUME NEW t \in Threads, ThreadStep(t)
    PROVE  offered' = offered
<1>1. CASE Enqueueing(t) \/ OnTaskAdded(t)
  BY <1>1 DEF Enqueueing, OnTaskAdded, Persist, PersistFails, AppendToQueue, Check, Signal,
              history
<1>2. CASE Claim(t) \/ AskNextQueue(t) \/ Dequeueing(t)
  BY <1>2 DEF Claim, AskNextQueue, Dequeueing, CallDequeue, DequeueStep, Reserve, Unreserve,
              Take, GiveBack, history, queueVars
<1>3. CASE Start(t) \/ Loop(t)
  BY <1>3 DEF Start, Loop, HandOver, Abandon, ExecuteTask, history, queueVars
<1>4. CASE Executing(t) \/ Faulted(t)
  BY <1>4 DEF Executing, Faulted, TaskReturns, ReleaseFails, Settle, Delete, DeleteFails, history
<1>5. CASE \/ Begin(t) \/ Unclaim(t) \/ NoTaskFound(t) \/ Leave(t)
           \/ MarkDisposed(t) \/ DisposeReturns(t)
  BY <1>5 DEF Begin, Unclaim, NoTaskFound, Leave, MarkDisposed, DisposeReturns, queueVars
<1> QED BY <1>1, <1>2, <1>3, <1>4, <1>5 DEF ThreadStep

LEMMA ContainerInvStep ==
    ContainerInv /\ [ContainerNext]_containerVars => ContainerInv'
<1> SUFFICES ASSUME ContainerInv, [ContainerNext]_containerVars PROVE ContainerInv'
  OBVIOUS
<1>1. ASSUME NEW p \in Producers, NEW e \in Envelopes, CallExecute(p, e)
      PROVE  ContainerInv'
  <2>1. p \in Threads BY DispatcherAssumption
  <2>2. offered' = offered /\ called' = called \cup {e} /\ e \notin called
        /\ late' = IF closed THEN late \cup {e} ELSE late
    BY <1>1 DEF CallExecute, vars, queueVars
  <2>3. UNCHANGED disposalVars BY <1>1 DEF CallExecute
  <2>4. CASE executorDisposed /\ UNCHANGED <<place, task>>
    BY <2>2, <2>3, <2>4
    DEF ContainerInv, ContainerTypeOK, CallsOK, OrderOK, RefusedAfterDispose, disposalVars
  <2>5. CASE /\ ~executorDisposed
             /\ place' = [place EXCEPT ![p] = "routing"]
             /\ task' = [task EXCEPT ![p] = e]
    <3>1. ~closed /\ late' = late BY <2>2, <2>5 DEF ContainerInv, OrderOK
    <3>2. ContainerTypeOK'
      BY <2>1, <2>2, <2>3, <2>5, <3>1
      DEF ContainerInv, ContainerTypeOK, ContainerPlaces, CallsOK, disposalVars
    <3>3. CallsOK'
      BY <2>1, <2>2, <2>5, <3>1 DEF ContainerInv, ContainerTypeOK, CallsOK, RefusedAfterDispose
    <3>4. OrderOK'
      BY <2>1, <2>3, <2>5 DEF ContainerInv, ContainerTypeOK, OrderOK, disposalVars
    <3> QED BY <3>2, <3>3, <3>4 DEF ContainerInv
  <2> QED BY <1>1, <2>4, <2>5 DEF CallExecute, MovesTo
<1>2. ASSUME NEW t \in Threads, Route(t) PROVE ContainerInv'
  <2>1. /\ place[t] = "routing" /\ place' = [place EXCEPT ![t] = "out"]
        /\ task' = [task EXCEPT ![t] = None]
        /\ offered' = offered \cup {task[t]}
        /\ UNCHANGED <<disposalVars, called, late>>
    BY <1>2 DEF Route, MovesTo, Execute, Enqueue
  <2>2. ContainerTypeOK'
    BY <2>1 DEF ContainerInv, ContainerTypeOK, ContainerPlaces, CallsOK, disposalVars
  <2>3. CallsOK'
    BY <2>1 DEF ContainerInv, ContainerTypeOK, CallsOK, RefusedAfterDispose
  <2>4. OrderOK'
    BY <2>1 DEF ContainerInv, ContainerTypeOK, OrderOK, disposalVars
  <2> QED BY <2>2, <2>3, <2>4 DEF ContainerInv
<1>3. ASSUME NEW t \in Threads, DispatcherStep(t) PROVE ContainerInv'
  <2>1. offered' = offered BY <1>3, StepKeepsOffered DEF DispatcherStep
  <2> QED
    BY <1>3, <2>1
    DEF DispatcherStep, ContainerInv, ContainerTypeOK, CallsOK, OrderOK, RefusedAfterDispose,
        disposalVars, callVars
<1>4. ASSUME NEW t \in Threads,
             \/ CallDisposeContainer(t) \/ MarkContainer(t) \/ DisposeExecutor(t)
             \/ DisposeDispatcher(t) \/ DisposeDatabase(t)
      PROVE  ContainerInv'
  <2>1. offered' = offered
    BY <1>4
    DEF CallDisposeContainer, MarkContainer, DisposeExecutor, DisposeDispatcher, DisposeDatabase,
        CallDispose, vars, queueVars
  <2>2. UNCHANGED callVars
    BY <1>4
    DEF CallDisposeContainer, MarkContainer, DisposeExecutor, DisposeDispatcher, DisposeDatabase
  <2>3. /\ containerDisposed' \in BOOLEAN /\ containerDisposeCount' \in Nat
        /\ executorDisposed' \in BOOLEAN /\ closed' \in BOOLEAN
        /\ executorDisposed => executorDisposed'
        /\ closed' => executorDisposed'
    <3>0. /\ containerDisposed \in BOOLEAN /\ containerDisposeCount \in Nat
          /\ executorDisposed \in BOOLEAN /\ closed \in BOOLEAN
          /\ closed => executorDisposed
          /\ place[t] = "database" => executorDisposed
      BY DEF ContainerInv, ContainerTypeOK, OrderOK
    <3>1. CASE CallDisposeContainer(t) \/ DisposeDispatcher(t)
      BY <3>0, <3>1 DEF CallDisposeContainer, DisposeDispatcher, disposalVars
    <3>2. CASE MarkContainer(t)
      BY <3>0, <3>2 DEF MarkContainer
    <3>3. CASE DisposeExecutor(t)
      BY <3>0, <3>3 DEF DisposeExecutor
    <3>4. CASE DisposeDatabase(t)
      BY <3>0, <3>4 DEF DisposeDatabase
    <3> QED BY <1>4, <3>1, <3>2, <3>3, <3>4
  <2>4. /\ place' \in [Threads -> ContainerPlaces] /\ place'[t] # "routing"
        /\ \A u \in Threads : u # t => place'[u] = place[u]
        /\ place'[t] \in {"dispatcher", "database"} => executorDisposed'
    <3>0. place \in [Threads -> ContainerPlaces] BY DEF ContainerInv, ContainerTypeOK
    <3>1. CASE CallDisposeContainer(t)
      BY <3>0, <3>1 DEF CallDisposeContainer, MovesTo, ContainerPlaces
    <3>2. CASE MarkContainer(t) /\ containerDisposeCount = 0
      BY <3>0, <3>2 DEF MarkContainer, MovesTo, ContainerPlaces
    <3>3. CASE MarkContainer(t) /\ containerDisposeCount # 0
      BY <3>0, <3>3 DEF MarkContainer, MovesTo, ContainerPlaces
    <3>4. CASE DisposeExecutor(t)
      BY <3>0, <3>4 DEF DisposeExecutor, MovesTo, ContainerPlaces
    <3>5. CASE DisposeDispatcher(t)
      BY <3>0, <3>5 DEF DisposeDispatcher, MovesTo, ContainerPlaces, ContainerInv, OrderOK, disposalVars
    <3>6. CASE DisposeDatabase(t)
      BY <3>0, <3>6 DEF DisposeDatabase, MovesTo, ContainerPlaces
    <3> QED BY <1>4, <3>1, <3>2, <3>3, <3>4, <3>5, <3>6
  <2>5. ContainerTypeOK'
    BY <2>1, <2>2, <2>3, <2>4 DEF ContainerInv, ContainerTypeOK, callVars
  <2>6. CallsOK'
    BY <2>1, <2>2, <2>4 DEF ContainerInv, ContainerTypeOK, CallsOK, RefusedAfterDispose, callVars
  <2>7. OrderOK'
    BY <2>3, <2>4 DEF ContainerInv, ContainerTypeOK, OrderOK
  <2> QED BY <2>5, <2>6, <2>7 DEF ContainerInv
<1>5. CASE UNCHANGED containerVars
  BY <1>5
  DEF containerVars, vars, queueVars, disposalVars, callVars, ContainerInv, ContainerTypeOK,
      CallsOK, OrderOK, RefusedAfterDispose
<1>6. Producers \subseteq Threads BY DispatcherAssumption
<1> QED BY <1>1, <1>2, <1>3, <1>4, <1>5, <1>6 DEF ContainerNext, ContainerStep

LEMMA ContainerInvHolds == ContainerSafeSpec => []ContainerInv
BY ContainerInvInit, ContainerInvStep, PTL DEF ContainerSafeSpec

\* The fields of the container have their types, and the task of a thread
\* between EnsureNotDisposed and the route is never one that is enqueued.
THEOREM ContainerTypeCorrect == ContainerSafeSpec => []ContainerTypeOK
<1>1. ContainerInv => ContainerTypeOK BY DEF ContainerInv
<1> QED BY <1>1, ContainerInvHolds, PTL

\* No task of a call that begins after the working Dispose has returned is
\* ever enqueued (ExecutionContainer.Dispose, Executor.Execute).
THEOREM RefusedAfterDisposeCorrect == ContainerSafeSpec => []RefusedAfterDispose
<1>1. ContainerInv => RefusedAfterDispose BY DEF ContainerInv, CallsOK
<1> QED BY <1>1, ContainerInvHolds, PTL

-----------------------------------------------------------------------------

\* The container uses the dispatcher as any caller may: every behaviour of
\* Container is one of TaskDispatcher, whose theorems hold of it.
THEOREM ContainerUsesDispatcher == ContainerSafeSpec => Spec
<1>1. ContainerInit => Init BY DEF ContainerInit
<1>2. ContainerInv /\ [ContainerNext]_containerVars => [Next]_vars
  <2> SUFFICES ASSUME ContainerInv, [ContainerNext]_containerVars PROVE [Next]_vars
    OBVIOUS
  <2>1. ASSUME NEW p \in Producers,
               CallDisposeContainer(p) \/ \E e \in Envelopes : CallExecute(p, e)
        PROVE  UNCHANGED vars
    BY <2>1 DEF CallDisposeContainer, CallExecute
  <2>2. ASSUME NEW t \in Threads, Route(t) PROVE Next
    <3>1. t \in Producers /\ task[t] \in Envelopes
      BY <2>2 DEF Route, ContainerInv, CallsOK, ContainerTypeOK
    <3> QED BY <2>2, <3>1 DEF Route, Next
  <2>3. ASSUME NEW t \in Threads, DispatcherStep(t) PROVE Next
    BY <2>3 DEF DispatcherStep, Next
  <2>4. ASSUME NEW t \in Threads, DisposeDispatcher(t) PROVE Next
    <3>1. t \in Producers BY <2>4, DispatcherAssumption DEF DisposeDispatcher, CallDispose
    <3> QED BY <2>4, <3>1 DEF DisposeDispatcher, Next
  <2>5. ASSUME NEW t \in Threads, MarkContainer(t) \/ DisposeExecutor(t) \/ DisposeDatabase(t)
        PROVE  UNCHANGED vars
    BY <2>5 DEF MarkContainer, DisposeExecutor, DisposeDatabase
  <2>6. CASE UNCHANGED containerVars BY <2>6 DEF containerVars
  <2> QED BY <2>1, <2>2, <2>3, <2>4, <2>5, <2>6 DEF ContainerNext, ContainerStep
<1> QED BY <1>1, <1>2, ContainerInvHolds, PTL DEF ContainerSafeSpec, Spec

\* Through the container, too, tasks are in one place, persistent ones are
\* stored until they have been executed, the order of arrival is respected and
\* the limits are kept.
THEOREM ContainerKeepsTasks ==
    ContainerSafeSpec => [](/\ OnePlace /\ PersistedUntilExecuted /\ StartsInArrivalOrder
                            /\ ConcurrencyLimit /\ DispatcherLimit)
BY ContainerUsesDispatcher, DispatcherKeepsTasks, DispatcherKeepsQueueLimits,
   DispatcherLimitCorrect, PTL

\* A persistent task that is not executed and with no thread is in the database
\* if its call of Execute returned, and is not if the call threw; and the calls
\* that begin after the working Dispose has returned do throw.
THEOREM ExecuteKeepsItsWordCorrect == ContainerSafeSpec => []ExecuteKeepsItsWord
<1> DEFINE Reported ==
        \A e \in stored : (\A t \in Threads : env[t] # e) => e \in Accepted
<1>1. RefusedAfterDispose /\ Reported /\ PersistedUntilExecuted => ExecuteKeepsItsWord
  BY DEF ExecuteKeepsItsWord, PersistedUntilExecuted, Accepted
<1>2. ContainerSafeSpec => []Reported
  BY ContainerUsesDispatcher, DispatcherUsesQueues, StoredWasAccepted, PTL
<1>3. ContainerSafeSpec => []PersistedUntilExecuted
  BY ContainerUsesDispatcher, DispatcherUsesQueues, PersistenceCorrect, PTL
<1> QED BY <1>1, <1>2, <1>3, RefusedAfterDisposeCorrect, PTL

\* Through the container, too, no step of any thread does anything to the
\* tasks but what TaskPool lets a pool of that width do.
THEOREM ContainerIsPool == ContainerSafeSpec => ImplementsPool
BY ContainerUsesDispatcher, DispatcherIsPool, PTL

\* Through the container, too, a task that was accepted before Dispose hangs
\* only where some thread was refused a slot.
THEOREM ContainerRefusalsAloneStrand ==
    ContainerSafeSpec /\ []~SomebodyIsRefused => []NoTaskHangs
BY ContainerUsesDispatcher, RefusalsAloneStrand, PTL

-----------------------------------------------------------------------------
(* What is left for the next process *)

\* An executed task that is still stored is on its way to Delete, or its
\* worker has died.
Owed ==
    \A e \in stored \cap executed :
        e \in fatal \/ \E t \in Threads : env[t] = e /\ step[t] \in {"settle", "delete"}

\* A step that no executed and stored task is concerned with.
LEMMA QuietOwed ==
    ASSUME Owed, UNCHANGED <<stored, executed, fatal>>,
           \A u \in Threads : step[u] \in {"settle", "delete"} =>
               step'[u] = step[u] /\ env'[u] = env[u]
    PROVE  Owed'
<1> SUFFICES ASSUME NEW e \in stored \cap executed, e \notin fatal
             PROVE  \E t \in Threads : env'[t] = e /\ step'[t] \in {"settle", "delete"}
  BY DEF Owed
<1>1. PICK t \in Threads : env[t] = e /\ step[t] \in {"settle", "delete"} BY DEF Owed
<1> QED BY <1>1

LEMMA OwedStep ==
    ASSUME PlacesOK, Owed, NEW t \in Threads, ThreadStep(t), DispatcherTypeOK
    PROVE  Owed'
<1>0. step \in [Threads -> Steps] /\ env \in [Threads -> Envelopes \cup {None}]
  BY DEF PlacesOK, QueueTypeOK
<1>1. CASE OnTaskAdded(t) \/ (Enqueueing(t) /\ ~Persist(t))
  <2>1. step[t] \in {"persist", "append", "check", "signal"}
    BY <1>1 DEF OnTaskAdded, Enqueueing, PersistFails, AppendToQueue, Check, Signal
  <2>2. UNCHANGED <<stored, executed, fatal>>
    BY <1>1 DEF OnTaskAdded, Enqueueing, PersistFails, AppendToQueue, Check, Signal, history
  <2>3. \A u \in Threads \ {t} : step'[u] = step[u] /\ env'[u] = env[u]
    BY <1>0, <1>1
    DEF OnTaskAdded, Enqueueing, PersistFails, AppendToQueue, Check, Signal, Returns, Goes
  <2> QED BY <2>1, <2>2, <2>3, QuietOwed
<1>2. CASE Claim(t) \/ AskNextQueue(t) \/ Dequeueing(t)
  <2>1. UNCHANGED <<stored, executed, fatal>>
    BY <1>2 DEF Claim, AskNextQueue, Dequeueing, CallDequeue, DequeueStep, Reserve, Unreserve,
                Take, GiveBack, history, queueVars, dispatcherVars
  <2>2. \/ UNCHANGED <<step, env>>
        \/ /\ step[t] \in {"idle", "reserve", "unreserve", "take", "giveback"}
           /\ \A u \in Threads \ {t} : step'[u] = step[u] /\ env'[u] = env[u]
    BY <1>0, <1>2
    DEF Claim, AskNextQueue, Dequeueing, CallDequeue, DequeueStep, Reserve, Unreserve,
        Take, GiveBack, queueVars, Returns, Goes
  <2> QED BY <2>1, <2>2, QuietOwed
<1>3. CASE Start(t) \/ Loop(t)
  <2>1. UNCHANGED <<stored, executed, fatal>>
    BY <1>3 DEF Start, Loop, HandOver, Abandon, ExecuteTask, history, queueVars
  <2>2. \A u \in Threads : step[u] \in {"settle", "delete"} =>
            step'[u] = step[u] /\ env'[u] = env[u]
    BY <1>0, <1>3
    DEF Start, Loop, HandOver, Abandon, ExecuteTask, queueVars, Returns, Goes
  <2> QED BY <2>1, <2>2, QuietOwed
<1>4. CASE \/ Begin(t) \/ Unclaim(t) \/ NoTaskFound(t) \/ Leave(t)
           \/ MarkDisposed(t) \/ DisposeReturns(t)
  BY <1>4, QuietOwed
  DEF Begin, Unclaim, NoTaskFound, Leave, MarkDisposed, DisposeReturns, queueVars
<1>5. CASE Enqueueing(t) /\ Persist(t)
  <2>1. /\ step[t] = "persist" /\ env[t] \notin executed
        /\ stored' = stored \cup {env[t]} /\ UNCHANGED <<executed, fatal>>
        /\ \A u \in Threads \ {t} : step'[u] = step[u] /\ env'[u] = env[u]
    BY <1>0, <1>5 DEF Enqueueing, Persist, history, Goes, PlacesOK, HoldersOK
  <2> QED BY <2>1 DEF Owed
<1>6. CASE Executing(t) /\ TaskReturns(t)
  <2>1. /\ step[t] = "running" /\ step'[t] = "settle" /\ env'[t] = env[t]
        /\ executed' = executed \cup {env[t]} /\ UNCHANGED <<stored, fatal>>
        /\ \A u \in Threads \ {t} : step'[u] = step[u] /\ env'[u] = env[u]
    BY <1>0, <1>6 DEF Executing, TaskReturns, Goes
  <2> QED BY <2>1 DEF Owed
<1>7. CASE Executing(t) /\ Settle(t)
  <2>1. /\ step[t] = "settle" /\ UNCHANGED <<stored, executed, fatal>>
        /\ \/ step'[t] = "delete" /\ env'[t] = env[t]
           \/ env[t] \notin Persistent
        /\ \A u \in Threads \ {t} : step'[u] = step[u] /\ env'[u] = env[u]
    BY <1>0, <1>7 DEF Executing, Settle, history, Returns, Goes
  <2>2. stored \subseteq Persistent BY DEF PlacesOK, QueueTypeOK
  <2> QED BY <2>1, <2>2 DEF Owed
<1>8. CASE Executing(t) /\ Delete(t)
  <2>1. /\ stored' = stored \ {env[t]} /\ UNCHANGED <<executed, fatal>>
        /\ \A u \in Threads \ {t} : step'[u] = step[u] /\ env'[u] = env[u]
    BY <1>0, <1>8 DEF Executing, Delete, history, Returns, Goes
  <2> QED BY <2>1 DEF Owed
<1>9. CASE Faulted(t)
  <2>1. /\ fatal' = fatal \cup {env[t]} /\ UNCHANGED stored
        /\ executed' \subseteq executed \cup {env[t]}
        /\ \A u \in Threads \ {t} : step'[u] = step[u] /\ env'[u] = env[u]
    BY <1>0, <1>9 DEF Faulted, ReleaseFails, DeleteFails, history, Returns, Goes
  <2> QED BY <2>1 DEF Owed
<1> QED
  BY <1>1, <1>2, <1>3, <1>4, <1>5, <1>6, <1>7, <1>8, <1>9 DEF ThreadStep, Executing

\* Who is on the way to set _disposed of the dispatcher comes from the
\* container, and what the dispatcher has lost is owed to that or to faults.
LossOK ==
    /\ disposed => executorDisposed
    /\ \A t \in Threads : pc[t] = "marking" => executorDisposed
    /\ lost \ fatal # {} => executorDisposed
    /\ \A e \in fatal : closed \/ <<"release", e>> \in Faults

LEMMA LossStep ==
    ASSUME DispatcherTypeOK, LossOK, NEW t \in Threads, ThreadStep(t), DatabaseAnswers(t),
           UNCHANGED disposalVars
    PROVE  LossOK'
<1>0. pc \in [Threads -> Places] BY DEF DispatcherTypeOK
<1>1. /\ disposed' => executorDisposed
      /\ \A u \in Threads : pc'[u] = "marking" => executorDisposed
  <2>1. CASE MarkDisposed(t)
    BY <1>0, <2>1 DEF MarkDisposed, Moves, LossOK
  <2>2. CASE ~MarkDisposed(t)
    <3>1. disposed' = disposed
      BY <2>2
      DEF ThreadStep, Enqueueing, OnTaskAdded, Begin, Claim, Unclaim, AskNextQueue, Dequeueing,
          NoTaskFound, Start, Loop, Executing, Faulted, Leave, DisposeReturns, shutdownVars,
          dispatcherVars
    <3>2. \A u \in Threads : pc'[u] = "marking" => pc[u] = "marking"
      BY <1>0, <2>2
      DEF ThreadStep, Enqueueing, OnTaskAdded, Begin, Claim, Unclaim, AskNextQueue, Dequeueing,
          NoTaskFound, Start, Loop, Executing, Faulted, Leave, DisposeReturns, shutdownVars,
          dispatcherVars, Moves
    <3> QED BY <3>1, <3>2 DEF LossOK
  <2> QED BY <2>1, <2>2
<1>2. lost' \ fatal' # {} => executorDisposed
  <2>1. CASE Loop(t) /\ disposed
    BY <2>1 DEF LossOK
  <2>2. CASE Faulted(t)
    BY <2>2 DEF Faulted, ReleaseFails, DeleteFails, history, LossOK
  <2>3. CASE ~Faulted(t) /\ ~(Loop(t) /\ disposed)
    <3>1. lost' = lost /\ fatal' = fatal
      <4>1. CASE Loop(t) /\ ~disposed
        BY <4>1 DEF Loop, ExecuteTask, history, queueVars
      <4>2. CASE ~Loop(t) /\ ~Executing(t)
        BY <2>3, <4>2
        DEF ThreadStep, Enqueueing, OnTaskAdded, Begin, Claim, Unclaim, AskNextQueue, Dequeueing,
            NoTaskFound, Start, Leave, MarkDisposed, DisposeReturns, dispatcherVars, queueVars,
            Persist, PersistFails, AppendToQueue, Check, Signal, CallDequeue, DequeueStep, Reserve,
            Unreserve, Take, GiveBack, HandOver, history
      <4>3. CASE Executing(t)
        BY <4>3 DEF Executing, TaskReturns, Settle, Delete, history
      <4> QED BY <2>3, <4>1, <4>2, <4>3
    <3> QED BY <3>1 DEF LossOK
  <2> QED BY <2>1, <2>2, <2>3
<1>3. \A e \in fatal' : closed \/ <<"release", e>> \in Faults
  <2>1. CASE fatal' = fatal BY <2>1 DEF LossOK
  <2>2. CASE Faulted(t)
    <3>1. fatal' = fatal \cup {env[t]} BY <2>2 DEF Faulted
    <3>2. closed \/ <<"release", env[t]>> \in Faults
      BY <2>2 DEF Faulted, ReleaseFails, DeleteFails, DatabaseAnswers
    <3> QED BY <3>1, <3>2 DEF LossOK
  <2>3. CASE ~Faulted(t)
    <3>1. fatal' = fatal
      BY <2>3
      DEF ThreadStep, Enqueueing, OnTaskAdded, Begin, Claim, Unclaim, AskNextQueue, Dequeueing,
          NoTaskFound, Start, Loop, Executing, Leave, MarkDisposed, DisposeReturns, dispatcherVars
    <3> QED BY <3>1, <2>1
  <2> QED BY <2>2, <2>3
<1> QED BY <1>1, <1>2, <1>3 DEF LossOK, disposalVars

RepeatsInv == DispatcherOK /\ ContainerInv /\ Owed /\ LossOK

LEMMA RepeatsStep ==
    RepeatsInv /\ [ContainerNext]_containerVars => Owed' /\ LossOK'
<1> SUFFICES ASSUME RepeatsInv, [ContainerNext]_containerVars PROVE Owed' /\ LossOK'
  OBVIOUS
<1>0. /\ PlacesOK /\ DispatcherTypeOK
      /\ step \in [Threads -> Steps] /\ env \in [Threads -> Envelopes \cup {None}]
      /\ pc \in [Threads -> Places]
  BY DEF RepeatsInv, DispatcherOK, DispatcherTypeOK, PlacesOK, QueueTypeOK
<1>1. ASSUME NEW p \in Producers, NEW e \in Envelopes, CallExecute(p, e)
      PROVE  Owed' /\ LossOK'
  BY <1>1 DEF CallExecute, RepeatsInv, Owed, LossOK, vars, queueVars, dispatcherVars, shutdownVars,
              disposalVars
<1>2. ASSUME NEW t \in Threads, Route(t) PROVE Owed' /\ LossOK'
  <2>1. /\ step[t] = "idle" /\ UNCHANGED <<stored, executed, fatal, lost, disposed, disposalVars>>
        /\ \A u \in Threads \ {t} : step'[u] = step[u] /\ env'[u] = env[u]
    BY <1>0, <1>2 DEF Route, Execute, Enqueue, Goes, shutdownVars
  <2>2. \A u \in Threads : pc'[u] = "marking" => pc[u] = "marking"
    BY <1>0, <1>2 DEF Route, Execute, Moves
  <2>3. Owed' BY <2>1, QuietOwed DEF RepeatsInv
  <2>4. LossOK' BY <2>1, <2>2 DEF RepeatsInv, LossOK, disposalVars
  <2> QED BY <2>3, <2>4
<1>3. ASSUME NEW t \in Threads, DispatcherStep(t) PROVE Owed' /\ LossOK'
  <2>1. ThreadStep(t) /\ DatabaseAnswers(t) /\ UNCHANGED disposalVars BY <1>3 DEF DispatcherStep
  <2> QED BY <1>0, <2>1, OwedStep, LossStep DEF RepeatsInv
<1>4. ASSUME NEW t \in Threads, DisposeDispatcher(t) PROVE Owed' /\ LossOK'
  <2>1. UNCHANGED <<queueVars, fatal, disposed, disposalVars>>
    BY <1>4 DEF DisposeDispatcher, CallDispose, shutdownVars
  <2>2. executorDisposed BY <1>4 DEF DisposeDispatcher, RepeatsInv, ContainerInv, OrderOK
  <2>3. Owed' BY <2>1 DEF RepeatsInv, Owed, queueVars
  <2>4. LossOK' BY <2>1, <2>2 DEF RepeatsInv, LossOK, queueVars, disposalVars
  <2> QED BY <2>3, <2>4
<1>5. ASSUME NEW t \in Threads,
             CallDisposeContainer(t) \/ MarkContainer(t) \/ DisposeExecutor(t) \/ DisposeDatabase(t)
      PROVE  Owed' /\ LossOK'
  <2>1. UNCHANGED vars /\ (executorDisposed => executorDisposed') /\ (closed => closed')
    BY <1>5 DEF CallDisposeContainer, MarkContainer, DisposeExecutor, DisposeDatabase, disposalVars
  <2> QED
    BY <2>1 DEF RepeatsInv, Owed, LossOK, vars, queueVars, dispatcherVars, shutdownVars
<1>6. CASE UNCHANGED containerVars
  BY <1>6 DEF containerVars, RepeatsInv, Owed, LossOK, vars, queueVars, dispatcherVars, shutdownVars,
              disposalVars
<1>7. Producers \subseteq Threads BY DispatcherAssumption
<1> QED BY <1>1, <1>2, <1>3, <1>4, <1>5, <1>6, <1>7 DEF ContainerNext, ContainerStep

\* An executed task stays in the database only while it is being deleted, or
\* because the container had closed the database (or, in the dispatcher
\* alone, a releaser had thrown), and tasks are dropped only after Dispose.
THEOREM RepeatsCorrect == ContainerSafeSpec => []RepeatsOnlyAfterShutdown
<1>1. ContainerInit => Owed /\ LossOK
  BY DEF ContainerInit, Init, QueueInit, Owed, LossOK
<1>2. RepeatsInv => RepeatsOnlyAfterShutdown
  BY DEF RepeatsInv, Owed, LossOK, RepeatsOnlyAfterShutdown
<1>3. ContainerSafeSpec => []DispatcherOK
  BY ContainerUsesDispatcher, DispatcherInvariant, PTL
<1>4. ContainerSafeSpec => [](Owed /\ LossOK)
  <2>1. DispatcherOK /\ ContainerInv /\ (Owed /\ LossOK) /\ [ContainerNext]_containerVars
        => (Owed /\ LossOK)'
    BY RepeatsStep DEF RepeatsInv
  <2> QED BY <1>1, <1>3, <2>1, ContainerInvHolds, PTL DEF ContainerSafeSpec
<1> QED BY <1>2, <1>3, <1>4, ContainerInvHolds, PTL DEF RepeatsInv
=============================================================================
