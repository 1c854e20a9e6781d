------------------------ MODULE QueuedExecutorProofs ------------------------
(***************************************************************************)
(* Proofs about QueuedExecutor, for any sets of threads, executors,        *)
(* envelopes and any limits.                                               *)
(***************************************************************************)
EXTENDS QueuedExecutor, FiniteSetTheorems, TLAPS

(* The argument behind both counters named _currentConcurrency, apart from   *)
(* the code that changes them.  S are those that the counter n counts, R     *)
(* those of them that have been told that they are above the limit and will  *)
(* decrement n again.                                                        *)

\* The counter is exact, and those that may stay are within the limit.
Counted(S, R, n, limit) ==
    /\ n = Cardinality(S)
    /\ Cardinality(S \ R) <= limit

\* What a step can do to <<S, R, n>>, which becomes <<S2, R2, n2>>: nothing;
\* t is counted, and refused if it is above the limit; t is not counted any
\* more; x takes the place of t.
Keeps(S, R, n, S2, R2, n2) == S2 = S /\ R2 = R /\ n2 = n

Enters(S, R, n, S2, R2, n2, t, limit) ==
    /\ t \notin S
    /\ S2 = S \cup {t}
    /\ n2 = n + 1
    /\ n2 > limit => R2 = R \cup {t}

Exits(S, R, n, S2, R2, n2, t) ==
    /\ t \in S
    /\ S2 = S \ {t}
    /\ R2 = R \ {t}
    /\ n2 = n - 1

Replaces(S, R, n, S2, R2, n2, t, x) ==
    /\ t \in S \ R
    /\ x \notin S
    /\ S2 = (S \ {t}) \cup {x}
    /\ R2 = R
    /\ n2 = n

LEMMA ReplaceOne ==
    ASSUME NEW S, IsFiniteSet(S), NEW t \in S, NEW x, x \notin S
    PROVE  Cardinality((S \ {t}) \cup {x}) = Cardinality(S)
<1>1. IsFiniteSet(S \ {t}) /\ Cardinality(S \ {t}) = Cardinality(S) - 1
  BY FS_RemoveElement
<1>2. Cardinality((S \ {t}) \cup {x}) = Cardinality(S \ {t}) + 1
  BY <1>1, FS_AddElement
<1> QED  BY <1>1, <1>2, FS_CardinalityType

\* Each of these effects keeps the counter exact and within the limit.
LEMMA EffectKeepsCount ==
    ASSUME NEW S, NEW R, NEW n, NEW S2, NEW R2, NEW n2, NEW limit \in Nat,
           IsFiniteSet(S), R \subseteq S, Counted(S, R, n, limit),
           \/ Keeps(S, R, n, S2, R2, n2)
           \/ \E t : Enters(S, R, n, S2, R2, n2, t, limit)
           \/ \E t : Exits(S, R, n, S2, R2, n2, t)
           \/ \E t, x : Replaces(S, R, n, S2, R2, n2, t, x)
    PROVE  Counted(S2, R2, n2, limit)
<1>1. /\ Cardinality(S) \in Nat
      /\ IsFiniteSet(S \ R)
      /\ Cardinality(S \ R) \in Nat
  BY FS_Subset, FS_CardinalityType
<1>2. CASE Keeps(S, R, n, S2, R2, n2)
  BY <1>2 DEF Keeps
<1>3. ASSUME NEW t, Enters(S, R, n, S2, R2, n2, t, limit)
      PROVE  Counted(S2, R2, n2, limit)
  <2>1. /\ IsFiniteSet(S2)
        /\ Cardinality(S2) = n2
    BY <1>1, <1>3, FS_AddElement DEF Enters, Counted
  <2>2. CASE n2 > limit
    <3>1. S2 \ R2 = S \ R
      BY <1>1, <1>3, <2>2 DEF Enters
    <3> QED  BY <2>1, <3>1 DEF Counted
  <2>3. CASE n2 <= limit
    <3>1. Cardinality(S2 \ R2) <= Cardinality(S2) /\ IsFiniteSet(S2 \ R2)
      BY <2>1, FS_Subset
    <3> QED  BY <2>1, <2>3, <3>1, <1>1, FS_CardinalityType DEF Counted
  <2> QED  BY <1>1, <1>3, <2>2, <2>3 DEF Enters, Counted
<1>4. ASSUME NEW t, Exits(S, R, n, S2, R2, n2, t)
      PROVE  Counted(S2, R2, n2, limit)
  <2>1. Cardinality(S2) = n2
    BY <1>1, <1>4, FS_RemoveElement DEF Exits, Counted
  <2>2. S2 \ R2 \subseteq S \ R
    BY <1>4 DEF Exits
  <2>3. Cardinality(S2 \ R2) <= Cardinality(S \ R) /\ Cardinality(S2 \ R2) \in Nat
    BY <1>1, <2>2, FS_Subset, FS_CardinalityType
  <2> QED  BY <1>1, <2>1, <2>3 DEF Counted
<1>5. ASSUME NEW t, NEW x, Replaces(S, R, n, S2, R2, n2, t, x)
      PROVE  Counted(S2, R2, n2, limit)
  <2>1. Cardinality(S2) = Cardinality(S)
    BY <1>1, <1>5, ReplaceOne DEF Replaces
  <2>2. S2 \ R2 = ((S \ R) \ {t}) \cup {x}
    BY <1>1, <1>5 DEF Replaces
  <2>3. Cardinality(S2 \ R2) = Cardinality(S \ R)
    <3>1. t \in S \ R /\ x \notin S \ R
      BY <1>5 DEF Replaces
    <3> QED  BY <1>1, <2>2, <3>1, ReplaceOne
  <2> QED  BY <1>5, <2>1, <2>3 DEF Counted, Replaces
<1> QED  BY <1>2, <1>3, <1>4, <1>5

-----------------------------------------------------------------------------
(* Sequences without repetitions *)

Elements(s) == {s[i] : i \in DOMAIN s}
Distinct(s) == \A i, j \in DOMAIN s : s[i] = s[j] => i = j

\* Appending a new element to a sequence without repetitions.
LEMMA AppendDistinct ==
    ASSUME NEW S, NEW s \in Seq(S), NEW e \in S, Distinct(s), e \notin Elements(s)
    PROVE  /\ Append(s, e) \in Seq(S)
           /\ Elements(Append(s, e)) = Elements(s) \cup {e}
           /\ Distinct(Append(s, e))
<1>1. /\ Append(s, e) \in Seq(S)
      /\ Len(Append(s, e)) = Len(s) + 1
      /\ DOMAIN Append(s, e) = 1..(Len(s) + 1)
      /\ DOMAIN s = 1..Len(s)
      /\ Len(s) \in Nat
      /\ \A i \in 1..Len(s) : Append(s, e)[i] = s[i]
      /\ Append(s, e)[Len(s) + 1] = e
  OBVIOUS
<1>2. Elements(Append(s, e)) = Elements(s) \cup {e}
  BY <1>1 DEF Elements
<1>3. Distinct(Append(s, e))
  BY <1>1 DEF Elements, Distinct
<1> QED  BY <1>1, <1>2, <1>3

\* Taking the head of a sequence without repetitions removes that element.
LEMMA TailDistinct ==
    ASSUME NEW S, NEW s \in Seq(S), s # <<>>, Distinct(s)
    PROVE  /\ Head(s) \in S
           /\ Tail(s) \in Seq(S)
           /\ Head(s) \in Elements(s)
           /\ Elements(Tail(s)) = Elements(s) \ {Head(s)}
           /\ Distinct(Tail(s))
<1>1. /\ Tail(s) \in Seq(S)
      /\ Len(s) \in Nat \ {0}
      /\ DOMAIN s = 1..Len(s)
      /\ DOMAIN Tail(s) = 1..(Len(s) - 1)
      /\ \A i \in 1..(Len(s) - 1) : Tail(s)[i] = s[i + 1]
      /\ Head(s) = s[1]
      /\ s[1] \in S
  OBVIOUS
<1>2. Head(s) \in Elements(s)
  BY <1>1 DEF Elements
<1>3. Elements(Tail(s)) \subseteq Elements(s) \ {Head(s)}
  BY <1>1 DEF Elements, Distinct
<1>4. ASSUME NEW e \in Elements(s) \ {Head(s)}
      PROVE  e \in Elements(Tail(s))
  <2>1. PICK i \in DOMAIN s : e = s[i]
    BY DEF Elements
  <2>2. i - 1 \in DOMAIN Tail(s) /\ Tail(s)[i - 1] = e
    BY <1>1, <2>1
  <2> QED  BY <2>2 DEF Elements
<1>5. Distinct(Tail(s))
  BY <1>1 DEF Distinct
<1> QED  BY <1>1, <1>2, <1>3, <1>4, <1>5

-----------------------------------------------------------------------------
(* The inductive invariant *)

\* The local variables of a thread fit the step it is in.
FrameOK ==
    \A t \in Threads :
        /\ step[t] # "idle" => at[t] \in Queues
        /\ step[t] \in EnvelopeSteps =>
               env[t] \in offered /\ env[t] \in Envelopes /\ at[t] = Home[env[t]]
        /\ step[t] \notin EnvelopeSteps => env[t] = None
        /\ step[t] = "persist" => env[t] \in Persistent

\* An envelope that waits in a queue was offered, is in no other place, and is
\* in that queue once.
QueuesOK ==
    \A q \in Queues :
        /\ Distinct(queue[q])
        /\ \A e \in Elements(queue[q]) :
               /\ e \in offered \ (executed \cup lost)
               /\ Home[e] = q
               /\ \A t \in Threads : env[t] # e

\* An envelope that a thread holds is held by no other thread, and until its
\* task has been executed it is neither executed nor lost.
HoldersOK ==
    /\ executed \cup lost \subseteq offered
    /\ \A t, u \in Threads : env[t] # None /\ env[t] = env[u] => t = u
    /\ \A t \in Threads : step[t] \in {"persist", "append", "holding", "running"} =>
           env[t] \notin executed \cup lost

PlacesOK == QueueTypeOK /\ FrameOK /\ QueuesOK /\ HoldersOK

-----------------------------------------------------------------------------
(* Preservation of PlacesOK, action by action *)

\* Steps that leave the queues, the envelopes of the threads and the histories
\* as they are.
LEMMA QuietStep ==
    ASSUME PlacesOK, NEW t \in Threads,
           \/ Persist(t) \/ Check(t) \/ Signal(t) \/ Reserve(t) \/ Unreserve(t)
           \/ GiveBack(t) \/ ExecuteTask(t) \/ (\E q \in Queues : CallDequeue(t, q))
    PROVE  PlacesOK'
<1> USE QueueAssumption DEF PlacesOK, QueueTypeOK, FrameOK, Steps, SlotSteps,
        EnvelopeSteps, Goes, Returns, contents, history
<1>1. QueueTypeOK' /\ FrameOK'
  <2>1. CASE Persist(t)  BY <2>1 DEF Persist
  <2>2. CASE Check(t)
    <3>1. CASE Returns(t)  BY <2>2, <3>1 DEF Check
    <3>2. CASE Goes(t, "signal", at[t], None)  BY <2>2, <3>2 DEF Check
    <3> QED  BY <2>2, <3>1, <3>2 DEF Check
  <2>3. CASE Signal(t)  BY <2>3 DEF Signal
  <2>4. CASE Reserve(t)  BY <2>4 DEF Reserve
  <2>5. CASE Unreserve(t)
    <3>1. CASE Returns(t)  BY <2>5, <3>1 DEF Unreserve
    <3>2. CASE Goes(t, "reserve", at[t], None)  BY <2>5, <3>2 DEF Unreserve
    <3> QED  BY <2>5, <3>1, <3>2 DEF Unreserve
  <2>6. CASE GiveBack(t)  BY <2>6 DEF GiveBack
  <2>7. CASE ExecuteTask(t)  BY <2>7 DEF ExecuteTask
  <2>8. CASE \E q \in Queues : CallDequeue(t, q)  BY <2>8 DEF CallDequeue
  <2> QED  BY <2>1, <2>2, <2>3, <2>4, <2>5, <2>6, <2>7, <2>8
<1>2. /\ UNCHANGED <<queue, offered, executed, lost>>
      /\ \/ env' = [env EXCEPT ![t] = env[t]]
         \/ step[t] \notin EnvelopeSteps /\ env' = [env EXCEPT ![t] = None]
      /\ \E s \in Steps :
             /\ step' = [step EXCEPT ![t] = s]
             /\ s \in {"persist", "append", "holding", "running"} =>
                    step[t] \in {"persist", "append", "holding", "running"}
  BY DEF Persist, Check, Signal, Reserve, Unreserve, GiveBack, ExecuteTask, CallDequeue
<1>3. step[t] \notin EnvelopeSteps => env[t] = None
  OBVIOUS
<1>4. /\ \A u \in Threads : env'[u] = env[u]
      /\ \A u \in Threads : u # t => step'[u] = step[u]
      /\ step'[t] \in {"persist", "append", "holding", "running"} =>
             step[t] \in {"persist", "append", "holding", "running"}
  BY <1>2, <1>3
<1>5. QueuesOK'
  BY <1>2, <1>4 DEF QueuesOK
<1>6. HoldersOK'
  BY <1>2, <1>4 DEF HoldersOK
<1> QED  BY <1>1, <1>5, <1>6

\* Steps by which a thread leaves its envelope behind, or carries it on after
\* the execution of the task.
LEMMA LeavingStep ==
    ASSUME PlacesOK, NEW t \in Threads,
           \/ PersistFails(t) \/ Abandon(t) \/ TaskReturns(t) \/ ReleaseFails(t)
           \/ Settle(t) \/ Delete(t) \/ DeleteFails(t)
    PROVE  PlacesOK'
<1> USE QueueAssumption DEF PlacesOK, QueueTypeOK, FrameOK, Steps, SlotSteps,
        EnvelopeSteps, Goes, Returns, contents, history
<1>1. QueueTypeOK' /\ FrameOK'
  <2>1. CASE PersistFails(t)  BY <2>1 DEF PersistFails
  <2>2. CASE Abandon(t)  BY <2>2 DEF Abandon
  <2>3. CASE TaskReturns(t)  BY <2>3 DEF TaskReturns
  <2>4. CASE ReleaseFails(t)  BY <2>4 DEF ReleaseFails
  <2>5. CASE Settle(t)
    <3>1. CASE Returns(t)  BY <2>5, <3>1 DEF Settle
    <3>2. CASE Goes(t, "delete", at[t], env[t])
      <4>1. QueueTypeOK'  BY <2>5, <3>2 DEF Settle
      <4>2. FrameOK'  BY <2>5, <3>2 DEF Settle
      <4> QED  BY <4>1, <4>2
    <3> QED  BY <2>5, <3>1, <3>2 DEF Settle
  <2>6. CASE Delete(t)  BY <2>6 DEF Delete
  <2>7. CASE DeleteFails(t)  BY <2>7 DEF DeleteFails
  <2> QED  BY <2>1, <2>2, <2>3, <2>4, <2>5, <2>6, <2>7
<1>2. /\ UNCHANGED <<queue, offered>>
      /\ step[t] \in EnvelopeSteps
      /\ \E e \in {env[t], None} : env' = [env EXCEPT ![t] = e]
      /\ \E s \in {"idle", "settle", "delete"} : step' = [step EXCEPT ![t] = s]
      /\ executed' \cup lost' \subseteq executed \cup lost \cup {env[t]}
  BY DEF PersistFails, Abandon, TaskReturns, ReleaseFails, Settle, Delete, DeleteFails
<1>3. /\ env[t] \in offered /\ env[t] # None
      /\ \A u \in Threads : env'[u] = env[u] \/ env'[u] = None
      /\ \A u \in Threads : u # t => step'[u] = step[u] /\ env'[u] = env[u]
      /\ step'[t] \notin {"persist", "append", "holding", "running"}
  BY <1>2
<1>4. QueuesOK'
  BY <1>2, <1>3 DEF QueuesOK
<1>5. HoldersOK'
  BY <1>2, <1>3 DEF HoldersOK
<1> QED  BY <1>1, <1>4, <1>5

\* Enqueue brings in an envelope that is nowhere yet.
LEMMA EnqueuePlaces ==
    ASSUME PlacesOK, NEW t \in Threads, NEW e \in Envelopes, Enqueue(t, e)
    PROVE  PlacesOK'
<1> USE QueueAssumption DEF PlacesOK, QueueTypeOK, FrameOK, Steps, SlotSteps,
        EnvelopeSteps, Goes, Returns, contents, history, Enqueue
<1>1. QueueTypeOK' /\ FrameOK'
  OBVIOUS
<1>2. QueuesOK'
  BY DEF QueuesOK, Elements
<1>3. HoldersOK'
  BY DEF HoldersOK
<1> QED  BY <1>1, <1>2, <1>3

\* _queue.Enqueue moves the envelope from the thread to the queue.
LEMMA AppendPlaces ==
    ASSUME PlacesOK, NEW t \in Threads, AppendToQueue(t)
    PROVE  PlacesOK'
<1> USE QueueAssumption DEF PlacesOK, QueueTypeOK, FrameOK, Steps, SlotSteps,
        EnvelopeSteps, Goes, Returns, contents, history, AppendToQueue
<1>1. QueueTypeOK' /\ FrameOK'
  OBVIOUS
<1> DEFINE q == at[t]
           e == env[t]
<1>2. q \in Queues /\ e \in Envelopes /\ e # None /\ Home[e] = q /\ e \in offered
      /\ e \notin executed \cup lost
  BY DEF HoldersOK
<1>3. e \notin Elements(queue[q]) /\ Distinct(queue[q])
  BY <1>2 DEF QueuesOK
<1>4. /\ Elements(queue'[q]) = Elements(queue[q]) \cup {e}
      /\ Distinct(queue'[q])
  BY <1>2, <1>3, AppendDistinct
<1>5. ASSUME NEW r \in Queues, r # q
      PROVE  queue'[r] = queue[r]
  BY <1>5
<1>6. \A u \in Threads : env'[u] # e /\ (env'[u] = env[u] \/ env'[u] = None)
  BY <1>2 DEF HoldersOK
<1>7. QueuesOK'
  BY <1>2, <1>4, <1>5, <1>6 DEF QueuesOK
<1>8. HoldersOK'
  BY DEF HoldersOK
<1> QED  BY <1>1, <1>7, <1>8

\* TryDequeue moves the head of the queue to the thread.
LEMMA TakePlaces ==
    ASSUME PlacesOK, NEW t \in Threads, Take(t)
    PROVE  PlacesOK'
<1> USE QueueAssumption DEF PlacesOK, QueueTypeOK, FrameOK, Steps, SlotSteps,
        EnvelopeSteps, Goes, Returns, contents, history, Take
<1> DEFINE q == at[t]
           e == Head(queue[q])
<1>0. q \in Queues /\ env[t] = None
  OBVIOUS
<1>1. CASE queue[q] = <<>>
  <2>1. /\ step' = [step EXCEPT ![t] = "giveback"]
        /\ at' = [at EXCEPT ![t] = q]
        /\ env' = [env EXCEPT ![t] = None]
        /\ UNCHANGED <<queue, concurrency, stored, arrival, offered, executed, lost>>
    BY <1>1
  <2>5. env' = env
    BY <1>0, <2>1
  <2>2. QueueTypeOK' /\ FrameOK'
    BY <1>0, <2>1
  <2>3. QueuesOK'
    BY <2>1, <2>5 DEF QueuesOK
  <2>4. HoldersOK'
    BY <2>1, <2>5 DEF HoldersOK
  <2> QED  BY <2>2, <2>3, <2>4
<1>2. CASE queue[q] # <<>>
  <2>1. /\ e \in Envelopes
        /\ e \in Elements(queue[q])
        /\ Tail(queue[q]) \in Seq(Envelopes)
        /\ Elements(Tail(queue[q])) = Elements(queue[q]) \ {e}
        /\ Distinct(Tail(queue[q]))
    BY <1>0, <1>2, TailDistinct DEF QueuesOK
  <2>2. /\ queue' = [queue EXCEPT ![q] = Tail(@)]
        /\ step' = [step EXCEPT ![t] = "holding"]
        /\ at' = [at EXCEPT ![t] = q]
        /\ env' = [env EXCEPT ![t] = e]
        /\ UNCHANGED <<concurrency, stored, arrival, offered, executed, lost>>
    BY <1>2
  <2>3. /\ e \in offered \ (executed \cup lost)
        /\ Home[e] = q
        /\ \A u \in Threads : env[u] # e
        /\ \A r \in Queues : r # q => e \notin Elements(queue[r])
    BY <1>0, <2>1 DEF QueuesOK
  <2>4. QueueTypeOK' /\ FrameOK'
    BY <1>0, <2>1, <2>2, <2>3
  <2>5. ASSUME NEW r \in Queues
        PROVE  Distinct(queue'[r]) /\ Elements(queue'[r]) = Elements(queue[r]) \ {e}
    BY <1>0, <2>1, <2>2, <2>3 DEF QueuesOK
  <2>6. QueuesOK'
    BY <2>2, <2>5 DEF QueuesOK
  <2>7. HoldersOK'
    BY <2>2, <2>3 DEF HoldersOK
  <2> QED  BY <2>4, <2>6, <2>7
<1> QED  BY <1>1, <1>2

\* A handed over envelope changes its holder and nothing else.
LEMMA HandOverPlaces ==
    ASSUME PlacesOK, NEW t \in Threads, NEW w \in Threads, HandOver(t, w)
    PROVE  PlacesOK'
<1> USE QueueAssumption DEF PlacesOK, QueueTypeOK, FrameOK, Steps, SlotSteps,
        EnvelopeSteps, Goes, Returns, contents, history, HandOver
<1>1. t # w /\ env[w] = None /\ env[t] \in offered /\ at[t] \in Queues
  OBVIOUS
<1>2. /\ step'[t] = "idle" /\ step'[w] = "holding"
      /\ at'[t] = None /\ at'[w] = at[t]
      /\ env'[t] = None /\ env'[w] = env[t]
      /\ \A u \in Threads \ {t, w} :
             step'[u] = step[u] /\ at'[u] = at[u] /\ env'[u] = env[u]
      /\ UNCHANGED <<queue, offered, executed, lost>>
      /\ step[t] = "holding"
  BY <1>1
<1>3. QueueTypeOK'
  BY <1>1
<1>4. FrameOK'
  <2> SUFFICES ASSUME NEW u \in Threads
               PROVE  /\ step'[u] # "idle" => at'[u] \in Queues
                      /\ step'[u] \in EnvelopeSteps =>
                             /\ env'[u] \in offered /\ env'[u] \in Envelopes
                             /\ at'[u] = Home[env'[u]]
                      /\ step'[u] \notin EnvelopeSteps => env'[u] = None
                      /\ step'[u] = "persist" => env'[u] \in Persistent
    BY <1>2
  <2> HIDE DEF HandOver
  <2>1. CASE u = t  BY <1>1, <1>2, <2>1
  <2>2. CASE u = w  BY <1>1, <1>2, <2>2
  <2>3. CASE u # t /\ u # w  BY <1>1, <1>2, <2>3
  <2> QED  BY <2>1, <2>2, <2>3
<1>5. QueuesOK'
  BY <1>1, <1>2 DEF QueuesOK
<1>6. HoldersOK'
  <2> HIDE DEF HandOver, QueueTypeOK, FrameOK
  <2>1. ASSUME NEW u \in Threads, NEW v \in Threads, env'[u] # None, env'[u] = env'[v]
        PROVE  u = v
    BY <1>1, <1>2, <2>1 DEF HoldersOK
  <2>2. ASSUME NEW u \in Threads, step'[u] \in {"persist", "append", "holding", "running"}
        PROVE  env'[u] \notin executed \cup lost
    BY <1>1, <1>2, <2>2 DEF HoldersOK
  <2> QED  BY <1>2, <2>1, <2>2 DEF HoldersOK
<1> QED  BY <1>3, <1>4, <1>5, <1>6

LEMMA InitPlaces == QueueInit => PlacesOK
BY QueueAssumption DEF QueueInit, PlacesOK, QueueTypeOK, FrameOK, QueuesOK, HoldersOK,
   Steps, SlotSteps, EnvelopeSteps, Elements, Distinct

LEMMA NextPlaces == PlacesOK /\ [QueueNext]_queueVars => PlacesOK'
<1> SUFFICES ASSUME PlacesOK, [QueueNext]_queueVars
             PROVE  PlacesOK'
  OBVIOUS
<1>1. CASE UNCHANGED queueVars
  BY <1>1 DEF queueVars, PlacesOK, QueueTypeOK, FrameOK, QueuesOK, HoldersOK
<1>2. ASSUME NEW t \in Threads, EnqueueStep(t) \/ DequeueStep(t)
      PROVE  PlacesOK'
  BY <1>2, QuietStep, LeavingStep, AppendPlaces, TakePlaces DEF EnqueueStep, DequeueStep
<1>3. ASSUME NEW t \in Threads, Abandon(t) \/ ExecuteTask(t) \/ ExecuteStep(t)
      PROVE  PlacesOK'
  BY <1>3, QuietStep, LeavingStep DEF ExecuteStep
<1>4. ASSUME NEW t \in Threads, \E q \in Queues : CallDequeue(t, q)
      PROVE  PlacesOK'
  BY <1>4, QuietStep
<1> QED
  BY <1>1, <1>2, <1>3, <1>4, EnqueuePlaces, HandOverPlaces DEF QueueNext

\* Types, and where an envelope can be, hold in every state of every behaviour
\* of the executors under any callers.
THEOREM PlacesInvariant == QueueSpec => []PlacesOK
BY InitPlaces, NextPlaces, PTL DEF QueueSpec

\* QueueTypeOK holds of the fields of the executors and of the local variables
\* of the threads, always.
THEOREM TypeCorrect == QueueSpec => []QueueTypeOK
<1>1. PlacesOK => QueueTypeOK
  BY DEF PlacesOK
<1> QED  BY <1>1, PlacesInvariant, PTL

-----------------------------------------------------------------------------
(* An envelope that is nowhere stays nowhere *)

Nowhere(e) ==
    /\ e \in offered
    /\ \A t \in Threads : env[t] # e
    /\ \A q \in Queues : e \notin Elements(queue[q])

\* An offered envelope that no thread holds and no queue has cannot come back.
LEMMA NowhereForGood ==
    ASSUME PlacesOK, QueueNext, NEW e \in Envelopes, Nowhere(e)
    PROVE  Nowhere(e)'
<1> USE DEF PlacesOK, QueueTypeOK, Goes, Returns, contents, history, Nowhere
<1>1. ASSUME NEW t \in Threads, NEW f \in Envelopes, Enqueue(t, f)
      PROVE  Nowhere(e)'
  BY <1>1 DEF Enqueue
<1>2. ASSUME NEW t \in Threads, NEW w \in Threads, HandOver(t, w)
      PROVE  Nowhere(e)'
  <2>1. /\ \A u \in Threads : env'[u] \in {None, env[t], env[u]}
        /\ UNCHANGED <<queue, offered>>
    BY <1>2 DEF HandOver
  <2> QED  BY <2>1, QueueAssumption
<1>3. ASSUME NEW t \in Threads, AppendToQueue(t)
      PROVE  Nowhere(e)'
  <2> DEFINE r == at[t]
  <2>1. /\ r \in Queues /\ env[t] \in Envelopes \ {e}
        /\ queue' = [queue EXCEPT ![r] = Append(@, env[t])]
        /\ offered' = offered
        /\ \A u \in Threads : env'[u] \in {None, env[u]}
        /\ env[t] \notin Elements(queue[r]) /\ Distinct(queue[r])
    BY <1>3 DEF AppendToQueue, FrameOK, QueuesOK, EnvelopeSteps
  <2>2. Elements(Append(queue[r], env[t])) = Elements(queue[r]) \cup {env[t]}
    BY <2>1, AppendDistinct
  <2>3. \A q \in Queues : e \notin Elements(queue'[q])
    BY <2>1, <2>2
  <2> QED  BY <2>1, <2>3, QueueAssumption
<1>4. ASSUME NEW t \in Threads, Take(t)
      PROVE  Nowhere(e)'
  <2> DEFINE r == at[t]
  <2>1. r \in Queues /\ Distinct(queue[r])
    BY <1>4 DEF Take, FrameOK, QueuesOK
  <2>2. CASE queue[r] = <<>>
    BY <1>4, <2>2, QueueAssumption DEF Take
  <2>3. CASE queue[r] # <<>>
    <3>1. /\ Head(queue[r]) \in Elements(queue[r])
          /\ Elements(Tail(queue[r])) \subseteq Elements(queue[r])
      BY <2>1, <2>3, TailDistinct
    <3>2. /\ queue' = [queue EXCEPT ![r] = Tail(@)]
          /\ env' = [env EXCEPT ![t] = Head(queue[r])]
          /\ offered' = offered
      BY <1>4, <2>3 DEF Take
    <3> QED  BY <2>1, <3>1, <3>2
  <2> QED  BY <2>2, <2>3
<1>5. ASSUME NEW t \in Threads,
             \/ Persist(t) \/ PersistFails(t) \/ Check(t) \/ Signal(t)
             \/ Reserve(t) \/ Unreserve(t) \/ GiveBack(t)
             \/ Abandon(t) \/ ExecuteTask(t) \/ ExecuteStep(t)
             \/ \E q \in Queues : CallDequeue(t, q)
      PROVE  Nowhere(e)'
  <2>1. /\ UNCHANGED <<queue, offered>>
        /\ \A u \in Threads : env'[u] \in {None, env[u]}
    BY <1>5 DEF Persist, PersistFails, Check, Signal, Reserve, Unreserve, GiveBack,
       Abandon, ExecuteTask, ExecuteStep, TaskReturns, ReleaseFails, Settle, Delete,
       DeleteFails, CallDequeue
  <2> QED  BY <2>1, QueueAssumption
<1> QED
  BY <1>1, <1>2, <1>3, <1>4, <1>5 DEF QueueNext, EnqueueStep, DequeueStep
-----------------------------------------------------------------------------
(* The counter of an executor *)

CountedOK(q) == Counted(Charged(q), Refused(q), concurrency[q], MaxConcurrency[q])

\* The effects named Keeps, Enters and so on, on the counter of executor q.
Kept(q) ==
    Keeps(Charged(q), Refused(q), concurrency[q],
          Charged(q)', Refused(q)', concurrency'[q])
Entered(q, t) ==
    Enters(Charged(q), Refused(q), concurrency[q],
           Charged(q)', Refused(q)', concurrency'[q], t, MaxConcurrency[q])
Exited(q, t) ==
    Exits(Charged(q), Refused(q), concurrency[q],
          Charged(q)', Refused(q)', concurrency'[q], t)
Replaced(q, t, x) ==
    Replaces(Charged(q), Refused(q), concurrency[q],
             Charged(q)', Refused(q)', concurrency'[q], t, x)

LEMMA ChargedFinite ==
    ASSUME PlacesOK, NEW q \in Queues
    PROVE  /\ Charged(q) \subseteq Threads \cup Envelopes
           /\ IsFiniteSet(Charged(q))
           /\ Refused(q) \subseteq Charged(q)
<1>1. Charged(q) \subseteq Threads \cup Envelopes
  BY DEF Charged, PlacesOK, QueueTypeOK
<1>2. IsFiniteSet(Threads \cup Envelopes)
  BY QueueAssumption, FS_Union
<1>3. Refused(q) \subseteq Charged(q)
  BY DEF Charged, Refused, SlotSteps
<1> QED  BY <1>1, <1>2, <1>3, FS_Subset

\* Which of the effects each action has on the counter of executor q.
LEMMA StepEffect ==
    ASSUME PlacesOK, QueueNext, NEW q \in Queues
    PROVE  \/ Kept(q)
           \/ \E t : Entered(q, t)
           \/ \E t : Exited(q, t)
           \/ \E t, x : Replaced(q, t, x)
<1> USE QueueAssumption DEF PlacesOK, QueueTypeOK, SlotSteps, Goes, Returns,
        contents, history, Charged, Refused
<1>1. ASSUME NEW t \in Threads,
             \/ Persist(t) \/ PersistFails(t) \/ AppendToQueue(t) \/ Check(t) \/ Signal(t)
             \/ Take(t) \/ ExecuteTask(t) \/ TaskReturns(t) \/ Delete(t) \/ DeleteFails(t)
             \/ (\E e \in Envelopes : Enqueue(t, e))
             \/ (\E r \in Queues : CallDequeue(t, r))
      PROVE  Kept(q)
  <2> DEFINE KeptBy(s, r) ==
               /\ step' = [step EXCEPT ![t] = s]
               /\ at' = [at EXCEPT ![t] = r]
               /\ s # "unreserve" /\ step[t] # "unreserve"
               /\ \/ s \notin SlotSteps /\ step[t] \notin SlotSteps
                  \/ s \in SlotSteps /\ step[t] \in SlotSteps /\ r = at[t]
             Unaffected ==
               /\ UNCHANGED <<concurrency, lost>>
               /\ \E s \in Steps, r \in Queues \cup {None} : KeptBy(s, r)
  <2>1. Unaffected
    <3> USE DEF Steps, EnvelopeSteps
    <3>0. at[t] \in Queues \cup {None} /\ None \in Queues \cup {None}
      OBVIOUS
    <3>1. CASE Persist(t) \/ PersistFails(t) \/ AppendToQueue(t) \/ Check(t) \/ Signal(t)
      <4>1. /\ \/ KeptBy("append", at[t]) \/ KeptBy("idle", None)
               \/ KeptBy("check", at[t]) \/ KeptBy("signal", at[t])
            /\ UNCHANGED <<concurrency, lost>>
        BY <3>1 DEF Persist, PersistFails, AppendToQueue, Check, Signal
      <4>2. {"append", "idle", "check", "signal"} \subseteq Steps
        OBVIOUS
      <4> HIDE DEF KeptBy, Steps
      <4> QED  BY <3>0, <4>1, <4>2
    <3>2. CASE Take(t) \/ ExecuteTask(t) \/ TaskReturns(t) \/ Delete(t) \/ DeleteFails(t)
      <4>1. /\ \/ KeptBy("holding", at[t]) \/ KeptBy("giveback", at[t])
               \/ KeptBy("running", at[t]) \/ KeptBy("settle", at[t])
               \/ KeptBy("idle", None)
            /\ UNCHANGED <<concurrency, lost>>
        BY <3>2 DEF Take, ExecuteTask, TaskReturns, Delete, DeleteFails
      <4>2. {"holding", "giveback", "running", "settle", "idle"} \subseteq Steps
        OBVIOUS
      <4> HIDE DEF KeptBy, Steps
      <4> QED  BY <3>0, <4>1, <4>2
    <3>3. ASSUME NEW e \in Envelopes, Enqueue(t, e)
          PROVE  Unaffected
      <4>1. /\ KeptBy("persist", Home[e]) \/ KeptBy("append", Home[e])
            /\ UNCHANGED <<concurrency, lost>>
        BY <3>3 DEF Enqueue
      <4>2. Home[e] \in Queues /\ "persist" \in Steps /\ "append" \in Steps
        OBVIOUS
      <4> HIDE DEF KeptBy, Steps
      <4> QED  BY <4>1, <4>2
    <3>4. ASSUME NEW r \in Queues, CallDequeue(t, r)
          PROVE  Unaffected
      <4>1. KeptBy("reserve", r) /\ UNCHANGED <<concurrency, lost>>
        BY <3>4 DEF CallDequeue
      <4>2. "reserve" \in Steps
        OBVIOUS
      <4> HIDE DEF KeptBy, Steps
      <4> QED  BY <4>1, <4>2
    <3> HIDE DEF Unaffected
    <3> QED  BY <1>1, <3>1, <3>2, <3>3, <3>4
  <2> QED  BY <2>1 DEF Kept, Keeps
<1>2. ASSUME NEW t \in Threads, Reserve(t)
      PROVE  Entered(q, t) \/ Kept(q)
  <2>1. CASE at[t] = q  BY <1>2, <2>1 DEF Reserve, Entered, Enters
  <2>2. CASE at[t] # q  BY <1>2, <2>2 DEF Reserve, Kept, Keeps
  <2> QED  BY <2>1, <2>2
<1>3. ASSUME NEW t \in Threads, Unreserve(t) \/ GiveBack(t) \/ Settle(t)
      PROVE  Exited(q, t) \/ Kept(q)
  <2>1. /\ concurrency' = [concurrency EXCEPT ![at[t]] = @ - 1]
        /\ step[t] \in SlotSteps
        /\ \E s \in Steps \ SlotSteps : step' = [step EXCEPT ![t] = s]
        /\ \E r \in {at[t], None} : at' = [at EXCEPT ![t] = r]
        /\ lost' = lost
    BY <1>3 DEF Unreserve, GiveBack, Settle, Steps, EnvelopeSteps
  <2>2. t \notin lost
    BY QueueAssumption
  <2>3. CASE at[t] = q  BY <2>1, <2>2, <2>3 DEF Exited, Exits
  <2>4. CASE at[t] # q  BY <2>1, <2>2, <2>4 DEF Kept, Keeps
  <2> QED  BY <2>3, <2>4
<1>4. ASSUME NEW t \in Threads, Abandon(t) \/ ReleaseFails(t)
      PROVE  Replaced(q, t, env[t]) \/ Kept(q)
  <2>1. /\ step[t] \in {"holding", "running"}
        /\ step' = [step EXCEPT ![t] = "idle"]
        /\ at' = [at EXCEPT ![t] = None]
        /\ lost' = lost \cup {env[t]}
        /\ concurrency' = concurrency
    BY <1>4 DEF Abandon, ReleaseFails
  <2>2. env[t] \in Envelopes \ lost /\ Home[env[t]] = at[t] /\ env[t] \notin Threads /\ t \notin lost
    BY <2>1 DEF FrameOK, HoldersOK, EnvelopeSteps
  <2>3. CASE at[t] = q  BY <2>1, <2>2, <2>3 DEF Replaced, Replaces
  <2>4. CASE at[t] # q  BY <2>1, <2>2, <2>4 DEF Kept, Keeps
  <2> QED  BY <2>3, <2>4
<1>5. ASSUME NEW t \in Threads, NEW w \in Threads, HandOver(t, w)
      PROVE  Replaced(q, t, w) \/ Kept(q)
  <2>1. t # w /\ w \notin lost /\ t \notin lost
    BY <1>5 DEF HandOver
  <2>2. CASE at[t] = q  BY <1>5, <2>1, <2>2 DEF HandOver, Replaced, Replaces
  <2>3. CASE at[t] # q  BY <1>5, <2>1, <2>3 DEF HandOver, Kept, Keeps
  <2> QED  BY <2>2, <2>3
<1> HIDE DEF PlacesOK, QueueTypeOK, SlotSteps, Goes, Returns, contents, history,
             Charged, Refused
<1>6. ASSUME NEW t \in Threads, EnqueueStep(t) \/ DequeueStep(t)
      PROVE  Kept(q) \/ Entered(q, t) \/ Exited(q, t)
  BY <1>1, <1>2, <1>3, <1>6 DEF EnqueueStep, DequeueStep
<1>7. ASSUME NEW t \in Threads, Abandon(t) \/ ExecuteTask(t) \/ ExecuteStep(t)
      PROVE  Kept(q) \/ Exited(q, t) \/ \E x : Replaced(q, t, x)
  BY <1>1, <1>3, <1>4, <1>7 DEF ExecuteStep
<1> QED
  BY <1>1, <1>5, <1>6, <1>7 DEF QueueNext

LEMMA InitCount == QueueInit => \A q \in Queues : CountedOK(q)
<1> SUFFICES ASSUME QueueInit, NEW q \in Queues
             PROVE  CountedOK(q)
  OBVIOUS
<1>1. Charged(q) = {} /\ concurrency[q] = 0
  BY DEF QueueInit, Charged, SlotSteps
<1>2. Cardinality({}) = 0 /\ Charged(q) \ Refused(q) = {}
  BY <1>1, FS_EmptySet
<1>3. MaxConcurrency[q] \in 1..255
  BY QueueAssumption
<1> QED  BY <1>1, <1>2, <1>3 DEF CountedOK, Counted

LEMMA NextCount ==
    PlacesOK /\ (\A q \in Queues : CountedOK(q)) /\ [QueueNext]_queueVars
        => (\A q \in Queues : CountedOK(q))'
<1> SUFFICES ASSUME PlacesOK, \A q \in Queues : CountedOK(q), [QueueNext]_queueVars,
                    NEW q \in Queues
             PROVE  CountedOK(q)'
  OBVIOUS
<1>1. CASE QueueNext
  <2>1. /\ IsFiniteSet(Charged(q)) /\ Refused(q) \subseteq Charged(q)
        /\ MaxConcurrency[q] \in Nat
    BY ChargedFinite, QueueAssumption
  <2>2. \/ Kept(q)
        \/ \E t : Entered(q, t)
        \/ \E t : Exited(q, t)
        \/ \E t, x : Replaced(q, t, x)
    BY <1>1, StepEffect
  <2> QED  BY <2>1, <2>2, EffectKeepsCount DEF CountedOK, Kept, Entered, Exited, Replaced
<1>2. CASE UNCHANGED queueVars
  BY <1>2 DEF queueVars, CountedOK, Charged, Refused
<1> QED  BY <1>1, <1>2

\* Every increment of _currentConcurrency is undone exactly once, for any
\* number of threads and any limits (Dequeue, AfterExecute).
THEOREM CounterCorrect == QueueSpec => []CounterIsExact
<1>1. QueueInit => PlacesOK /\ \A q \in Queues : CountedOK(q)
  BY InitPlaces, InitCount
<1>2. /\ PlacesOK /\ (\A q \in Queues : CountedOK(q))
      /\ [QueueNext]_queueVars
      => PlacesOK' /\ (\A q \in Queues : CountedOK(q))'
  BY NextPlaces, NextCount
<1>3. (\A q \in Queues : CountedOK(q)) => CounterIsExact
  BY DEF CountedOK, Counted, CounterIsExact
<1> QED  BY <1>1, <1>2, <1>3, PTL DEF QueueSpec

\* No interleaving of calls of Dequeue and of ends of tasks lets more than
\* MaxConcurrency tasks of an executor be out of its queue.
THEOREM LimitCorrect == QueueSpec => []ConcurrencyLimit
<1>1. QueueInit => PlacesOK /\ \A q \in Queues : CountedOK(q)
  BY InitPlaces, InitCount
<1>2. /\ PlacesOK /\ (\A q \in Queues : CountedOK(q))
      /\ [QueueNext]_queueVars
      => PlacesOK' /\ (\A q \in Queues : CountedOK(q))'
  BY NextPlaces, NextCount
<1>3. (\A q \in Queues : CountedOK(q)) => ConcurrencyLimit
  BY DEF CountedOK, Counted, ConcurrencyLimit
<1> QED  BY <1>1, <1>2, <1>3, PTL DEF QueueSpec
-----------------------------------------------------------------------------
(* Acceptance: each envelope an executor has accepted stays in one place,  *)
(* and a persistent one is in the database until its task is executed.     *)

LEMMA AppendElements ==
    ASSUME NEW S, NEW s \in Seq(S), NEW e \in S
    PROVE  Elements(Append(s, e)) = Elements(s) \cup {e}
<1>1. /\ DOMAIN Append(s, e) = 1..(Len(s) + 1)
      /\ DOMAIN s = 1..Len(s)
      /\ Len(s) \in Nat
      /\ \A i \in 1..Len(s) : Append(s, e)[i] = s[i]
      /\ Append(s, e)[Len(s) + 1] = e
  OBVIOUS
<1> QED  BY <1>1 DEF Elements

Arrived(q) == Elements(arrival[q])

\* An envelope has not arrived before _queue.Enqueue; afterwards it waits, is
\* with a thread, or is done with.
ArrivedOK ==
    /\ \A t \in Threads : step[t] \in {"persist", "append"} =>
           \A q \in Queues : env[t] \notin Arrived(q)
    /\ \A q \in Queues : \A e \in Arrived(q) :
           /\ e \in offered
           /\ \/ e \in Elements(queue[q]) \cup executed \cup lost
              \/ \E t \in Threads : env[t] = e

\* The database on the way of a persistent envelope: stored before it arrives,
\* deleted after it has been executed.
DatabaseOK ==
    /\ \A t \in Threads :
           /\ step[t] = "append" /\ env[t] \in Persistent => env[t] \in stored
           /\ step[t] \in {"settle", "delete"} => env[t] \in executed
    /\ \A q \in Queues : \A e \in Arrived(q) :
           e \in Persistent \ executed => e \in stored
    /\ StoredIsOwed

AcceptanceOK == ArrivedOK /\ DatabaseOK

-----------------------------------------------------------------------------
(* Preservation, action by action *)

\* Steps of threads without an envelope, and steps that keep it.
LEMMA QuietAcceptance ==
    ASSUME PlacesOK, AcceptanceOK, NEW t \in Threads,
           \/ Check(t) \/ Signal(t) \/ Reserve(t) \/ Unreserve(t)
           \/ GiveBack(t) \/ ExecuteTask(t) \/ (\E q \in Queues : CallDequeue(t, q))
    PROVE  AcceptanceOK'
<1>1. /\ UNCHANGED <<queue, arrival, stored, offered, executed, lost>>
      /\ \/ env' = [env EXCEPT ![t] = env[t]]
         \/ step[t] \notin EnvelopeSteps /\ env' = [env EXCEPT ![t] = None]
      /\ \E s \in Steps :
             /\ step' = [step EXCEPT ![t] = s]
             /\ s \notin {"persist", "append", "settle", "delete"}
      /\ step[t] \notin {"settle", "delete"}
  BY DEF Check, Signal, Reserve, Unreserve, GiveBack, ExecuteTask, CallDequeue,
     Goes, Returns, contents, history, Steps, SlotSteps, EnvelopeSteps
<1>2. /\ \A u \in Threads : env'[u] = env[u]
      /\ \A u \in Threads : u # t => step'[u] = step[u]
      /\ step'[t] \notin {"persist", "append", "settle", "delete"}
  BY <1>1 DEF PlacesOK, QueueTypeOK, FrameOK
<1>3. ArrivedOK'
  BY <1>1, <1>2 DEF AcceptanceOK, ArrivedOK, Arrived
<1>4. DatabaseOK'
  BY <1>1, <1>2 DEF AcceptanceOK, DatabaseOK, StoredIsOwed, Arrived
<1> QED  BY <1>3, <1>4 DEF AcceptanceOK

\* The steps of Enqueue before the envelope arrives.
LEMMA EnqueueAcceptance ==
    ASSUME PlacesOK, AcceptanceOK, NEW t \in Threads,
           \/ \E e \in Envelopes : Enqueue(t, e)
           \/ Persist(t)
           \/ PersistFails(t)
    PROVE  AcceptanceOK'
<1>1. ASSUME NEW e \in Envelopes, Enqueue(t, e)
      PROVE  AcceptanceOK'
  <2>1. /\ UNCHANGED <<queue, arrival, stored, executed, lost>>
        /\ offered' = offered \cup {e} /\ e \notin offered
        /\ step'[t] \in {"persist", "append"} /\ env'[t] = e
        /\ step'[t] = "append" => e \notin Persistent
        /\ step[t] = "idle" /\ env[t] = None
        /\ \A u \in Threads : u # t => env'[u] = env[u] /\ step'[u] = step[u]
    BY <1>1 DEF Enqueue, EnvelopeSteps, PlacesOK, QueueTypeOK, FrameOK, Goes, Returns,
       contents, history
  <2>2. \A q \in Queues : e \notin Arrived(q)
    BY <2>1 DEF AcceptanceOK, ArrivedOK
  <2>3. \A q \in Queues : \A f \in Arrived(q) : f # None
    BY QueueAssumption DEF AcceptanceOK, ArrivedOK, PlacesOK, QueueTypeOK
  <2>4. ArrivedOK'
    BY <2>1, <2>2, <2>3 DEF AcceptanceOK, ArrivedOK, Arrived
  <2>5. DatabaseOK'
    BY <2>1, QueueAssumption DEF AcceptanceOK, DatabaseOK, StoredIsOwed, Arrived
  <2> QED  BY <2>4, <2>5 DEF AcceptanceOK
<1>2. CASE Persist(t)
  <2>1. /\ UNCHANGED <<queue, arrival, offered, executed, lost>>
        /\ stored' = stored \cup {env[t]}
        /\ step[t] = "persist" /\ step'[t] = "append"
        /\ \A u \in Threads : env'[u] = env[u]
        /\ \A u \in Threads : u # t => step'[u] = step[u]
    BY <1>2 DEF Persist, PlacesOK, QueueTypeOK, FrameOK, Goes, Returns,
       contents, history
  <2>2. env[t] \notin executed
    BY <2>1 DEF PlacesOK, HoldersOK
  <2>3. ArrivedOK'
    BY <2>1 DEF AcceptanceOK, ArrivedOK, Arrived
  <2>4. DatabaseOK'
    BY <2>1, <2>2 DEF AcceptanceOK, DatabaseOK, StoredIsOwed, Arrived
  <2> QED  BY <2>3, <2>4 DEF AcceptanceOK
<1>3. CASE PersistFails(t)
  <2>1. /\ UNCHANGED <<queue, arrival, stored, offered, executed, lost>>
        /\ step[t] = "persist" /\ step'[t] = "idle" /\ env'[t] = None
        /\ \A u \in Threads : u # t => env'[u] = env[u] /\ step'[u] = step[u]
    BY <1>3 DEF PersistFails, PlacesOK, QueueTypeOK, FrameOK, Goes, Returns,
       contents, history
  <2>2. \A q \in Queues : env[t] \notin Arrived(q)
    BY <2>1 DEF AcceptanceOK, ArrivedOK
  <2>3. ArrivedOK'
    BY <2>1, <2>2 DEF AcceptanceOK, ArrivedOK, Arrived
  <2>4. DatabaseOK'
    BY <2>1 DEF AcceptanceOK, DatabaseOK, StoredIsOwed, Arrived
  <2> QED  BY <2>3, <2>4 DEF AcceptanceOK
<1> QED  BY <1>1, <1>2, <1>3

\* _queue.Enqueue: the envelope arrives.
LEMMA AppendAcceptance ==
    ASSUME PlacesOK, AcceptanceOK, NEW t \in Threads, AppendToQueue(t)
    PROVE  AcceptanceOK'
<1> SUFFICES ASSUME NEW r, r = at[t], NEW e, e = env[t]
             PROVE  AcceptanceOK'
  OBVIOUS
<1>1. /\ r \in Queues /\ e \in Envelopes
      /\ queue' = [queue EXCEPT ![r] = Append(@, e)]
      /\ arrival' = [arrival EXCEPT ![r] = Append(@, e)]
      /\ queue \in [Queues -> Seq(Envelopes)]
      /\ arrival \in [Queues -> Seq(Envelopes)]
  BY DEF AppendToQueue, PlacesOK, QueueTypeOK, FrameOK, EnvelopeSteps
<1>0. /\ step[t] = "append" /\ e \in offered
      /\ UNCHANGED <<stored, offered, executed, lost>>
      /\ step'[t] = "check" /\ env'[t] = None
      /\ \A u \in Threads : u # t => env'[u] = env[u] /\ step'[u] = step[u]
  BY DEF AppendToQueue, PlacesOK, QueueTypeOK, FrameOK, Goes, history, EnvelopeSteps
<1>2. /\ Arrived(r)' = Arrived(r) \cup {e}
      /\ Elements(queue'[r]) = Elements(queue[r]) \cup {e}
      /\ \A q \in Queues : q # r => Arrived(q)' = Arrived(q) /\ queue'[q] = queue[q]
  <2>1. queue'[r] = Append(queue[r], e) /\ arrival'[r] = Append(arrival[r], e)
    BY <1>1
  <2>2. queue[r] \in Seq(Envelopes) /\ arrival[r] \in Seq(Envelopes)
    BY <1>1
  <2> QED  BY <1>1, <2>1, <2>2, AppendElements DEF Arrived
<1>3. \A u \in Threads : u # t => env[u] # e
  BY <1>0, <1>1, QueueAssumption DEF PlacesOK, HoldersOK
<1>4. e \in Persistent => e \in stored
  BY <1>0 DEF AcceptanceOK, DatabaseOK
<1>5. ArrivedOK'
  <2>1. ASSUME NEW u \in Threads, step'[u] \in {"persist", "append"}, NEW q \in Queues
        PROVE  env'[u] \notin Arrived(q)'
    <3>1. u # t /\ env'[u] = env[u] /\ step[u] \in {"persist", "append"}
      BY <1>0, <2>1
    <3>2. env[u] \notin Arrived(q) /\ env[u] # e
      BY <1>3, <3>1 DEF AcceptanceOK, ArrivedOK
    <3>3. Arrived(q)' \subseteq Arrived(q) \cup {e}
      BY <1>2
    <3> QED  BY <3>1, <3>2, <3>3
  <2>2. ASSUME NEW q \in Queues, NEW f, f \in Arrived(q)'
        PROVE  /\ f \in offered'
               /\ \/ f \in Elements(queue'[q]) \cup executed' \cup lost'
                  \/ \E u \in Threads : env'[u] = f
    <3>1. CASE q = r /\ f = e
      BY <1>0, <1>2, <3>1
    <3>2. CASE f # e
      <4>1. f \in Arrived(q)
        BY <1>2, <2>2, <3>2
      <4>2. Elements(queue[q]) \subseteq Elements(queue'[q])
        BY <1>2
      <4>3. ASSUME NEW u \in Threads, env[u] = f
            PROVE  env'[u] = f
        BY <1>0, <3>2, <4>3
      <4> QED  BY <1>0, <4>1, <4>2, <4>3 DEF AcceptanceOK, ArrivedOK
    <3>3. CASE q # r
      <4>1. f \in Arrived(q) /\ f # e
        BY <1>0, <1>2, <2>2, <3>3 DEF AcceptanceOK, ArrivedOK
      <4> QED  BY <3>2, <4>1
    <3> QED  BY <3>1, <3>2, <3>3
  <2> QED  BY <2>1, <2>2 DEF ArrivedOK
<1>6. DatabaseOK'
  <2>1. ASSUME NEW q \in Queues, NEW f, f \in Arrived(q)', f \in Persistent \ executed'
        PROVE  f \in stored'
    BY <1>0, <1>2, <1>4, <2>1 DEF AcceptanceOK, DatabaseOK
  <2>2. StoredIsOwed'
    <3>1. \A u \in Threads : step[u] \in {"settle", "delete"} =>
              env'[u] = env[u] /\ step'[u] = step[u]
      BY <1>0
    <3>2. StoredIsOwed /\ UNCHANGED <<stored, executed, lost>>
      BY <1>0 DEF AcceptanceOK, DatabaseOK
    <3> SUFFICES ASSUME NEW f, f \in (stored \cap executed) \ lost,
                        <<"delete", f>> \notin Faults
                 PROVE  \E u \in Threads : env'[u] = f /\ step'[u] \in {"settle", "delete"}
      BY <3>2 DEF StoredIsOwed
    <3>3. PICK u \in Threads : env[u] = f /\ step[u] \in {"settle", "delete"}
      BY <3>2 DEF StoredIsOwed
    <3> QED  BY <3>1, <3>3
  <2> QED  BY <1>0, <2>1, <2>2 DEF AcceptanceOK, DatabaseOK
<1> QED  BY <1>5, <1>6 DEF AcceptanceOK

\* _queue.TryDequeue
LEMMA TakeAcceptance ==
    ASSUME PlacesOK, AcceptanceOK, NEW t \in Threads, Take(t)
    PROVE  AcceptanceOK'
<1> SUFFICES ASSUME NEW r, r = at[t], NEW e, e = Head(queue[r])
             PROVE  AcceptanceOK'
  OBVIOUS
<1>0. /\ r \in Queues /\ env[t] = None
      /\ queue \in [Queues -> Seq(Envelopes)]
  BY DEF Take, PlacesOK, QueueTypeOK, FrameOK, EnvelopeSteps
<1>1. /\ queue[r] \in Seq(Envelopes) /\ Distinct(queue[r])
      /\ step[t] = "take"
      /\ UNCHANGED <<arrival, stored, offered, executed, lost>>
      /\ step'[t] \in {"holding", "giveback"}
      /\ \A u \in Threads : u # t => env'[u] = env[u] /\ step'[u] = step[u]
  <2>1. queue[r] \in Seq(Envelopes) /\ Distinct(queue[r])
    BY <1>0 DEF PlacesOK, QueuesOK
  <2>2. step \in [Threads -> Steps] /\ env \in [Threads -> Envelopes \cup {None}]
    BY DEF PlacesOK, QueueTypeOK
  <2> QED  BY <2>1, <2>2 DEF Take, Goes, history
<1>2. \/ queue' = queue
      \/ /\ env'[t] = e /\ queue' = [queue EXCEPT ![r] = Tail(@)]
         /\ queue[r] # <<>>
  BY DEF Take, Goes, PlacesOK, QueueTypeOK
<1>3. \A q \in Queues : \A f \in Elements(queue[q]) :
          f \in Elements(queue'[q]) \/ f = env'[t]
  <2>1. CASE queue' = queue
    BY <2>1
  <2>2. CASE env'[t] = e /\ queue' = [queue EXCEPT ![r] = Tail(@)] /\ queue[r] # <<>>
    <3>1. Elements(Tail(queue[r])) = Elements(queue[r]) \ {e}
      BY <1>1, <2>2, TailDistinct
    <3> QED  BY <1>1, <2>2, <3>1
  <2> QED  BY <1>2, <2>1, <2>2
<1>4. \A q \in Queues : \A f \in Arrived(q) : f # None
  BY QueueAssumption DEF AcceptanceOK, ArrivedOK, PlacesOK, QueueTypeOK
<1>5. ArrivedOK'
  <2>1. ASSUME NEW q \in Queues, NEW f \in Arrived(q)
        PROVE  \/ f \in Elements(queue'[q]) \cup executed \cup lost
               \/ \E u \in Threads : env'[u] = f
    <3>1. CASE f \in Elements(queue[q])  BY <1>3, <3>1
    <3>2. CASE f \in executed \cup lost  BY <3>2
    <3>3. ASSUME NEW u \in Threads, env[u] = f
          PROVE  env'[u] = f
      BY <1>0, <1>1, <1>4, <3>3
    <3> QED  BY <3>1, <3>2, <3>3 DEF AcceptanceOK, ArrivedOK
  <2> QED  BY <1>1, <2>1 DEF AcceptanceOK, ArrivedOK, Arrived
<1>6. DatabaseOK'
  BY <1>1 DEF AcceptanceOK, DatabaseOK, StoredIsOwed, Arrived
<1> QED  BY <1>5, <1>6 DEF AcceptanceOK

\* The steps of a holder, and of ExecuteTask to its end.
LEMMA HolderAcceptance ==
    ASSUME PlacesOK, AcceptanceOK, NEW t \in Threads,
           \/ Abandon(t) \/ ExecuteStep(t) \/ \E w \in Threads : HandOver(t, w)
    PROVE  AcceptanceOK'
<1>1. ASSUME NEW w \in Threads, HandOver(t, w)
      PROVE  AcceptanceOK'
  <2>1. /\ t # w /\ env[w] = None
        /\ step[t] = "holding" /\ step[w] = "idle"
        /\ step'[t] = "idle" /\ step'[w] = "holding"
        /\ env'[t] = None /\ env'[w] = env[t]
        /\ \A u \in Threads \ {t, w} : step'[u] = step[u] /\ env'[u] = env[u]
        /\ UNCHANGED <<queue, arrival, stored, offered, executed, lost>>
    BY <1>1 DEF HandOver, contents, history, PlacesOK, QueueTypeOK, FrameOK, EnvelopeSteps
  <2>2. \A f : f # None /\ (\E u \in Threads : env[u] = f)
               => \E u \in Threads : env'[u] = f
    BY <2>1
  <2>3. \A q \in Queues : \A f \in Arrived(q) : f # None
    BY QueueAssumption DEF AcceptanceOK, ArrivedOK, PlacesOK, QueueTypeOK
  <2>4. ArrivedOK'
    BY <2>1, <2>2, <2>3 DEF AcceptanceOK, ArrivedOK, Arrived
  <2>5. DatabaseOK'
    BY <2>1 DEF AcceptanceOK, DatabaseOK, StoredIsOwed, Arrived
  <2> QED  BY <2>4, <2>5 DEF AcceptanceOK
<1>2. CASE Abandon(t) \/ ReleaseFails(t)
  <2>1. /\ step[t] \in {"holding", "running"} /\ step'[t] = "idle" /\ env'[t] = None
        /\ \A u \in Threads : u # t => step'[u] = step[u] /\ env'[u] = env[u]
        /\ UNCHANGED <<queue, arrival, stored, offered>>
        /\ executed' \in {executed, executed \cup {env[t]}}
        /\ lost' = lost \cup {env[t]}
    BY <1>2 DEF Abandon, ReleaseFails, Goes, Returns, contents, history, PlacesOK, QueueTypeOK
  <2>2. ArrivedOK'
    BY <2>1 DEF AcceptanceOK, ArrivedOK, Arrived
  <2>3. DatabaseOK'
    BY <2>1 DEF AcceptanceOK, DatabaseOK, StoredIsOwed, Arrived
  <2> QED  BY <2>2, <2>3 DEF AcceptanceOK
<1>3. CASE TaskReturns(t)
  <2>1. /\ step[t] = "running" /\ step'[t] = "settle"
        /\ \A u \in Threads : env'[u] = env[u]
        /\ \A u \in Threads : u # t => step'[u] = step[u]
        /\ UNCHANGED <<queue, arrival, stored, offered, lost>>
        /\ executed' = executed \cup {env[t]}
    BY <1>3 DEF TaskReturns, Goes, contents, PlacesOK, QueueTypeOK
  <2>2. ArrivedOK'
    BY <2>1 DEF AcceptanceOK, ArrivedOK, Arrived
  <2>3. DatabaseOK'
    BY <2>1 DEF AcceptanceOK, DatabaseOK, StoredIsOwed, Arrived
  <2> QED  BY <2>2, <2>3 DEF AcceptanceOK
<1>4. CASE Settle(t)
  <2>1. /\ step[t] = "settle"
        /\ \/ step'[t] = "delete" /\ env'[t] = env[t]
           \/ step'[t] = "idle" /\ env'[t] = None /\ env[t] \notin Persistent
        /\ \A u \in Threads : u # t => step'[u] = step[u] /\ env'[u] = env[u]
        /\ UNCHANGED <<queue, arrival, stored, offered, executed, lost>>
    BY <1>4 DEF Settle, Goes, Returns, contents, history, PlacesOK, QueueTypeOK
  <2>2. env[t] \in executed /\ stored \subseteq Persistent
    BY <2>1 DEF AcceptanceOK, DatabaseOK, PlacesOK, QueueTypeOK
  <2>3. ArrivedOK'
    BY <2>1, <2>2 DEF AcceptanceOK, ArrivedOK, Arrived
  <2>4. DatabaseOK'
    BY <2>1, <2>2 DEF AcceptanceOK, DatabaseOK, StoredIsOwed, Arrived
  <2> QED  BY <2>3, <2>4 DEF AcceptanceOK
<1>5. CASE Delete(t) \/ DeleteFails(t)
  <2>1. /\ step[t] = "delete" /\ step'[t] = "idle" /\ env'[t] = None
        /\ \A u \in Threads : u # t => step'[u] = step[u] /\ env'[u] = env[u]
        /\ UNCHANGED <<queue, arrival, offered, executed, lost>>
        /\ \/ stored' = stored \ {env[t]}
           \/ stored' = stored /\ <<"delete", env[t]>> \in Faults
    BY <1>5 DEF Delete, DeleteFails, Goes, Returns, contents, history, PlacesOK, QueueTypeOK
  <2>2. env[t] \in executed /\ env[t] # None
    BY <2>1, QueueAssumption DEF AcceptanceOK, DatabaseOK, PlacesOK, FrameOK, EnvelopeSteps
  <2>3. \A u \in Threads : u # t => env[u] # env[t]
    BY <2>2 DEF PlacesOK, HoldersOK
  <2>4. ArrivedOK'
    BY <2>1, <2>2 DEF AcceptanceOK, ArrivedOK, Arrived
  <2>5. DatabaseOK'
    <3>1. StoredIsOwed'
      <4> SUFFICES ASSUME NEW e, e \in (stored' \cap executed) \ lost,
                          <<"delete", e>> \notin Faults
                   PROVE  \E u \in Threads : env'[u] = e /\ step'[u] \in {"settle", "delete"}
        BY <2>1 DEF StoredIsOwed
      <4>1. e # env[t] /\ e \in stored
        BY <2>1
      <4>2. PICK u \in Threads : env[u] = e /\ step[u] \in {"settle", "delete"}
        BY <4>1 DEF AcceptanceOK, DatabaseOK, StoredIsOwed
      <4> QED  BY <2>1, <4>1, <4>2
    <3> QED  BY <2>1, <2>2, <2>3, <3>1 DEF AcceptanceOK, DatabaseOK, Arrived
  <2> QED  BY <2>4, <2>5 DEF AcceptanceOK
<1> QED  BY <1>1, <1>2, <1>3, <1>4, <1>5 DEF ExecuteStep

LEMMA InitAcceptance == QueueInit => AcceptanceOK
BY DEF QueueInit, AcceptanceOK, ArrivedOK, DatabaseOK, StoredIsOwed, Arrived, Elements

LEMMA NextAcceptance == PlacesOK /\ AcceptanceOK /\ [QueueNext]_queueVars => AcceptanceOK'
<1> SUFFICES ASSUME PlacesOK, AcceptanceOK, [QueueNext]_queueVars
             PROVE  AcceptanceOK'
  OBVIOUS
<1>1. CASE UNCHANGED queueVars
  BY <1>1 DEF queueVars, AcceptanceOK, ArrivedOK, DatabaseOK, StoredIsOwed, Arrived
<1>2. ASSUME NEW t \in Threads, EnqueueStep(t) \/ DequeueStep(t)
      PROVE  AcceptanceOK'
  BY <1>2, QuietAcceptance, EnqueueAcceptance, AppendAcceptance, TakeAcceptance
     DEF EnqueueStep, DequeueStep
<1>3. ASSUME NEW t \in Threads, Abandon(t) \/ ExecuteTask(t) \/ ExecuteStep(t)
      PROVE  AcceptanceOK'
  BY <1>3, QuietAcceptance, HolderAcceptance
<1>4. ASSUME NEW t \in Threads,
             \/ \E q \in Queues : CallDequeue(t, q)
             \/ \E e \in Envelopes : Enqueue(t, e)
             \/ \E w \in Threads : HandOver(t, w)
      PROVE  AcceptanceOK'
  BY <1>4, QuietAcceptance, EnqueueAcceptance, HolderAcceptance
<1> QED  BY <1>1, <1>2, <1>3, <1>4 DEF QueueNext

LEMMA AcceptanceInvariant == QueueSpec => [](PlacesOK /\ AcceptanceOK)
<1>1. PlacesOK /\ AcceptanceOK /\ [QueueNext]_queueVars => (PlacesOK /\ AcceptanceOK)'
  BY NextPlaces, NextAcceptance
<1> QED  BY <1>1, InitPlaces, InitAcceptance, PTL DEF QueueSpec

-----------------------------------------------------------------------------

\* No interleaving of Enqueue, Dequeue and ExecuteTask gives an accepted
\* envelope to two threads, executes its task twice or makes it disappear.
THEOREM OnePlaceCorrect == QueueSpec => []OnePlace
<1>1. PlacesOK /\ AcceptanceOK => OnePlace
  <2> SUFFICES ASSUME PlacesOK, AcceptanceOK
               PROVE  OnePlace
    OBVIOUS
  <2>1. \A q : Queued(q) = Elements(queue[q])
    BY DEF Queued, Elements
  <2>2. \A t, u \in Threads : env[t] # None /\ env[t] = env[u] => t = u
    BY DEF PlacesOK, HoldersOK
  <2>3. ASSUME NEW t \in Threads
        PROVE  /\ env[t] # None => env[t] \notin Queued(at[t])
               /\ step[t] \in {"holding", "running"} => env[t] \notin executed \cup lost
    <3>1. env[t] # None => at[t] \in Queues
      BY DEF PlacesOK, FrameOK, EnvelopeSteps
    <3> QED  BY <2>1, <3>1 DEF PlacesOK, QueuesOK, HoldersOK
  <2>4. ASSUME NEW q \in Queues, NEW i \in DOMAIN arrival[q]
        PROVE  \/ arrival[q][i] \in Queued(q) \cup executed \cup lost
               \/ \E t \in Threads : env[t] = arrival[q][i]
    BY <2>1 DEF AcceptanceOK, ArrivedOK, Arrived, Elements
  <2> QED  BY <2>2, <2>3, <2>4 DEF OnePlace
<1> QED  BY <1>1, AcceptanceInvariant, PTL

\* Whenever the process stops, the database has the task of every persistent
\* envelope that was accepted and not executed.
THEOREM PersistenceCorrect == QueueSpec => []PersistedUntilExecuted
<1>1. AcceptanceOK => PersistedUntilExecuted
  BY DEF AcceptanceOK, DatabaseOK, PersistedUntilExecuted, Arrived, Elements
<1> QED  BY <1>1, AcceptanceInvariant, PTL

\* The database has the task of an executed envelope only until Delete, unless
\* an exception kept the thread from it.
THEOREM StoredIsOwedCorrect == QueueSpec => []StoredIsOwed
<1>1. AcceptanceOK => StoredIsOwed
  BY DEF AcceptanceOK, DatabaseOK
<1> QED  BY <1>1, AcceptanceInvariant, PTL

-----------------------------------------------------------------------------
(* The database has nothing that was not accepted: Persist stores the task on *)
(* the way into the queue, and an Enqueue that has stored it does not throw.  *)

StoredOnTheWay ==
    \A e \in stored : e \in Accepted \/ \E t \in Threads : step[t] = "append" /\ env[t] = e

LEMMA AppendStored ==
    ASSUME PlacesOK, StoredOnTheWay, NEW t \in Threads, AppendToQueue(t)
    PROVE  StoredOnTheWay'
<1> SUFFICES ASSUME NEW r, r = at[t], NEW e, e = env[t]
             PROVE  StoredOnTheWay'
  OBVIOUS
<1>1. /\ r \in Queues /\ e \in Envelopes
      /\ arrival' = [arrival EXCEPT ![r] = Append(@, e)]
      /\ arrival \in [Queues -> Seq(Envelopes)]
      /\ stored' = stored
      /\ \A u \in Threads : u # t => env'[u] = env[u] /\ step'[u] = step[u]
  BY DEF AppendToQueue, Goes, history, PlacesOK, QueueTypeOK, FrameOK, EnvelopeSteps
<1>2. /\ Arrived(r)' = Arrived(r) \cup {e}
      /\ \A q \in Queues : q # r => Arrived(q)' = Arrived(q)
  <2>1. arrival'[r] = Append(arrival[r], e) /\ arrival[r] \in Seq(Envelopes)
    BY <1>1
  <2> QED  BY <1>1, <2>1, AppendElements DEF Arrived
<1>3. Accepted = {f \in Envelopes : \E q \in Queues : f \in Arrived(q)}
  BY DEF Accepted, Arrived, Elements
<1>4. Accepted' = {f \in Envelopes : \E q \in Queues : f \in Arrived(q)'}
  BY DEF Accepted, Arrived, Elements
<1>5. Accepted \subseteq Accepted' /\ e \in Accepted'
  <2>1. e \in Accepted'  BY <1>1, <1>2, <1>4
  <2>2. ASSUME NEW f \in Envelopes, NEW q \in Queues, f \in Arrived(q)
        PROVE  f \in Arrived(q)'
    BY <1>2, <2>2
  <2>3. Accepted \subseteq Accepted'  BY <1>3, <1>4, <2>2
  <2> QED  BY <2>1, <2>3
<1>6. ASSUME NEW f \in stored'
      PROVE  f \in Accepted' \/ \E u \in Threads : step'[u] = "append" /\ env'[u] = f
  <2>1. f \in stored  BY <1>1
  <2>2. CASE f \in Accepted  BY <1>5, <2>2
  <2>3. ASSUME NEW u \in Threads, step[u] = "append", env[u] = f
        PROVE  f \in Accepted' \/ \E v \in Threads : step'[v] = "append" /\ env'[v] = f
    <3>1. CASE u = t  BY <1>5, <2>3, <3>1
    <3>2. CASE u # t  BY <1>1, <2>3, <3>2
    <3> QED  BY <3>1, <3>2
  <2> QED  BY <2>1, <2>2, <2>3 DEF StoredOnTheWay
<1> QED  BY <1>6 DEF StoredOnTheWay

LEMMA StoredStep == PlacesOK /\ StoredOnTheWay /\ [QueueNext]_queueVars => StoredOnTheWay'
<1> SUFFICES ASSUME PlacesOK, StoredOnTheWay, [QueueNext]_queueVars
             PROVE  StoredOnTheWay'
  OBVIOUS
<1>1. ASSUME arrival' = arrival, stored' \subseteq stored,
             \A u \in Threads : step[u] = "append" => step'[u] = step[u] /\ env'[u] = env[u]
      PROVE  StoredOnTheWay'
  BY <1>1 DEF StoredOnTheWay, Accepted
<1>2. CASE UNCHANGED queueVars
  BY <1>1, <1>2 DEF queueVars
<1>3. ASSUME NEW t \in Threads, Persist(t)
      PROVE  StoredOnTheWay'
  <2>1. /\ arrival' = arrival /\ stored' = stored \cup {env[t]}
        /\ step[t] = "persist" /\ step'[t] = "append"
        /\ \A u \in Threads : env'[u] = env[u]
        /\ \A u \in Threads : u # t => step'[u] = step[u]
    BY <1>3 DEF Persist, Goes, contents, PlacesOK, QueueTypeOK
  <2> QED  BY <2>1 DEF StoredOnTheWay, Accepted
<1>4. ASSUME NEW t \in Threads,
             \/ \E e \in Envelopes : Enqueue(t, e)
             \/ \E q \in Queues : CallDequeue(t, q)
             \/ PersistFails(t) \/ Check(t) \/ Signal(t) \/ DequeueStep(t)
      PROVE  StoredOnTheWay'
  <2>1. /\ arrival' = arrival /\ stored' = stored
        /\ step[t] # "append"
        /\ \A u \in Threads : u # t => step'[u] = step[u] /\ env'[u] = env[u]
    BY <1>4 DEF Enqueue, CallDequeue, PersistFails, Check, Signal, DequeueStep, Reserve,
       Unreserve, Take, GiveBack, Goes, Returns, contents, history, PlacesOK, QueueTypeOK
  <2> QED  BY <1>1, <2>1
<1>5. ASSUME NEW t \in Threads, Abandon(t) \/ ExecuteTask(t) \/ ExecuteStep(t)
      PROVE  StoredOnTheWay'
  <2>1. /\ arrival' = arrival /\ stored' \subseteq stored
        /\ step[t] # "append"
        /\ \A u \in Threads : u # t => step'[u] = step[u] /\ env'[u] = env[u]
    BY <1>5 DEF Abandon, ExecuteTask, ExecuteStep, TaskReturns, ReleaseFails, Settle, Delete,
       DeleteFails, Goes, Returns, contents, history, PlacesOK, QueueTypeOK
  <2> QED  BY <1>1, <2>1
<1>6. ASSUME NEW t \in Threads, NEW w \in Threads, HandOver(t, w)
      PROVE  StoredOnTheWay'
  <2>1. /\ arrival' = arrival /\ stored' = stored
        /\ step[t] # "append" /\ step[w] # "append"
        /\ \A u \in Threads \ {t, w} : step'[u] = step[u] /\ env'[u] = env[u]
    BY <1>6 DEF HandOver, contents, history, PlacesOK, QueueTypeOK
  <2> QED  BY <1>1, <2>1
<1> QED  BY <1>2, <1>3, <1>4, <1>5, <1>6, AppendStored DEF QueueNext, EnqueueStep

\* A task that is in the database without being in the hands of a thread is
\* that of an envelope whose Enqueue has not thrown.
THEOREM StoredWasAccepted ==
    QueueSpec => [](\A e \in stored : (\A t \in Threads : env[t] # e) => e \in Accepted)
<1>1. QueueInit => StoredOnTheWay  BY DEF QueueInit, StoredOnTheWay
<1>2. StoredOnTheWay => \A e \in stored : (\A t \in Threads : env[t] # e) => e \in Accepted
  BY DEF StoredOnTheWay
<1>3. QueueSpec => []StoredOnTheWay
  BY <1>1, StoredStep, PlacesInvariant, PTL DEF QueueSpec
<1> QED  BY <1>2, <1>3, PTL

-----------------------------------------------------------------------------
(* The order of starts: a queue is what is left of the order of arrival, so *)
(* those that arrived before a running task have left it, and are executed *)
(* or charged.                                                              *)

\* The queue is the end of the sequence of those that arrived.
Suffix(s, a) ==
    \E n \in Nat : Len(a) = n + Len(s) /\ \A i \in DOMAIN s : s[i] = a[n + i]

SequenceOK ==
    \A q \in Queues :
        /\ Distinct(arrival[q])
        /\ \A e \in Arrived(q) : Home[e] = q
        /\ Suffix(queue[q], arrival[q])

LEMMA SuffixAppend ==
    ASSUME NEW S, NEW s \in Seq(S), NEW a \in Seq(S), NEW e \in S, Suffix(s, a)
    PROVE  Suffix(Append(s, e), Append(a, e))
<1>1. /\ DOMAIN s = 1..Len(s) /\ Len(s) \in Nat
      /\ DOMAIN Append(s, e) = 1..(Len(s) + 1) /\ Len(Append(s, e)) = Len(s) + 1
      /\ \A i \in 1..Len(s) : Append(s, e)[i] = s[i]
      /\ Append(s, e)[Len(s) + 1] = e
      /\ Len(a) \in Nat /\ Len(Append(a, e)) = Len(a) + 1
      /\ \A i \in 1..Len(a) : Append(a, e)[i] = a[i]
      /\ Append(a, e)[Len(a) + 1] = e
  OBVIOUS
<1>2. PICK n \in Nat : Len(a) = n + Len(s) /\ \A i \in 1..Len(s) : s[i] = a[n + i]
  BY <1>1 DEF Suffix
<1>3. ASSUME NEW i \in 1..(Len(s) + 1)
      PROVE  Append(s, e)[i] = Append(a, e)[n + i]
  <2>1. CASE i = Len(s) + 1
    <3>1. n + i = Len(a) + 1
      BY <1>1, <1>2, <2>1
    <3> QED  BY <1>1, <2>1, <3>1
  <2>2. CASE i \in 1..Len(s)
    <3>1. n + i \in 1..Len(a)
      BY <1>1, <1>2, <2>2
    <3> QED  BY <1>1, <1>2, <2>2, <3>1
  <2>3. \A m \in Nat : \A l \in 1..(m + 1) : l = m + 1 \/ l \in 1..m
    OBVIOUS
  <2>4. i = Len(s) + 1 \/ i \in 1..Len(s)
    BY <1>1, <1>3, <2>3, Zenon
  <2> QED  BY <2>1, <2>2, <2>4
<1>4. Len(Append(a, e)) = n + Len(Append(s, e))
  BY <1>1, <1>2
<1> QED  BY <1>1, <1>3, <1>4 DEF Suffix

LEMMA SuffixTail ==
    ASSUME NEW S, NEW s \in Seq(S), NEW a \in Seq(S), s # <<>>, Suffix(s, a)
    PROVE  Suffix(Tail(s), a)
<1>1. /\ DOMAIN s = 1..Len(s) /\ Len(s) \in Nat \ {0} /\ Len(a) \in Nat
      /\ DOMAIN Tail(s) = 1..(Len(s) - 1) /\ Len(Tail(s)) = Len(s) - 1
      /\ \A i \in 1..(Len(s) - 1) : Tail(s)[i] = s[i + 1]
  OBVIOUS
<1>2. PICK n \in Nat : Len(a) = n + Len(s) /\ \A i \in 1..Len(s) : s[i] = a[n + i]
  BY <1>1 DEF Suffix
<1>3. ASSUME NEW i \in 1..(Len(s) - 1)
      PROVE  Tail(s)[i] = a[(n + 1) + i]
  <2>1. (n + 1) + i = n + (i + 1) /\ i + 1 \in 1..Len(s)
    BY <1>1
  <2> QED  BY <1>1, <1>2, <2>1
<1>4. n + 1 \in Nat /\ Len(a) = (n + 1) + Len(Tail(s))
  BY <1>1, <1>2
<1> QED  BY <1>1, <1>3, <1>4 DEF Suffix

LEMMA NextSequence ==
    ASSUME PlacesOK, ArrivedOK, SequenceOK, [QueueNext]_queueVars
    PROVE  SequenceOK'
<1>1. queue \in [Queues -> Seq(Envelopes)] /\ arrival \in [Queues -> Seq(Envelopes)]
  BY DEF PlacesOK, QueueTypeOK
<1>2. CASE UNCHANGED <<queue, arrival>>
  BY <1>2 DEF SequenceOK, Arrived
<1>3. ASSUME NEW t \in Threads, AppendToQueue(t)
      PROVE  SequenceOK'
  <2>1. PICK e \in Envelopes, r \in Queues : e = env[t] /\ r = at[t] /\ Home[e] = r
    BY <1>3 DEF AppendToQueue, PlacesOK, FrameOK, EnvelopeSteps
  <2>2. /\ queue' = [queue EXCEPT ![r] = Append(@, e)]
        /\ arrival' = [arrival EXCEPT ![r] = Append(@, e)]
    BY <1>3, <2>1 DEF AppendToQueue
  <2>3. e \notin Elements(arrival[r])
    BY <1>3, <2>1 DEF AppendToQueue, ArrivedOK, Arrived
  <2>4. /\ Distinct(arrival[r]) /\ Suffix(queue[r], arrival[r])
        /\ \A f \in Elements(arrival[r]) : Home[f] = r
    BY DEF SequenceOK, Arrived
  <2>5. ASSUME NEW q \in Queues
        PROVE  /\ Distinct(arrival'[q])
               /\ \A f \in Elements(arrival'[q]) : Home[f] = q
               /\ Suffix(queue'[q], arrival'[q])
    <3>1. CASE q = r
      <4>1. queue'[q] = Append(queue[r], e) /\ arrival'[q] = Append(arrival[r], e)
        BY <1>1, <2>2, <3>1
      <4>2. queue[r] \in Seq(Envelopes) /\ arrival[r] \in Seq(Envelopes)
        BY <1>1
      <4>3. /\ Elements(Append(arrival[r], e)) = Elements(arrival[r]) \cup {e}
            /\ Distinct(Append(arrival[r], e))
        BY <2>3, <2>4, <4>2, AppendDistinct
      <4>4. Suffix(Append(queue[r], e), Append(arrival[r], e))
        BY <2>4, <4>2, SuffixAppend
      <4> QED  BY <2>1, <2>4, <3>1, <4>1, <4>3, <4>4
    <3>2. CASE q # r
      <4>1. queue'[q] = queue[q] /\ arrival'[q] = arrival[q]
        BY <1>1, <2>2, <3>2
      <4> QED  BY <4>1 DEF SequenceOK, Arrived
    <3> QED  BY <3>1, <3>2
  <2> QED  BY <2>5 DEF SequenceOK, Arrived
<1>4. ASSUME NEW t \in Threads, Take(t)
      PROVE  SequenceOK'
  <2>1. CASE queue' = queue
    BY <1>4, <2>1 DEF Take, SequenceOK, Arrived
  <2>2. CASE queue[at[t]] # <<>> /\ queue' = [queue EXCEPT ![at[t]] = Tail(@)]
    <3>1. PICK r \in Queues : r = at[t]
      BY <1>4 DEF Take, PlacesOK, FrameOK
    <3>2. arrival' = arrival
      BY <1>4 DEF Take
    <3>3. ASSUME NEW q \in Queues PROVE Suffix(queue'[q], arrival[q])
      <4>1. CASE q = r
        <5>1. queue'[q] = Tail(queue[r]) /\ queue[r] # <<>>
          BY <1>1, <2>2, <3>1, <4>1
        <5> QED  BY <1>1, <4>1, <5>1, SuffixTail DEF SequenceOK
      <4>2. CASE q # r
        <5>1. queue'[q] = queue[q]
          BY <1>1, <2>2, <3>1, <4>2
        <5> QED  BY <5>1 DEF SequenceOK
      <4> QED  BY <4>1, <4>2
    <3> QED  BY <3>2, <3>3 DEF SequenceOK, Arrived
  <2> QED  BY <1>4, <2>1, <2>2 DEF Take
<1>5. \/ UNCHANGED <<queue, arrival>>
      \/ \E t \in Threads : AppendToQueue(t) \/ Take(t)
  BY DEF QueueNext, EnqueueStep, DequeueStep, ExecuteStep, Enqueue, Persist, PersistFails,
     Check, Signal, CallDequeue, Reserve, Unreserve, GiveBack, HandOver, Abandon, ExecuteTask,
     TaskReturns, ReleaseFails, Settle, Delete, DeleteFails, contents, queueVars
<1> QED  BY <1>2, <1>3, <1>4, <1>5

LEMMA LimitIsNumber == \A q \in Queues : MaxConcurrency[q] \in Nat
BY QueueAssumption

\* Those that arrived before a running task and are not executed are charged,
\* each on its own account, and none of them is the thread that runs the task.
LEMMA StartsInOrder ==
    ASSUME PlacesOK, AcceptanceOK, SequenceOK, ConcurrencyLimit
    PROVE  StartsInArrivalOrder
<1> SUFFICES ASSUME NEW q \in Queues, NEW t \in Running(q), NEW i \in DOMAIN arrival[q],
                    arrival[q][i] = env[t]
             PROVE  Cardinality({j \in 1..(i - 1) : arrival[q][j] \notin executed})
                        < MaxConcurrency[q]
  BY DEF StartsInArrivalOrder
<1> DEFINE J == {j \in 1..(i - 1) : arrival[q][j] \notin executed}
           C == Charged(q) \ Refused(q)
           D == C \ {t}
<1>1. PICK a \in Seq(Envelopes), s \in Seq(Envelopes) : a = arrival[q] /\ s = queue[q]
  BY DEF PlacesOK, QueueTypeOK
<1>2. /\ DOMAIN a = 1..Len(a) /\ Len(a) \in Nat /\ i \in 1..Len(a)
      /\ DOMAIN s = 1..Len(s) /\ Len(s) \in Nat
      /\ Distinct(a) /\ Suffix(s, a)
  BY <1>1 DEF SequenceOK
<1>3. t \in Threads /\ step[t] = "running" /\ at[t] = q
  BY DEF Running
<1>4. t \in C
  BY <1>3 DEF Charged, Refused, SlotSteps
<1>5. MaxConcurrency[q] \in Nat
  BY LimitIsNumber
<1>6. PICK n \in Nat : Len(a) = n + Len(s) /\ \A m \in 1..Len(s) : s[m] = a[n + m]
  BY <1>2 DEF Suffix
<1>7. i <= n
  <2> SUFFICES ASSUME i > n PROVE FALSE
    BY <1>2
  <2>1. i - n \in 1..Len(s) /\ n + (i - n) = i
    BY <1>2, <1>6
  <2>2. s[i - n] = a[i]
    BY <1>6, <2>1
  <2>3. a[i] \in Elements(queue[q])
    BY <1>1, <1>2, <2>1, <2>2 DEF Elements
  <2> QED  BY <1>1, <1>3, <2>3 DEF PlacesOK, QueuesOK
<1>8. ASSUME NEW j \in J
      PROVE  \/ a[j] \in lost /\ a[j] \in D
             \/ \E u \in D : u \in Threads /\ env[u] = a[j]
  <2>1. j \in 1..Len(a) /\ j < i /\ a[j] \in Envelopes /\ a[j] \in Arrived(q) /\ a[j] \notin executed
    BY <1>1, <1>2 DEF Arrived, Elements
  <2>2. a[j] \notin Elements(queue[q])
    <3> SUFFICES ASSUME NEW m \in 1..Len(s), s[m] = a[j] PROVE FALSE
      BY <1>1, <1>2 DEF Elements
    <3>1. s[m] = a[n + m] /\ n + m \in 1..Len(a)
      BY <1>2, <1>6
    <3>2. n + m = j
      BY <1>2, <2>1, <3>1 DEF Distinct
    <3> QED  BY <1>2, <1>7, <2>1, <3>2
  <2>3. Home[a[j]] = q
    BY <2>1 DEF SequenceOK
  <2>4. CASE a[j] \in lost
    <3>1. a[j] \in Charged(q)
      BY <2>3, <2>4 DEF Charged
    <3>2. a[j] \notin Threads
      BY <2>1, QueueAssumption
    <3> QED  BY <1>3, <2>4, <3>1, <3>2 DEF Refused
  <2>5. ASSUME NEW u \in Threads, env[u] = a[j]
        PROVE  u \in D
    <3>1. step[u] \in EnvelopeSteps /\ at[u] = q
      BY <2>1, <2>3, <2>5, QueueAssumption DEF PlacesOK, FrameOK
    <3>2. step[u] \notin {"persist", "append"}
      BY <2>1, <2>5 DEF AcceptanceOK, ArrivedOK
    <3>3. step[u] \notin {"settle", "delete"}
      BY <2>1, <2>5 DEF AcceptanceOK, DatabaseOK
    <3>4. step[u] \in {"holding", "running"}
      BY <3>1, <3>2, <3>3 DEF EnvelopeSteps
    <3>5. u \in C
      BY <3>1, <3>4 DEF Charged, Refused, SlotSteps
    <3>6. u # t
      BY <1>1, <1>2, <2>1, <2>5 DEF Distinct
    <3> QED  BY <3>5, <3>6
  <2> QED  BY <2>1, <2>2, <2>4, <2>5 DEF AcceptanceOK, ArrivedOK
<1> DEFINE f == [j \in J |-> IF a[j] \in lost /\ a[j] \in D THEN a[j]
                             ELSE CHOOSE u \in D : u \in Threads /\ env[u] = a[j]]
<1>9. f \in [J -> D]
  BY <1>8
<1>10. ASSUME NEW j \in J, NEW k \in J, f[j] = f[k]
      PROVE  j = k
  <2>1. ASSUME NEW l \in J
        PROVE  (f[l] = a[l] /\ f[l] \notin Threads) \/ (f[l] \in Threads /\ env[f[l]] = a[l])
    <3>1. a[l] \in Envelopes
      BY <1>1, <1>2
    <3> QED  BY <1>8, <3>1, QueueAssumption
  <2>2. a[j] = a[k]
    BY <1>10, <2>1
  <2>3. j \in 1..Len(a) /\ k \in 1..Len(a)
    BY <1>2
  <2> QED  BY <1>2, <2>2, <2>3 DEF Distinct
<1>11. /\ IsFiniteSet(C) /\ Cardinality(C) \in Nat /\ Cardinality(C) <= MaxConcurrency[q]
      /\ IsFiniteSet(D) /\ Cardinality(D) = Cardinality(C) - 1
  <2>1. IsFiniteSet(C)
    BY ChargedFinite, FS_Subset
  <2>2. Cardinality(C) <= MaxConcurrency[q]
    BY DEF ConcurrencyLimit
  <2> HIDE DEF C
  <2> QED  BY <1>4, <2>1, <2>2, FS_RemoveElement, FS_CardinalityType
<1>12. IsFiniteSet(J) /\ Cardinality(J) \in Nat
  <2>1. IsFiniteSet(1..(i - 1))
    BY <1>2, FS_Interval
  <2> QED  BY <2>1, FS_Subset, FS_CardinalityType
<1> HIDE DEF J, D, f, C
<1>13. ~ (Cardinality(D) < Cardinality(J))
  BY <1>9, <1>10, <1>11, <1>12, FS_PigeonHole
<1>14. Cardinality(J) < MaxConcurrency[q]
  BY <1>11, <1>12, <1>5, <1>13
<1> QED  BY <1>14 DEF J

\* A task starts only when fewer than MaxConcurrency of those that arrived on
\* its executor before it are unfinished, for any threads, envelopes and limits.
THEOREM OrderCorrect == QueueSpec => []StartsInArrivalOrder
<1>1. QueueInit => SequenceOK
  BY DEF QueueInit, SequenceOK, Arrived, Elements, Distinct, Suffix
<1>2. PlacesOK /\ AcceptanceOK /\ SequenceOK /\ [QueueNext]_queueVars => SequenceOK'
  BY NextSequence DEF AcceptanceOK
<1>3. PlacesOK /\ AcceptanceOK /\ SequenceOK /\ ConcurrencyLimit => StartsInArrivalOrder
  BY StartsInOrder
<1>4. QueueSpec => []SequenceOK
  BY <1>1, <1>2, AcceptanceInvariant, PTL DEF QueueSpec
<1> QED  BY <1>3, <1>4, AcceptanceInvariant, LimitCorrect, PTL

-----------------------------------------------------------------------------
(* The executors are task pools *)

Holders == {t \in Threads : step[t] \in {"holding", "running"}}

LEMMA TakenByHolders ==
    ASSUME PlacesOK
    PROVE  /\ Taken \subseteq Envelopes
           /\ \A e \in Taken : \E t \in Holders : env[t] = e
           /\ \A e \in Taken : e \notin executed \cup lost
           /\ \A t \in Holders : env[t] \in Taken /\ at[t] = Home[env[t]]
BY DEF Taken, Holders, PlacesOK, FrameOK, HoldersOK, EnvelopeSteps

\* Those who are to hold the envelopes of E are no fewer than they are.
LEMMA HoldersSuffice ==
    ASSUME NEW E, NEW D, D \subseteq Threads, E \subseteq Envelopes,
           \A e \in E : \E t \in D : env[t] = e
    PROVE  IsFiniteSet(D) /\ Cardinality(E) <= Cardinality(D)
<1>1. IsFiniteSet(D) /\ IsFiniteSet(E)
  BY QueueAssumption, FS_Subset
<1>2. Cardinality(D) \in Nat /\ Cardinality(E) \in Nat
  BY <1>1, FS_CardinalityType
<1> DEFINE f == [e \in E |-> CHOOSE t \in D : env[t] = e]
<1>3. f \in [E -> D] /\ \A e \in E : env[f[e]] = e
  OBVIOUS
<1>4. \A e, g \in E : f[e] = f[g] => e = g
  BY <1>3
<1> HIDE DEF f
<1>5. ~ (Cardinality(D) < Cardinality(E))
  BY <1>1, <1>3, <1>4, FS_PigeonHole
<1> QED  BY <1>1, <1>2, <1>5

\* A thread that is about to take an envelope has a slot that none of the
\* taken ones needs.
LEMMA SlotForTaker ==
    ASSUME PlacesOK, ConcurrencyLimit, NEW t \in Threads, step[t] = "take",
           NEW q \in Queues, at[t] = q
    PROVE  /\ Cardinality(Taken) < Cardinality(Threads)
           /\ Cardinality({e \in Taken : Home[e] = q}) < MaxConcurrency[q]
<1>1. /\ Taken \subseteq Envelopes
      /\ \A e \in Taken : \E u \in Holders : env[u] = e
      /\ \A u \in Holders : at[u] = Home[env[u]]
  BY TakenByHolders
<1>2. t \notin Holders /\ Holders \subseteq Threads
  BY DEF Holders
<1>3. Cardinality(Taken) < Cardinality(Threads)
  <2> DEFINE D == Threads \ {t}
  <2>1. \A e \in Taken : \E u \in D : env[u] = e
    BY <1>1, <1>2
  <2>2. IsFiniteSet(D) /\ Cardinality(Taken) <= Cardinality(D)
    BY <1>1, <2>1, HoldersSuffice
  <2>3. IsFiniteSet(Threads) /\ Cardinality(D) = Cardinality(Threads) - 1
    BY QueueAssumption, FS_RemoveElement
  <2>4. Cardinality(Threads) \in Nat /\ IsFiniteSet(Taken)
    BY <1>1, <2>3, QueueAssumption, FS_Subset, FS_CardinalityType
  <2>5. Cardinality(Taken) \in Nat
    BY <2>4, FS_CardinalityType
  <2> QED  BY <2>2, <2>3, <2>4, <2>5
<1>4. Cardinality({e \in Taken : Home[e] = q}) < MaxConcurrency[q]
  <2> DEFINE E == {e \in Taken : Home[e] = q}
             C == Charged(q) \ Refused(q)
             D == C \ {t}
             H == {u \in Holders : at[u] = q}
  <2>1. \A e \in E : \E u \in H : env[u] = e
    BY <1>1
  <2>2. H \subseteq Threads /\ E \subseteq Envelopes
    BY <1>1, <1>2
  <2>3. IsFiniteSet(H) /\ Cardinality(E) <= Cardinality(H)
    <3> HIDE DEF E, H
    <3> QED  BY <2>1, <2>2, HoldersSuffice
  <2>4. t \in C /\ H \subseteq D
    BY <1>2 DEF Holders, Charged, Refused, SlotSteps
  <2>5. IsFiniteSet(C) /\ Cardinality(C) <= MaxConcurrency[q] /\ MaxConcurrency[q] \in Nat
    BY ChargedFinite, FS_Subset, LimitIsNumber DEF ConcurrencyLimit
  <2>6. IsFiniteSet(E)
    BY <2>2, QueueAssumption, FS_Subset
  <2> HIDE DEF E, C, H
  <2>7. IsFiniteSet(D) /\ Cardinality(D) = Cardinality(C) - 1 /\ Cardinality(C) \in Nat
    BY <2>4, <2>5, FS_RemoveElement, FS_CardinalityType
  <2>8. Cardinality(H) <= Cardinality(D) /\ Cardinality(H) \in Nat /\ Cardinality(E) \in Nat
    BY <2>3, <2>4, <2>6, <2>7, FS_Subset, FS_CardinalityType
  <2>9. Cardinality(E) < MaxConcurrency[q]
    BY <2>3, <2>5, <2>7, <2>8
  <2> QED  BY <2>9 DEF E
<1> QED  BY <1>3, <1>4

\* Both modules count with the same operator.
LEMMA SameCardinality == \A S : QueuePool!Cardinality(S) = Cardinality(S)
BY DEF QueuePool!Cardinality, Cardinality

LEMMA StepImplementsPool ==
    ASSUME PlacesOK, AcceptanceOK, ConcurrencyLimit, [QueueNext]_queueVars
    PROVE  [QueuePool!Next]_(QueuePool!poolVars)
<1>0. /\ step \in [Threads -> Steps] /\ env \in [Threads -> Envelopes \cup {None}]
      /\ queue \in [Queues -> Seq(Envelopes)]
      /\ \A t \in Threads : step[t] # "idle" => at[t] \in Queues
  BY DEF PlacesOK, QueueTypeOK, FrameOK
\* Nothing a pool knows of changes.
<1>1. ASSUME UNCHANGED <<queue, executed, lost>>, Taken' = Taken
      PROVE  UNCHANGED QueuePool!poolVars
  BY <1>1 DEF QueuePool!poolVars
<1>2. CASE UNCHANGED queueVars
  BY <1>1, <1>2 DEF queueVars, Taken
<1>3. ASSUME NEW t \in Threads,
             \/ \E e \in Envelopes : Enqueue(t, e)
             \/ \E q \in Queues : CallDequeue(t, q)
             \/ Persist(t) \/ PersistFails(t) \/ Check(t) \/ Signal(t)
             \/ Reserve(t) \/ Unreserve(t) \/ GiveBack(t)
             \/ Settle(t) \/ Delete(t) \/ DeleteFails(t)
      PROVE  UNCHANGED QueuePool!poolVars
  <2>1. /\ step[t] \notin {"holding", "running"} /\ step'[t] \notin {"holding", "running"}
        /\ \A u \in Threads \ {t} : step'[u] = step[u] /\ env'[u] = env[u]
        /\ UNCHANGED <<queue, executed, lost>>
    BY <1>0, <1>3 DEF Enqueue, CallDequeue, Persist, PersistFails, Check, Signal, Reserve,
       Unreserve, GiveBack, Settle, Delete, DeleteFails, Goes, Returns, contents, history
  <2>2. Taken' = Taken
    BY <2>1 DEF Taken
  <2> QED  BY <1>1, <2>1, <2>2
<1>4. ASSUME NEW t \in Threads, ExecuteTask(t)
      PROVE  UNCHANGED QueuePool!poolVars
  <2>1. /\ step[t] = "holding" /\ step'[t] = "running" /\ env'[t] = env[t]
        /\ \A u \in Threads \ {t} : step'[u] = step[u] /\ env'[u] = env[u]
        /\ UNCHANGED <<queue, executed, lost>>
    BY <1>0, <1>4 DEF ExecuteTask, Goes, contents, history
  <2>2. Taken' = Taken
    BY <2>1 DEF Taken
  <2> QED  BY <1>1, <2>1, <2>2
<1>5. ASSUME NEW t \in Threads, NEW w \in Threads, HandOver(t, w)
      PROVE  UNCHANGED QueuePool!poolVars
  <2>1. /\ step[t] = "holding" /\ step'[t] = "idle"
        /\ step[w] = "idle" /\ step'[w] = "holding" /\ env'[w] = env[t]
        /\ \A u \in Threads \ {t, w} : step'[u] = step[u] /\ env'[u] = env[u]
        /\ UNCHANGED <<queue, executed, lost>>
    BY <1>0, <1>5 DEF HandOver, contents, history
  <2>2. Taken' = Taken
    BY <2>1 DEF Taken
  <2> QED  BY <1>1, <2>1, <2>2
<1>6. ASSUME NEW t \in Threads, AppendToQueue(t)
      PROVE  QueuePool!Next
  <2>1. /\ step[t] = "append" /\ env[t] \in Envelopes /\ at[t] = Home[env[t]]
        /\ env[t] \notin executed \cup lost
    BY <1>6 DEF AppendToQueue, PlacesOK, FrameOK, HoldersOK, EnvelopeSteps
  <2>2. env[t] \notin Taken
    BY <2>1, QueueAssumption DEF Taken, PlacesOK, HoldersOK
  <2>3. \A q \in Queues : \A i \in DOMAIN queue[q] : queue[q][i] # env[t]
    BY DEF PlacesOK, QueuesOK, Elements
  <2>4. /\ queue' = [queue EXCEPT ![Home[env[t]]] = Append(@, env[t])]
        /\ step'[t] = "check"
        /\ \A u \in Threads \ {t} : step'[u] = step[u] /\ env'[u] = env[u]
        /\ executed' = executed /\ lost' = lost
    BY <1>0, <1>6, <2>1 DEF AppendToQueue, Goes, history
  <2>5. Taken' = Taken
    BY <2>1, <2>4 DEF Taken
  <2>6. QueuePool!Accept(env[t])
    BY <2>1, <2>2, <2>3, <2>4, <2>5 DEF QueuePool!Accept
  <2> QED  BY <2>1, <2>6 DEF QueuePool!Next
<1>7. ASSUME NEW t \in Threads, Take(t)
      PROVE  [QueuePool!Next]_(QueuePool!poolVars)
  <2>1. /\ step[t] = "take" /\ at[t] \in Queues
        /\ \A u \in Threads \ {t} : step'[u] = step[u] /\ env'[u] = env[u]
        /\ UNCHANGED <<executed, lost>>
    BY <1>0, <1>7 DEF Take, Goes, history
  <2>2. CASE queue[at[t]] # <<>>
    <3>1. /\ queue' = [queue EXCEPT ![at[t]] = Tail(@)]
          /\ step'[t] = "holding" /\ env'[t] = Head(queue[at[t]])
      BY <1>0, <1>7, <2>2 DEF Take, Goes
    <3>2. Taken' = Taken \cup {Head(queue[at[t]])}
      BY <2>1, <3>1 DEF Taken
    <3>3. /\ Cardinality(Taken) < Cardinality(Threads)
          /\ Cardinality({e \in Taken : Home[e] = at[t]}) < MaxConcurrency[at[t]]
      BY <2>1, SlotForTaker
    <3>4. QueuePool!TakeFrom(at[t])
      BY <2>1, <2>2, <3>1, <3>2, <3>3, SameCardinality DEF QueuePool!TakeFrom, QueuePool!TakenFrom
    <3> QED  BY <2>1, <3>4 DEF QueuePool!Next
  <2>3. CASE queue[at[t]] = <<>>
    <3>1. step'[t] = "giveback" /\ queue' = queue
      BY <1>0, <1>7, <2>3 DEF Take, Goes
    <3>2. Taken' = Taken
      BY <2>1, <3>1 DEF Taken
    <3> QED  BY <1>1, <2>1, <3>1, <3>2
  <2> QED  BY <2>2, <2>3
\* The holder t of the envelope has none afterwards.
<1>8. ASSUME NEW t \in Holders, step'[t] \notin {"holding", "running"},
             \A u \in Threads \ {t} : step'[u] = step[u] /\ env'[u] = env[u]
      PROVE  /\ Taken' = Taken \ {env[t]} /\ env[t] \in Taken /\ env[t] \in Envelopes
             /\ env[t] \notin executed \cup lost
  <2>1. t \in Threads /\ env[t] \in Taken /\ Taken \subseteq Envelopes
        /\ env[t] \notin executed \cup lost
    BY TakenByHolders DEF Holders
  <2>2. \A u \in Threads \ {t} : env[u] # env[t]
    BY <2>1, QueueAssumption DEF PlacesOK, HoldersOK
  <2>3. Taken' = Taken \ {env[t]}
    BY <1>8, <2>1, <2>2 DEF Taken
  <2> QED  BY <2>1, <2>3
<1>9. ASSUME NEW t \in Threads, Abandon(t)
      PROVE  QueuePool!Next
  <2>1. /\ t \in Holders /\ step'[t] \notin {"holding", "running"}
        /\ \A u \in Threads \ {t} : step'[u] = step[u] /\ env'[u] = env[u]
        /\ UNCHANGED <<queue, executed>> /\ lost' = lost \cup {env[t]}
    BY <1>0, <1>9 DEF Abandon, Goes, Returns, contents, Holders
  <2>2. /\ Taken' = Taken \ {env[t]} /\ env[t] \in Taken /\ env[t] \in Envelopes
        /\ env[t] \notin executed \cup lost
    BY <1>8, <2>1
  <2>3. lost' \ executed' = (lost \ executed) \cup {env[t]}
    BY <2>1, <2>2
  <2>4. QueuePool!Drop(env[t])
    BY <2>1, <2>2, <2>3 DEF QueuePool!Drop
  <2> QED  BY <2>2, <2>4 DEF QueuePool!Next
<1>10. ASSUME NEW t \in Threads, TaskReturns(t) \/ ReleaseFails(t)
      PROVE  QueuePool!Next
  <2>1. /\ t \in Holders /\ step'[t] \notin {"holding", "running"}
        /\ \A u \in Threads \ {t} : step'[u] = step[u] /\ env'[u] = env[u]
        /\ queue' = queue /\ executed' = executed \cup {env[t]}
        /\ lost' \in {lost, lost \cup {env[t]}}
    BY <1>0, <1>10 DEF TaskReturns, ReleaseFails, Goes, Returns, contents, Holders
  <2>2. /\ Taken' = Taken \ {env[t]} /\ env[t] \in Taken /\ env[t] \in Envelopes
        /\ env[t] \notin executed \cup lost
    BY <1>8, <2>1
  <2>3. lost' \ executed' = lost \ executed
    BY <2>1, <2>2
  <2>4. QueuePool!Finish(env[t])
    BY <2>1, <2>2, <2>3 DEF QueuePool!Finish
  <2> QED  BY <2>2, <2>4 DEF QueuePool!Next
<1>11. ASSUME NEW t \in Threads,
              EnqueueStep(t) \/ DequeueStep(t) \/ ExecuteStep(t)
       PROVE  [QueuePool!Next]_(QueuePool!poolVars)
  BY <1>3, <1>6, <1>7, <1>10, <1>11 DEF EnqueueStep, DequeueStep, ExecuteStep
<1> QED  BY <1>2, <1>3, <1>4, <1>5, <1>9, <1>11 DEF QueueNext

\* Seen without threads and counters, the executors do what TaskPool promises:
\* they take the oldest task, below the limit, and finish or drop it once.
THEOREM QueuesArePool == QueueSpec => QueueImplementsPool
<1>1. QueueInit => QueuePool!Init
  <2> SUFFICES ASSUME QueueInit PROVE QueuePool!Init
    OBVIOUS
  <2>1. Taken = {}
    BY DEF QueueInit, Taken
  <2> QED  BY <2>1 DEF QueueInit, QueuePool!Init
<1>2. QueueSpec => [](PlacesOK /\ AcceptanceOK /\ ConcurrencyLimit)
  BY AcceptanceInvariant, LimitCorrect, PTL
<1>3. PlacesOK /\ AcceptanceOK /\ ConcurrencyLimit /\ [QueueNext]_queueVars
        => [QueuePool!Next]_(QueuePool!poolVars)
  BY StepImplementsPool
<1> QED  BY <1>1, <1>2, <1>3, PTL DEF QueueSpec, QueueImplementsPool, QueuePool!Spec
=============================================================================
