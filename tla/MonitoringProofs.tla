-------------------------- MODULE MonitoringProofs --------------------------
(***************************************************************************)
(* Proofs about Monitoring.  The argument is monotonicity: nothing ever    *)
(* leaves the dictionary, and it has one counter of a name at most, so     *)
(* what one thread has found there once is what every thread will find.    *)
(***************************************************************************)
EXTENDS Monitoring, CopyOnWriteProofs, FiniteSetTheorems

Dictionary == contents[Counters]

\* What thread t has found out, by its stage in Increment.
StageOK(t) ==
    /\ stage[t] \in Stages \ {"ugly"}
    /\ stage[t] # "idle" => name[t] \in Names
    /\ IF stage[t] = "adding"
       THEN /\ step[t] # "idle"
            /\ call[t] = [op |-> "add", cell |-> Counters, item |-> <<name[t], t>>]
            /\ step[t] = "true" => <<name[t], t>> \in Dictionary
            /\ step[t] = "false" => Found(name[t]) # {}
       ELSE step[t] = "idle"
    /\ stage[t] = "again" => Found(name[t]) # {}
    /\ Holding(t) => counter[t] \in Found(name[t])

FrameOK ==
    /\ stage \in [Threads -> Stages]
    /\ name \in [Threads -> Names \cup {NoName}]
    /\ counter \in [Threads -> Items \cup {NoCounter}]
    /\ counted = [i \in Items |-> counted[i]]

MonitorInv ==
    /\ CowInv /\ KeysUnique /\ FrameOK
    /\ \A t \in Threads : StageOK(t)
    /\ \A i \in Items : counted[i] # {} => i \in Dictionary

-----------------------------------------------------------------------------
(* The dictionary *)

\* A step of Increment is a step of the dictionary or leaves it alone.
LEMMA StepIsDictionaryStep ==
    ASSUME MonitorInv, [Next]_vars
    PROVE  [CowNext]_cowVars
<1>1. CASE UNCHANGED vars
  BY <1>1 DEF vars
<1>2. ASSUME NEW t \in Threads, NEW n \in Names, NEW d \in Durations, Increment(t, n, d)
      PROVE  UNCHANGED cowVars
  BY <1>2 DEF Increment
<1>3. ASSUME NEW t \in Threads, ThreadStep(t)
      PROVE  [CowNext]_cowVars
  <2>1. CASE LookupMisses(t)
    <3>1. <<name[t], t>> \in Items /\ Counters \in Cells
      BY <2>1, MonitoringAssumption DEF LookupMisses, Goes, MonitorInv, StageOK
    <3> QED  BY <2>1, <3>1 DEF LookupMisses, CowNext
  <2>2. CASE Adding(t) \/ Added(t) \/ NotAdded(t) \/ AddThrew(t)
    BY <2>2 DEF Adding, Added, NotAdded, AddThrew, CowNext
  <2>3. CASE \/ LookupHits(t) \/ LookupAgain(t) \/ AddEntry(t) \/ AddTotal(t)
             \/ Minimum(t) \/ ExchangeMinimum(t) \/ Maximum(t) \/ ExchangeMaximum(t)
    BY <2>3 DEF LookupHits, LookupAgain, AddEntry, AddTotal, Minimum, Maximum,
                Glance, ReadField, ExchangeMinimum, ExchangeMaximum
  <2> QED  BY <1>3, <2>1, <2>2, <2>3 DEF ThreadStep
<1> QED  BY <1>1, <1>2, <1>3 DEF Next

\* Counters are added and never removed.
LEMMA DictionaryGrows ==
    ASSUME MonitorInv, [Next]_vars
    PROVE  Dictionary \subseteq Dictionary'
<1>1. ASSUME NEW t \in Threads, Installed(t)
      PROVE  Dictionary \subseteq Dictionary'
  <2>1. call[t] = [op |-> "add", cell |-> Counters, item |-> <<name[t], t>>]
    BY <1>1 DEF Installed, Moves, MonitorInv, StageOK
  <2>2. Prepared(t)
    BY <1>1 DEF Installed, Moves, MonitorInv, CowInv, PlanOK
  <2>3. copy[t] = contents[Counters] \cup {call[t].item}
    BY <2>1, <2>2 DEF Prepared, Field
  <2>4. Dictionary' = copy[t]
    BY <1>1, <2>1, MonitoringAssumption DEF Installed, Dictionary, MonitorInv, CowInv, CowTypeOK
  <2> QED  BY <2>3, <2>4 DEF Dictionary
<1>2. UNCHANGED contents \/ \E t \in Threads : Installed(t)
  BY StepIsDictionaryStep DEF CowNext, CallStep, Call, Return, ReadBefore, Refused,
     Accepted, CopyToAdd, CopyThrows, CopyToRemove, Overwritten, cowVars
<1> QED  BY <1>1, <1>2 DEF Dictionary

\* What was found of a name will be found.
LEMMA FoundGrows ==
    ASSUME MonitorInv, [Next]_vars, NEW n
    PROVE  Found(n) \subseteq Found(n)'
BY DictionaryGrows DEF Found, Dictionary

-----------------------------------------------------------------------------
(* The steps of one thread *)

\* The others do not touch what belongs to a thread.
LEMMA OthersKeepStage ==
    ASSUME MonitorInv, [Next]_vars, NEW t \in Threads,
           stage'[t] = stage[t], name'[t] = name[t], counter'[t] = counter[t],
           step'[t] = step[t], call'[t] = call[t]
    PROVE  StageOK(t)'
<1>1. Found(name[t]) \subseteq Found(name[t])'
  BY DictionaryGrows DEF Found, Dictionary
<1>2. Dictionary \subseteq Dictionary'
  BY DictionaryGrows
<1>3. StageOK(t)
  BY DEF MonitorInv
<1> QED  BY <1>1, <1>2, <1>3 DEF StageOK, Holding, Found, Dictionary

\* While a thread is in ThreadSafeAdd, its answer agrees with the dictionary.
LEMMA AddingKeepsStage ==
    ASSUME MonitorInv, [Next]_vars, NEW t \in Threads, Adding(t)
    PROVE  StageOK(t)'
<1>1. /\ stage[t] = "adding" /\ stage' = stage /\ name' = name
      /\ call' = call /\ name[t] \in Names /\ step \in [Threads -> Steps]
      /\ call[t] = [op |-> "add", cell |-> Counters, item |-> <<name[t], t>>]
  BY DEF Adding, frameVars, CallStep, ReadBefore, Refused, Accepted, CopyToAdd,
         CopyThrows, CopyToRemove, Installed, Overwritten, MonitorInv, StageOK,
         CowInv, CowTypeOK
<1>2. /\ step'[t] # "idle"
      /\ step'[t] = "true" => <<name[t], t>> \in Dictionary'
      /\ step'[t] = "false" => Found(name[t])' # {}
  <2>1. CASE \/ ReadBefore(t) \/ Accepted(t) \/ CopyToAdd(t) \/ CopyThrows(t)
             \/ CopyToRemove(t) \/ Overwritten(t)
    <3>1. step'[t] \notin {"idle", "true", "false"}
      BY <1>1, <2>1 DEF ReadBefore, Accepted, CopyToAdd, CopyThrows, CopyToRemove,
                        Overwritten, Moves
    <3> QED  BY <3>1
  <2>2. CASE Refused(t)
    <3>1. step'[t] = "false" /\ contents' = contents /\ KeyFound(t)
      BY <1>1, <2>2 DEF Refused, Moves
    <3>2. PICK j \in contents[Counters] : Key[j] = Key[<<name[t], t>>]
      BY <1>1, <3>1 DEF KeyFound, HasKey, Field
    <3>3. Key[<<name[t], t>>] = name[t]
      BY <1>1, MonitoringAssumption
    <3> QED  BY <1>1, <3>1, <3>2, <3>3 DEF Found
  <2>3. CASE Installed(t)
    <3>1. Prepared(t) /\ step'[t] = "true"
      BY <1>1, <2>3 DEF Installed, Moves, MonitorInv, CowInv, PlanOK
    <3>2. <<name[t], t>> \in copy[t]
      BY <1>1, <3>1 DEF Prepared
    <3>3. Dictionary' = copy[t]
      BY <1>1, <2>3, MonitoringAssumption
         DEF Installed, Dictionary, MonitorInv, CowInv, CowTypeOK
    <3> QED  BY <3>1, <3>2, <3>3
  <2> QED  BY <2>1, <2>2, <2>3 DEF Adding, CallStep
<1> QED  BY <1>1, <1>2 DEF StageOK, Holding, Found, Dictionary, Stages

\* In GetCounter, a thread leaves with the counter the dictionary has.
LEMMA GetCounterKeepsStage ==
    ASSUME MonitorInv, [Next]_vars, NEW t \in Threads,
           \/ \E n \in Names, d \in Durations : Increment(t, n, d)
           \/ LookupHits(t) \/ LookupMisses(t)
           \/ Added(t) \/ NotAdded(t) \/ AddThrew(t) \/ LookupAgain(t)
    PROVE  StageOK(t)'
<1> USE DEF StageOK, Holding, Found, Dictionary, Goes
<1>0. /\ StageOK(t) /\ FrameOK /\ step \in [Threads -> Steps]
      /\ call \in [Threads -> Calls \cup {NoCall}]
  BY DEF MonitorInv, CowInv, CowTypeOK
<1>1. CASE \E n \in Names, d \in Durations : Increment(t, n, d)
  BY <1>0, <1>1 DEF Increment, FrameOK, cowVars, Stages
<1>2. CASE LookupHits(t)
  BY <1>0, <1>2 DEF LookupHits, FrameOK, cowVars, Stages
<1>3. CASE LookupMisses(t)
  BY <1>0, <1>3 DEF LookupMisses, Call, Moves, FrameOK, Stages
<1>4. CASE Added(t)
  <2>1. <<name[t], t>> \in Dictionary /\ name[t] \in Names /\ Key[<<name[t], t>>] = name[t]
    BY <1>0, <1>4, MonitoringAssumption DEF Added
  <2> QED  BY <1>0, <1>4, <2>1 DEF Added, Return, FrameOK, Stages
<1>5. CASE NotAdded(t)
  BY <1>0, <1>5 DEF NotAdded, Return, FrameOK, Stages
<1>6. CASE AddThrew(t)
  BY <1>0, <1>6 DEF AddThrew, Return, FrameOK, Stages
<1>7. CASE LookupAgain(t)
  BY <1>0, <1>7 DEF LookupAgain, FrameOK, cowVars, Stages
<1> QED  BY <1>1, <1>2, <1>3, <1>4, <1>5, <1>6, <1>7

\* In Counter.Increment it stays with that counter.
LEMMA CountingKeepsStage ==
    ASSUME MonitorInv, [Next]_vars, NEW t \in Threads,
           \/ AddEntry(t) \/ AddTotal(t)
           \/ Minimum(t) \/ ExchangeMinimum(t) \/ Maximum(t) \/ ExchangeMaximum(t)
    PROVE  StageOK(t)'
<1>0. StageOK(t) /\ FrameOK
  BY DEF MonitorInv
<1>1. /\ Holding(t)
      /\ stage'[t] \in {"idle", "total", "glance min", "read min", "cas min",
                        "glance max", "read max", "cas max"}
      /\ UNCHANGED cowVars /\ name' = name /\ counter' = counter
  BY <1>0 DEF AddEntry, AddTotal, Minimum, ExchangeMinimum, Maximum, ExchangeMaximum,
              Glance, ReadField, Goes, Holding, Stages, FrameOK
<1> QED  BY <1>0, <1>1 DEF StageOK, Holding, Found, Dictionary, Stages, cowVars

-----------------------------------------------------------------------------
(* The invariant *)

\* Nobody moves another thread.
LEMMA OthersStand ==
    ASSUME MonitorInv, NEW u \in Threads, NEW t \in Threads, t # u,
           \/ \E n \in Names, d \in Durations : Increment(u, n, d)
           \/ ThreadStep(u)
    PROVE  /\ stage'[t] = stage[t] /\ name'[t] = name[t] /\ counter'[t] = counter[t]
           /\ step'[t] = step[t] /\ call'[t] = call[t]
<1> USE DEF MonitorInv, FrameOK, CowInv, CowTypeOK
<1>1. CASE \E n \in Names, d \in Durations : Increment(u, n, d)
  BY <1>1 DEF Increment, Goes, cowVars
<1>2. CASE LookupHits(u) \/ LookupMisses(u) \/ LookupAgain(u)
  BY <1>2 DEF LookupHits, LookupMisses, LookupAgain, Call, Moves, Goes, cowVars
<1>3. CASE Added(u) \/ NotAdded(u) \/ AddThrew(u)
  BY <1>3 DEF Added, NotAdded, AddThrew, Return, Goes
<1>4. CASE Adding(u)
  BY <1>4 DEF Adding, frameVars, CallStep, Moves, ReadBefore, Refused, Accepted,
              CopyToAdd, CopyThrows, CopyToRemove, Installed, Overwritten
<1>5. CASE AddEntry(u) \/ AddTotal(u) \/ ExchangeMinimum(u) \/ ExchangeMaximum(u)
  BY <1>5 DEF AddEntry, AddTotal, ExchangeMinimum, ExchangeMaximum, Goes, cowVars
<1>6. CASE Minimum(u) \/ Maximum(u)
  BY <1>6 DEF Minimum, Maximum, Glance, ReadField, cowVars
<1> QED  BY <1>1, <1>2, <1>3, <1>4, <1>5, <1>6 DEF ThreadStep

LEMMA StepFrame ==
    ASSUME MonitorInv, Next
    PROVE  FrameOK'
<1> USE DEF FrameOK, Goes
<1>0. FrameOK /\ \A t \in Threads : StageOK(t)
  BY DEF MonitorInv
<1>1. ASSUME NEW t \in Threads, NEW n \in Names, NEW d \in Durations, Increment(t, n, d)
      PROVE  FrameOK'
  BY <1>0, <1>1 DEF Increment, Stages
<1>2. ASSUME NEW t \in Threads, ThreadStep(t)
      PROVE  FrameOK'
  <2>0. Found(name[t]) \subseteq Items
    BY MonitoringAssumption DEF Found, MonitorInv, CowInv, CowTypeOK
  <2>1. CASE LookupHits(t)
    BY <1>0, <2>0, <2>1 DEF LookupHits, historyVars, Stages
  <2>8. CASE LookupMisses(t) \/ NotAdded(t) \/ AddThrew(t)
    BY <1>0, <2>8 DEF LookupMisses, NotAdded, AddThrew, historyVars, Stages
  <2>2. CASE Added(t)
    <3>1. <<name[t], t>> \in Items
      BY <1>0, <2>2, MonitoringAssumption DEF Added, StageOK
    <3> QED  BY <1>0, <2>2, <3>1 DEF Added, historyVars, Stages
  <2>3. CASE Adding(t)
    BY <1>0, <2>3 DEF Adding, frameVars, historyVars
  <2>4. CASE LookupAgain(t)
    BY <1>0, <2>0, <2>4 DEF LookupAgain, historyVars, Stages
  <2>5. CASE AddEntry(t)
    <3>1. /\ UNCHANGED <<name, counter>> /\ stage' = [stage EXCEPT ![t] = "total"]
          /\ \E x : counted' = [counted EXCEPT ![counter[t]] = x]
      BY <2>5 DEF AddEntry
    <3>2. counted' = [i \in Items |-> counted'[i]]
      BY <1>0, <3>1
    <3> QED  BY <1>0, <3>1, <3>2 DEF Stages
  <2>6. CASE AddTotal(t) \/ ExchangeMinimum(t) \/ ExchangeMaximum(t)
    BY <1>0, <2>6 DEF AddTotal, ExchangeMinimum, ExchangeMaximum, historyVars, Stages
  <2>7. CASE Minimum(t) \/ Maximum(t)
    BY <1>0, <2>7 DEF Minimum, Maximum, Glance, ReadField, historyVars, Stages
  <2> QED  BY <1>2, <2>1, <2>2, <2>3, <2>4, <2>5, <2>6, <2>7, <2>8 DEF ThreadStep
<1> QED  BY <1>1, <1>2 DEF Next

\* Only a counter of the dictionary is counted in.
LEMMA StepCounted ==
    ASSUME MonitorInv, Next, NEW i \in Items, counted'[i] # {}
    PROVE  i \in Dictionary'
<1>1. Dictionary \subseteq Dictionary'
  BY DictionaryGrows
<1>2. CASE counted'[i] = counted[i]
  BY <1>1, <1>2 DEF MonitorInv
<1>3. ASSUME NEW t \in Threads, AddEntry(t), counted'[i] # counted[i]
      PROVE  i \in Dictionary'
  <2>1. i = counter[t]
    BY <1>3 DEF AddEntry, MonitorInv, FrameOK
  <2>2. Holding(t)
    BY <1>3 DEF AddEntry, Goes, Holding, Stages
  <2>3. counter[t] \in Found(name[t])
    BY <2>2 DEF MonitorInv, StageOK
  <2> QED  BY <1>1, <2>1, <2>3 DEF Found, Dictionary
<1>4. UNCHANGED counted \/ \E t \in Threads : AddEntry(t)
  BY DEF Next, ThreadStep, Increment, LookupHits, LookupMisses, Adding, Added, NotAdded,
         AddThrew, LookupAgain, AddTotal, Minimum, Maximum, Glance, ReadField,
         ExchangeMinimum, ExchangeMaximum, historyVars
<1> QED  BY <1>2, <1>3, <1>4

LEMMA MonitorInit == Init => MonitorInv
<1> SUFFICES ASSUME Init PROVE MonitorInv
  OBVIOUS
<1>1. CowInv
  BY InitInv DEF Init
<1>2. KeysUnique
  BY DEF Init, CowInit, KeysUnique
<1>3. FrameOK
  BY DEF Init, FrameOK, Stages
<1>4. ASSUME NEW t \in Threads PROVE StageOK(t)
  BY DEF Init, CowInit, StageOK, Holding, Stages
<1>5. ASSUME NEW i \in Items PROVE counted[i] = {}
  BY DEF Init
<1> QED  BY <1>1, <1>2, <1>3, <1>4, <1>5 DEF MonitorInv

LEMMA MonitorStep == MonitorInv /\ [Next]_vars => MonitorInv'
<1> SUFFICES ASSUME MonitorInv, [Next]_vars PROVE MonitorInv'
  OBVIOUS
<1>1. CowInv' /\ KeysUnique'
  BY StepIsDictionaryStep, StepInv, StepKeepsKeys DEF MonitorInv
<1>2. CASE UNCHANGED vars
  <2>1. FrameOK'
    BY <1>2 DEF vars, frameVars, historyVars, FrameOK, MonitorInv
  <2>2. ASSUME NEW t \in Threads PROVE StageOK(t)'
    BY <1>2, OthersKeepStage DEF vars, frameVars, cowVars
  <2>3. ASSUME NEW i \in Items PROVE counted'[i] = counted[i] /\ Dictionary' = Dictionary
    BY <1>2 DEF vars, historyVars, cowVars, Dictionary
  <2> QED  BY <1>1, <2>1, <2>2, <2>3 DEF MonitorInv
<1>3. CASE Next
  <2>1. FrameOK' /\ \A i \in Items : counted'[i] # {} => i \in Dictionary'
    BY <1>3, StepFrame, StepCounted
  <2>2. PICK u \in Threads :
           (\E n \in Names, d \in Durations : Increment(u, n, d)) \/ ThreadStep(u)
    BY <1>3 DEF Next
  <2>3. ASSUME NEW t \in Threads PROVE StageOK(t)'
    <3>1. CASE t = u
      BY <2>2, <3>1, AddingKeepsStage, GetCounterKeepsStage, CountingKeepsStage DEF ThreadStep
    <3>2. CASE t # u
      BY <2>2, <3>2, OthersStand, OthersKeepStage
    <3> QED  BY <3>1, <3>2
  <2> QED  BY <1>1, <2>1, <2>3 DEF MonitorInv
<1> QED  BY <1>2, <1>3

LEMMA MonitorInvHolds == Spec => []MonitorInv
BY MonitorInit, MonitorStep, PTL DEF Spec

-----------------------------------------------------------------------------
(* Theorems *)

\* The exception "Some ugly race condition. Take a closer look at monitor
\* class." is never thrown, for any number of threads and counters.
THEOREM NoUglyRaceCorrect == Spec => []NoUglyRace
<1>1. MonitorInv => NoUglyRace
  BY DEF MonitorInv, StageOK, NoUglyRace
<1> QED  BY <1>1, MonitorInvHolds, PTL

\* All threads count a name in the one counter the dictionary has for it.
THEOREM OneCounterCorrect == Spec => []OneCounterPerName
<1>1. ASSUME MonitorInv PROVE OneCounterPerName
  <2>1. ASSUME NEW t \in Threads, Holding(t)
        PROVE  Found(name[t]) = {counter[t]}
    <3>1. counter[t] \in Found(name[t])
      BY <1>1, <2>1 DEF MonitorInv, StageOK
    <3>2. \A i, j \in Found(name[t]) : i = j
      BY <1>1, MonitoringAssumption DEF Found, MonitorInv, KeysUnique
    <3> QED  BY <3>1, <3>2
  <2> QED  BY <1>1, <2>1 DEF OneCounterPerName, MonitorInv, Dictionary
<1> QED  BY <1>1, MonitorInvHolds, PTL

-----------------------------------------------------------------------------
(* The numbers of a counter *)

\* The durations are those of calls that have begun.
NumbersOK ==
    /\ duration \in [Threads -> Durations \cup {0}]
    /\ seen \in [Threads -> 0..MaxValue]
    /\ entries \in [Items -> Nat]
    /\ total \in [Items -> Nat]
    /\ minimum \in [Items -> 0..MaxValue]
    /\ maximum \in [Items -> 0..MaxValue]
    /\ called \in [Threads -> 0..MaxIncrements]
    /\ \A i \in Items : counted[i] \subseteq Threads \X (1..MaxIncrements) \X Durations
    /\ failed \subseteq Threads \X (1..MaxIncrements)
    /\ \A t \in Threads : stage[t] # "idle" => called[t] # 0 /\ duration[t] \in Durations

LEMMA InitNumbers == Init => NumbersOK
BY MonitoringAssumption DEF Init, NumbersOK

\* In GetCounter the numbers stand still.
LEMMA LookingKeepsNumbers ==
    ASSUME MonitorInv, NumbersOK, NEW t \in Threads,
           \/ LookupHits(t) \/ LookupMisses(t) \/ Adding(t)
           \/ Added(t) \/ NotAdded(t) \/ AddThrew(t) \/ LookupAgain(t)
    PROVE  NumbersOK'
<1>1. /\ stage[t] # "idle"
      /\ \A u \in Threads \ {t} : stage'[u] = stage[u]
      /\ UNCHANGED <<duration, seen, counterVars, called, counted>>
      /\ failed' = failed \/ failed' = failed \cup {<<t, called[t]>>}
  BY DEF LookupHits, LookupMisses, Adding, Added, NotAdded, AddThrew, LookupAgain,
     Goes, frameVars, historyVars, MonitorInv, FrameOK
<1>2. called[t] \in 1..MaxIncrements
  BY <1>1, MonitoringAssumption DEF NumbersOK
<1>3. failed' \subseteq Threads \X (1..MaxIncrements)
  BY <1>1, <1>2 DEF NumbersOK
<1> QED  BY <1>1, <1>3 DEF NumbersOK, counterVars

LEMMA HoldsAnItem ==
    ASSUME MonitorInv, NEW t \in Threads, Holding(t)
    PROVE  counter[t] \in Items
<1>1. counter[t] \in contents[Counters]
  BY DEF MonitorInv, StageOK, Found
<1>2. contents[Counters] \subseteq Items
  BY MonitoringAssumption DEF MonitorInv, CowInv, CowTypeOK
<1> QED  BY <1>1, <1>2

LEMMA StepNumbers ==
    ASSUME MonitorInv, NumbersOK, Next
    PROVE  NumbersOK'
<1>0. /\ stage \in [Threads -> Stages] /\ counted = [i \in Items |-> counted[i]]
      /\ MaxIncrements \in Nat /\ MaxValue \in Nat /\ Durations \subseteq 0..MaxValue
  BY MonitoringAssumption DEF MonitorInv, FrameOK
<1>1. ASSUME NEW t \in Threads, NEW n \in Names, NEW d \in Durations, Increment(t, n, d)
      PROVE  NumbersOK'
  <2>1. /\ UNCHANGED <<seen, counterVars, counted, failed>>
        /\ stage' = [stage EXCEPT ![t] = "lookup"]
        /\ duration' = [duration EXCEPT ![t] = d]
        /\ called' = [called EXCEPT ![t] = @ + 1] /\ called[t] < MaxIncrements
    BY <1>1 DEF Increment, Goes
  <2>2. duration' \in [Threads -> Durations \cup {0}]
    BY <2>1 DEF NumbersOK
  <2>3. called' \in [Threads -> 0..MaxIncrements] /\ called'[t] # 0
    BY <1>0, <2>1 DEF NumbersOK
  <2> QED  BY <1>0, <2>1, <2>2, <2>3 DEF NumbersOK, counterVars
<1>2. ASSUME NEW t \in Threads, ThreadStep(t)
      PROVE  NumbersOK'
  <2>1. CASE \/ LookupHits(t) \/ LookupMisses(t) \/ Adding(t)
             \/ Added(t) \/ NotAdded(t) \/ AddThrew(t) \/ LookupAgain(t)
    BY <2>1, LookingKeepsNumbers
  <2>2. CASE AddEntry(t) \/ AddTotal(t) \/ ExchangeMinimum(t) \/ ExchangeMaximum(t)
             \/ Minimum(t) \/ Maximum(t)
    <3>1. Holding(t) /\ stage[t] # "idle" /\ duration' = duration /\ called' = called
          /\ failed' = failed
          /\ \A u \in Threads \ {t} : stage'[u] = stage[u]
      BY <1>0, <2>2 DEF AddEntry, AddTotal, ExchangeMinimum, ExchangeMaximum, Minimum, Maximum,
         Glance, ReadField, Goes, historyVars, Holding, Stages
    <3>2. /\ counter[t] \in Items
          /\ duration[t] \in Durations /\ duration[t] \in 0..MaxValue /\ duration[t] \in Nat
          /\ called[t] \in 1..MaxIncrements
      <4>1. counter[t] \in Items
        BY <3>1, HoldsAnItem
      <4>2. called[t] # 0 /\ duration[t] \in Durations /\ called[t] \in 0..MaxIncrements
        BY <3>1 DEF NumbersOK
      <4>3. duration[t] \in 0..MaxValue
        BY <1>0, <4>2
      <4> QED  BY <1>0, <4>1, <4>2, <4>3
    <3>3. /\ seen' \in [Threads -> 0..MaxValue]
          /\ minimum' \in [Items -> 0..MaxValue] /\ maximum' \in [Items -> 0..MaxValue]
      <4>1. CASE AddEntry(t) \/ AddTotal(t)
        BY <4>1 DEF NumbersOK, AddEntry, AddTotal
      <4>2. CASE Minimum(t) \/ Maximum(t)
        <5>1. UNCHANGED <<minimum, maximum>>
          BY <4>2 DEF Minimum, Maximum, Glance, ReadField, counterVars
        <5>2. /\ minimum[counter[t]] \in 0..MaxValue
              /\ maximum[counter[t]] \in 0..MaxValue
              /\ 0 \in 0..MaxValue
          BY <1>0, <3>2 DEF NumbersOK
        <5>3. PICK b \in 0..MaxValue : seen' = seen \/ seen' = [seen EXCEPT ![t] = b]
          BY <4>2, <5>2 DEF Minimum, Maximum, Glance, ReadField
        <5>4. seen' \in [Threads -> 0..MaxValue]
          BY <5>3 DEF NumbersOK
        <5> QED  BY <5>1, <5>4 DEF NumbersOK
      <4>3. CASE ExchangeMinimum(t) \/ ExchangeMaximum(t)
        <5>1. /\ minimum' = minimum \/ minimum' = [minimum EXCEPT ![counter[t]] = duration[t]]
              /\ maximum' = maximum \/ maximum' = [maximum EXCEPT ![counter[t]] = duration[t]]
              /\ seen' = [seen EXCEPT ![t] = 0]
          BY <4>3 DEF ExchangeMinimum, ExchangeMaximum
        <5>2. seen' \in [Threads -> 0..MaxValue]
          BY <1>0, <5>1 DEF NumbersOK
        <5>3. minimum' \in [Items -> 0..MaxValue]
          BY <3>2, <5>1 DEF NumbersOK
        <5>4. maximum' \in [Items -> 0..MaxValue]
          BY <3>2, <5>1 DEF NumbersOK
        <5> QED  BY <5>2, <5>3, <5>4
      <4> QED  BY <2>2, <4>1, <4>2, <4>3
    <3>4. entries' \in [Items -> Nat] /\ total' \in [Items -> Nat]
      <4>1. CASE AddEntry(t)
        BY <3>2, <4>1 DEF NumbersOK, AddEntry
      <4>2. CASE AddTotal(t)
        <5>1. entries' = entries /\ total' = [total EXCEPT ![counter[t]] = @ + duration[t]]
          BY <4>2 DEF AddTotal
        <5>2. total[counter[t]] \in Nat
          BY <3>2 DEF NumbersOK
        <5>3. PICK n \in Nat : n = total[counter[t]] + duration[t]
          BY <3>2, <5>2
        <5>4. total' = [total EXCEPT ![counter[t]] = n]
          BY <5>1, <5>3
        <5> QED  BY <5>1, <5>4 DEF NumbersOK
      <4>3. CASE ExchangeMinimum(t) \/ ExchangeMaximum(t) \/ Minimum(t) \/ Maximum(t)
        BY <4>3 DEF NumbersOK, ExchangeMinimum, ExchangeMaximum, Minimum, Maximum, Glance,
           ReadField, counterVars
      <4> QED  BY <2>2, <4>1, <4>2, <4>3
    <3>5. ASSUME NEW i \in Items
          PROVE  counted'[i] \subseteq Threads \X (1..MaxIncrements) \X Durations
      <4>1. CASE AddEntry(t)
        <5>1. counted'[i] = counted[i] \/ counted'[i] = counted[i] \cup {<<t, called[t], duration[t]>>}
          BY <1>0, <4>1 DEF AddEntry
        <5> QED  BY <3>2, <5>1 DEF NumbersOK
      <4>2. CASE AddTotal(t) \/ ExchangeMinimum(t) \/ ExchangeMaximum(t) \/ Minimum(t) \/ Maximum(t)
        BY <4>2 DEF NumbersOK, AddTotal, ExchangeMinimum, ExchangeMaximum, Minimum, Maximum,
           Glance, ReadField, historyVars
      <4> QED  BY <2>2, <4>1, <4>2
    <3> QED  BY <3>1, <3>2, <3>3, <3>4, <3>5 DEF NumbersOK
  <2> QED  BY <1>2, <2>1, <2>2 DEF ThreadStep
<1> QED  BY <1>1, <1>2 DEF Next

LEMMA NumbersHold == Spec => []NumbersOK
<1>1. MonitorInv /\ NumbersOK /\ [Next]_vars => NumbersOK'
  <2> SUFFICES ASSUME MonitorInv, NumbersOK, [Next]_vars PROVE NumbersOK'
    OBVIOUS
  <2>1. CASE UNCHANGED vars
    BY <2>1 DEF vars, frameVars, counterVars, historyVars, NumbersOK
  <2> QED  BY <2>1, StepNumbers
<1> QED  BY <1>1, InitNumbers, MonitorInvHolds, PTL DEF Spec

\* The variables of monitor and counters keep their types.
THEOREM MonitoringTypeCorrect == Spec => []MonitoringTypeOK
<1>1. ASSUME MonitorInv, NumbersOK PROVE MonitoringTypeOK
  <2>1. ASSUME NEW t \in Threads, Holding(t) PROVE counter[t] \in Items
    BY <1>1, <2>1, MonitoringAssumption DEF MonitorInv, StageOK, Found, CowInv, CowTypeOK
  <2> QED  BY <1>1, <2>1 DEF MonitorInv, CowInv, FrameOK, NumbersOK, MonitoringTypeOK
<1> QED  BY <1>1, MonitorInvHolds, NumbersHold, PTL

-----------------------------------------------------------------------------
(* The extremes: a minimum only falls and a maximum only rises *)

\* The stages of a call between its entry and its end, and those in which the
\* minimum may not know its duration yet.
MinOpen == {"total", "glance min", "read min", "cas min"}
AfterEntries == MinOpen \cup {"glance max", "read max", "cas max"}

\* The call that the entry c belongs to is in one of those stages.
In(c, stages) == c[2] = called[c[1]] /\ stage[c[1]] \in stages

EntryOK(i, c) ==
    /\ c[2] <= called[c[1]]
    /\ c[2] = called[c[1]] => stage[c[1]] \in AfterEntries \cup {"idle"}
    /\ In(c, AfterEntries) => c[3] = duration[c[1]] /\ counter[c[1]] = i
    /\ ~ In(c, MinOpen) => minimum[i] <= c[3]
    /\ ~ In(c, AfterEntries) => c[3] <= maximum[i]

\* What a thread is about to write is a duration that was counted.
WriterOK(t) ==
    /\ stage[t] \in AfterEntries =>
          <<t, called[t], duration[t]>> \in counted[counter[t]]
    /\ stage[t] = "cas min" => duration[t] <= seen[t]
    /\ stage[t] = "cas max" => seen[t] <= duration[t]

ExtremeOK(i) ==
    /\ minimum[i] \in DurationsOf(i) \cup {MaxValue}
    /\ maximum[i] \in DurationsOf(i) \cup {0}

ExtremesOK ==
    /\ \A t \in Threads : WriterOK(t)
    /\ \A i \in Items : ExtremeOK(i) /\ \A c \in counted[i] : EntryOK(i, c)

LEMMA InitExtremes == Init => ExtremesOK
BY DEF Init, ExtremesOK, WriterOK, ExtremeOK, AfterEntries, MinOpen

LEMMA NumbersAreIntegers ==
    ASSUME NumbersOK, NEW i \in Items
    PROVE  /\ minimum[i] \in 0..MaxValue /\ maximum[i] \in 0..MaxValue
           /\ minimum[i] \in Int /\ maximum[i] \in Int
           /\ \A c \in counted[i] : /\ c \in Threads \X (1..MaxIncrements) \X Durations
                                   /\ c[1] \in Threads /\ c[2] \in Int
                                   /\ c[3] \in Int /\ c[3] \in 0..MaxValue
<1>1. minimum[i] \in 0..MaxValue /\ maximum[i] \in 0..MaxValue
  BY DEF NumbersOK
<1>2. ASSUME NEW c \in counted[i]
      PROVE  /\ c \in Threads \X (1..MaxIncrements) \X Durations
             /\ c[1] \in Threads /\ c[2] \in Int
             /\ c[3] \in Int /\ c[3] \in 0..MaxValue
  <2>1. c \in Threads \X (1..MaxIncrements) \X Durations
    BY DEF NumbersOK
  <2>2. c[1] \in Threads /\ c[2] \in 1..MaxIncrements /\ c[3] \in Durations
    BY <2>1
  <2>3. Durations \subseteq 0..MaxValue
    BY MonitoringAssumption
  <2>4. \A m, x : x \in m..MaxValue \/ x \in m..MaxIncrements => x \in Int
    OBVIOUS
  <2>5. c[2] \in Int /\ c[3] \in 0..MaxValue /\ c[3] \in Int
    BY <2>2, <2>3, <2>4, Zenon
  <2> QED  BY <2>1, <2>2, <2>5
<1> QED  BY <1>1, <1>2, MonitoringAssumption

\* A step that changes nothing of the caller and keeps the extremes monotone
\* keeps the entry.
LEMMA EntryStands ==
    ASSUME MonitorInv, NumbersOK, NEW i \in Items, NEW c \in counted[i], EntryOK(i, c),
           /\ stage'[c[1]] = stage[c[1]] /\ duration'[c[1]] = duration[c[1]]
           /\ called'[c[1]] = called[c[1]] /\ counter'[c[1]] = counter[c[1]],
           minimum'[i] <= minimum[i], maximum[i] <= maximum'[i],
           minimum'[i] \in Int, maximum'[i] \in Int
    PROVE  EntryOK(i, c)'
<1>1. c[3] \in Int /\ minimum[i] \in Int /\ maximum[i] \in Int
  BY NumbersAreIntegers
<1>2. \A a, b, d \in Int : a <= b /\ b <= d => a <= d
  OBVIOUS
<1>3. /\ c[2] <= called'[c[1]]
      /\ c[2] = called'[c[1]] => stage'[c[1]] \in AfterEntries \cup {"idle"}
      /\ c[2] = called'[c[1]] /\ stage'[c[1]] \in AfterEntries =>
            c[3] = duration'[c[1]] /\ counter'[c[1]] = i
  BY DEF EntryOK, In
<1>4. ~ (c[2] = called'[c[1]] /\ stage'[c[1]] \in MinOpen) => minimum'[i] <= c[3]
  BY <1>1, <1>2 DEF EntryOK, In
<1>5. ~ (c[2] = called'[c[1]] /\ stage'[c[1]] \in AfterEntries) => c[3] <= maximum'[i]
  BY <1>1, <1>2 DEF EntryOK, In
<1> QED  BY <1>3, <1>4, <1>5 DEF EntryOK, In

\* A step of the caller: either its call has not come to the entries, so that
\* c belongs to an earlier call, or it leaves a part of the extremes behind
\* when they enclose its duration.
LEMMA EntryOfCaller ==
    ASSUME MonitorInv, NumbersOK, NEW i \in Items, NEW c \in counted[i], EntryOK(i, c),
           duration'[c[1]] = duration[c[1]], called'[c[1]] = called[c[1]],
           minimum'[i] <= minimum[i], maximum[i] <= maximum'[i],
           minimum'[i] \in Int, maximum'[i] \in Int,
           \/ stage[c[1]] \notin AfterEntries \cup {"idle"}
           \/ /\ stage[c[1]] \in AfterEntries /\ stage'[c[1]] \in AfterEntries \cup {"idle"}
              /\ counter'[c[1]] = counter[c[1]]
              /\ stage'[c[1]] \notin MinOpen =>
                    stage[c[1]] \notin MinOpen \/ minimum'[counter[c[1]]] <= duration[c[1]]
              /\ stage'[c[1]] = "idle" => duration[c[1]] <= maximum'[counter[c[1]]]
    PROVE  EntryOK(i, c)'
<1>1. c[3] \in Int /\ minimum[i] \in Int /\ maximum[i] \in Int
  BY NumbersAreIntegers
<1>2. \A a, b, d \in Int : a <= b /\ b <= d => a <= d
  OBVIOUS
<1>3. c[2] <= called'[c[1]]
  BY DEF EntryOK
<1>4. CASE c[2] # called[c[1]]
  <2>1. minimum[i] <= c[3] /\ c[3] <= maximum[i]
    BY <1>4 DEF EntryOK, In
  <2>2. minimum'[i] <= c[3] /\ c[3] <= maximum'[i]
    BY <1>1, <1>2, <2>1
  <2> QED  BY <1>3, <1>4, <2>2 DEF EntryOK, In
<1>5. CASE c[2] = called[c[1]]
  <2>1. /\ stage[c[1]] \in AfterEntries /\ stage'[c[1]] \in AfterEntries \cup {"idle"}
        /\ counter'[c[1]] = counter[c[1]]
        /\ stage'[c[1]] \notin MinOpen =>
              stage[c[1]] \notin MinOpen \/ minimum'[counter[c[1]]] <= duration[c[1]]
        /\ stage'[c[1]] = "idle" => duration[c[1]] <= maximum'[counter[c[1]]]
    BY <1>5 DEF EntryOK
  <2>2. c[3] = duration[c[1]] /\ counter[c[1]] = i
    BY <1>5, <2>1 DEF EntryOK, In
  <2>3. stage'[c[1]] \notin MinOpen => minimum'[i] <= c[3]
    <3>1. CASE stage[c[1]] \notin MinOpen
      <4>1. minimum[i] <= c[3]
        BY <3>1 DEF EntryOK, In
      <4> QED  BY <1>1, <1>2, <4>1
    <3> QED  BY <2>1, <2>2, <3>1
  <2>4. stage'[c[1]] \notin AfterEntries => c[3] <= maximum'[i]
    BY <2>1, <2>2
  <2> QED  BY <1>3, <1>5, <2>1, <2>2, <2>3, <2>4 DEF EntryOK, In
<1> QED  BY <1>4, <1>5

\* Steps of GetCounter.
LEMMA LookingKeepsExtremes ==
    ASSUME MonitorInv, NumbersOK, ExtremesOK, NEW t \in Threads,
           \/ LookupHits(t) \/ LookupMisses(t) \/ Adding(t)
           \/ Added(t) \/ NotAdded(t) \/ AddThrew(t) \/ LookupAgain(t)
    PROVE  ExtremesOK'
<1>1. /\ stage[t] \notin AfterEntries \cup {"idle"}
      /\ stage'[t] \notin AfterEntries
      /\ \A u \in Threads \ {t} : stage'[u] = stage[u] /\ counter'[u] = counter[u]
      /\ UNCHANGED <<duration, seen, counterVars, called, counted>>
  BY DEF LookupHits, LookupMisses, Adding, Added, NotAdded, AddThrew, LookupAgain,
     Goes, frameVars, historyVars, MonitorInv, FrameOK, AfterEntries, MinOpen
<1>2. ASSUME NEW u \in Threads PROVE WriterOK(u)'
  <2>1. CASE u = t
    <3>1. stage'[t] # "cas min" /\ stage'[t] # "cas max"
      BY <1>1 DEF AfterEntries, MinOpen
    <3> QED  BY <1>1, <2>1, <3>1 DEF WriterOK
  <2>2. CASE u # t
    BY <1>1, <2>2 DEF WriterOK, ExtremesOK
  <2> QED  BY <2>1, <2>2
<1>3. ASSUME NEW i \in Items PROVE ExtremeOK(i)'
  BY <1>1 DEF ExtremeOK, ExtremesOK, DurationsOf, counterVars
<1>4. ASSUME NEW i \in Items, NEW c \in counted[i] PROVE EntryOK(i, c)'
  <2>1. EntryOK(i, c) /\ c[1] \in Threads
    BY NumbersAreIntegers DEF ExtremesOK
  <2>2. /\ minimum'[i] <= minimum[i] /\ maximum[i] <= maximum'[i]
        /\ minimum'[i] \in Int /\ maximum'[i] \in Int
    BY <1>1, NumbersAreIntegers DEF counterVars
  <2>3. CASE c[1] = t
    BY <1>1, <2>1, <2>2, <2>3, EntryOfCaller
  <2>4. CASE c[1] # t
    BY <1>1, <2>1, <2>2, <2>4, EntryStands
  <2> QED  BY <2>3, <2>4
<1> QED  BY <1>1, <1>2, <1>3, <1>4 DEF ExtremesOK

\* A call begins: no entry belongs to it.
LEMMA BeginKeepsExtremes ==
    ASSUME MonitorInv, NumbersOK, ExtremesOK,
           NEW t \in Threads, NEW n \in Names, NEW d \in Durations, Increment(t, n, d)
    PROVE  ExtremesOK'
<1>1. /\ stage[t] = "idle" /\ stage'[t] = "lookup"
      /\ called'[t] = called[t] + 1
      /\ \A u \in Threads \ {t} : /\ stage'[u] = stage[u] /\ duration'[u] = duration[u]
                                  /\ called'[u] = called[u]
      /\ UNCHANGED <<counter, seen, counterVars, counted>>
  BY DEF Increment, Goes, MonitorInv, FrameOK, NumbersOK
<1>2. ASSUME NEW u \in Threads PROVE WriterOK(u)'
  <2>1. CASE u = t
    BY <1>1, <2>1 DEF WriterOK, AfterEntries, MinOpen
  <2>2. CASE u # t
    BY <1>1, <2>2 DEF WriterOK, ExtremesOK
  <2> QED  BY <2>1, <2>2
<1>3. ASSUME NEW i \in Items PROVE ExtremeOK(i)'
  BY <1>1 DEF ExtremeOK, ExtremesOK, DurationsOf, counterVars
<1>4. ASSUME NEW i \in Items, NEW c \in counted[i] PROVE EntryOK(i, c)'
  <2>1. EntryOK(i, c) /\ c[1] \in Threads /\ c[2] \in Int
    BY NumbersAreIntegers DEF ExtremesOK
  <2>2. /\ minimum'[i] <= minimum[i] /\ maximum[i] <= maximum'[i]
        /\ minimum'[i] \in Int /\ maximum'[i] \in Int
    BY <1>1, NumbersAreIntegers DEF counterVars
  <2>3. CASE c[1] = t
    <3>1. called[t] \in Int /\ c[2] <= called[t]
      BY <2>1, <2>3, MonitoringAssumption DEF EntryOK, NumbersOK
    <3>2. \A a, b \in Int : a <= b => a <= b + 1 /\ a # b + 1
      OBVIOUS
    <3>3. c[2] <= called'[t] /\ c[2] # called'[t]
      BY <1>1, <2>1, <3>1, <3>2
    <3>4. minimum'[i] <= c[3] /\ c[3] <= maximum'[i]
      BY <1>1, <2>1, <2>3 DEF EntryOK, In, AfterEntries, MinOpen, counterVars
    <3> QED  BY <2>3, <3>3, <3>4 DEF EntryOK, In
  <2>4. CASE c[1] # t
    BY <1>1, <2>1, <2>2, <2>4, EntryStands
  <2> QED  BY <2>3, <2>4
<1> QED  BY <1>1, <1>2, <1>3, <1>4 DEF ExtremesOK

\* The call comes to the entries.
LEMMA EntryKeepsExtremes ==
    ASSUME MonitorInv, NumbersOK, ExtremesOK, NEW t \in Threads, AddEntry(t)
    PROVE  ExtremesOK'
<1>1. /\ stage[t] = "entries" /\ stage'[t] = "total"
      /\ \A u \in Threads \ {t} : stage'[u] = stage[u]
      /\ UNCHANGED <<duration, counter, seen, minimum, maximum, called>>
  BY DEF AddEntry, Goes, MonitorInv, FrameOK
<1>2. counter[t] \in Items
  BY <1>1, HoldsAnItem DEF Holding, Stages
<1>3. /\ counted'[counter[t]] = counted[counter[t]] \cup {<<t, called[t], duration[t]>>}
      /\ \A i \in Items \ {counter[t]} : counted'[i] = counted[i]
  BY <1>2 DEF AddEntry, MonitorInv, FrameOK
<1>4. ASSUME NEW u \in Threads PROVE WriterOK(u)'
  <2>1. CASE u = t
    BY <1>1, <1>3, <2>1 DEF WriterOK
  <2>2. CASE u # t
    <3>1. WriterOK(u) /\ stage'[u] = stage[u]
      BY <1>1, <2>2 DEF ExtremesOK
    <3>2. stage[u] \in AfterEntries => counter[u] \in Items
      BY HoldsAnItem DEF AfterEntries, MinOpen, Holding, Stages
    <3> QED  BY <1>1, <1>3, <3>1, <3>2 DEF WriterOK
  <2> QED  BY <2>1, <2>2
<1>5. ASSUME NEW i \in Items PROVE ExtremeOK(i)'
  <2>1. ExtremeOK(i) /\ counted[i] \subseteq counted'[i]
    BY <1>3 DEF ExtremesOK
  <2> QED  BY <1>1, <2>1 DEF ExtremeOK, DurationsOf
<1>6. ASSUME NEW i \in Items, NEW c \in counted'[i] PROVE EntryOK(i, c)'
  <2>1. CASE c \in counted[i]
    <3>1. EntryOK(i, c) /\ c[1] \in Threads
      BY <2>1, NumbersAreIntegers DEF ExtremesOK
    <3>2. /\ minimum'[i] <= minimum[i] /\ maximum[i] <= maximum'[i]
          /\ minimum'[i] \in Int /\ maximum'[i] \in Int
      BY <1>1, NumbersAreIntegers
    <3>3. CASE c[1] = t
      <4>1. stage[c[1]] \notin AfterEntries \cup {"idle"}
        BY <1>1, <3>3 DEF AfterEntries, MinOpen
      <4> QED  BY <1>1, <2>1, <3>1, <3>2, <4>1, EntryOfCaller
    <3>4. CASE c[1] # t
      BY <1>1, <2>1, <3>1, <3>2, <3>4, EntryStands
    <3> QED  BY <3>3, <3>4
  <2>2. CASE c \notin counted[i]
    <3>1. i = counter[t] /\ c = <<t, called[t], duration[t]>>
      BY <1>3, <2>2
    <3>2. c[1] = t /\ c[2] = called[t] /\ c[3] = duration[t]
      BY <3>1
    <3>3. called[t] \in Int
      BY MonitoringAssumption DEF NumbersOK
    <3>4. c[2] <= called[t]
      BY <3>2, <3>3
    <3> QED  BY <1>1, <3>1, <3>2, <3>4 DEF EntryOK, In, AfterEntries, MinOpen
  <2> QED  BY <2>1, <2>2
<1> QED  BY <1>4, <1>5, <1>6 DEF ExtremesOK

LEMMA AtMostItself == \A a \in Int : a <= a
OBVIOUS

\* Whatever SetData does, it writes the duration where that is an improvement,
\* and gives up where it is none.
LEMMA ImprovingKeepsExtremes ==
    ASSUME MonitorInv, NumbersOK, ExtremesOK, NEW t \in Threads,
           stage[t] \in AfterEntries, stage'[t] \in AfterEntries \cup {"idle"},
           \A u \in Threads \ {t} : stage'[u] = stage[u] /\ seen'[u] = seen[u],
           UNCHANGED <<duration, counter, called, counted>>,
           \/ minimum' = minimum
           \/ /\ minimum' = [minimum EXCEPT ![counter[t]] = duration[t]]
              /\ duration[t] <= minimum[counter[t]],
           \/ maximum' = maximum
           \/ /\ maximum' = [maximum EXCEPT ![counter[t]] = duration[t]]
              /\ maximum[counter[t]] <= duration[t],
           stage'[t] \notin MinOpen =>
                    stage[t] \notin MinOpen \/ minimum'[counter[t]] <= duration[t],
           stage'[t] = "idle" => duration[t] <= maximum'[counter[t]],
           stage'[t] = "cas min" => duration[t] <= seen'[t],
           stage'[t] = "cas max" => seen'[t] <= duration[t]
    PROVE  ExtremesOK'
<1>1. <<t, called[t], duration[t]>> \in counted[counter[t]]
  BY DEF ExtremesOK, WriterOK
<1>2. counter[t] \in Items /\ duration[t] \in Int
  <2>1. Holding(t)
    BY DEF AfterEntries, MinOpen, Holding, Stages
  <2>2. counter[t] \in Items
    BY <2>1, HoldsAnItem
  <2>3. <<t, called[t], duration[t]>>[3] \in Int
    BY <1>1, <2>2, NumbersAreIntegers
  <2> QED  BY <2>2, <2>3
<1>3. duration[t] \in DurationsOf(counter[t])
  <2>1. <<t, called[t], duration[t]>>[3] = duration[t]
    OBVIOUS
  <2> QED  BY <1>1, <2>1 DEF DurationsOf
<1>4. ASSUME NEW u \in Threads PROVE WriterOK(u)'
  <2>1. CASE u = t
    BY <1>1, <2>1 DEF WriterOK
  <2>2. CASE u # t
    BY <2>2 DEF WriterOK, ExtremesOK
  <2> QED  BY <2>1, <2>2
<1>5. ASSUME NEW i \in Items
      PROVE  /\ \/ minimum'[i] = minimum[i]
                \/ i = counter[t] /\ minimum'[i] = duration[t] /\ duration[t] <= minimum[i]
             /\ \/ maximum'[i] = maximum[i]
                \/ i = counter[t] /\ maximum'[i] = duration[t] /\ maximum[i] <= duration[t]
  <2>1. minimum \in [Items -> 0..MaxValue] /\ maximum \in [Items -> 0..MaxValue]
    BY DEF NumbersOK
  <2> QED  BY <2>1
<1>6. ASSUME NEW i \in Items PROVE ExtremeOK(i)'
  <2>1. ExtremeOK(i) /\ DurationsOf(i)' = DurationsOf(i)
    BY DEF ExtremesOK, DurationsOf
  <2> QED  BY <1>3, <1>5, <2>1 DEF ExtremeOK
<1>7. ASSUME NEW i \in Items, NEW c \in counted[i] PROVE EntryOK(i, c)'
  <2>1. EntryOK(i, c) /\ c[1] \in Threads
    BY NumbersAreIntegers DEF ExtremesOK
  <2>2. /\ minimum'[i] <= minimum[i] /\ maximum[i] <= maximum'[i]
        /\ minimum'[i] \in Int /\ maximum'[i] \in Int
    <3>1. minimum[i] \in Int /\ maximum[i] \in Int
      BY NumbersAreIntegers
    <3>2. \A a \in Int : a <= a
      BY AtMostItself
    <3>3. minimum'[i] <= minimum[i] /\ minimum'[i] \in Int
      <4>1. CASE minimum'[i] = minimum[i]
        BY <3>1, <3>2, <4>1, Zenon
      <4>2. CASE minimum'[i] = duration[t] /\ duration[t] <= minimum[i]
        BY <1>2, <4>2, Zenon
      <4> QED  BY <1>5, <4>1, <4>2
    <3>4. maximum[i] <= maximum'[i] /\ maximum'[i] \in Int
      <4>1. CASE maximum'[i] = maximum[i]
        BY <3>1, <3>2, <4>1, Zenon
      <4>2. CASE maximum'[i] = duration[t] /\ maximum[i] <= duration[t]
        BY <1>2, <4>2, Zenon
      <4> QED  BY <1>5, <4>1, <4>2
    <3> QED  BY <3>3, <3>4
  <2>3. CASE c[1] = t
    BY <2>1, <2>2, <2>3, EntryOfCaller
  <2>4. CASE c[1] # t
    BY <2>1, <2>2, <2>4, EntryStands
  <2> QED  BY <2>3, <2>4
<1> QED  BY <1>4, <1>6, <1>7 DEF ExtremesOK

\* The steps of Counter.Increment after the entries.
LEMMA CountingKeepsExtremes ==
    ASSUME MonitorInv, NumbersOK, ExtremesOK, NEW t \in Threads,
           \/ AddTotal(t) \/ Minimum(t) \/ ExchangeMinimum(t)
           \/ Maximum(t) \/ ExchangeMaximum(t)
    PROVE  ExtremesOK'
<1>1. /\ stage[t] \in AfterEntries /\ stage'[t] \in AfterEntries \cup {"idle"}
      /\ \A u \in Threads \ {t} : stage'[u] = stage[u]
      /\ UNCHANGED <<duration, counter, called, counted>>
  BY DEF AddTotal, Minimum, Maximum, Glance, ReadField, ExchangeMinimum, ExchangeMaximum,
     Goes, historyVars, MonitorInv, FrameOK, AfterEntries, MinOpen
<1>2. ASSUME NEW u \in Threads \ {t} PROVE seen'[u] = seen[u]
  BY DEF AddTotal, Minimum, Maximum, Glance, ReadField, ExchangeMinimum, ExchangeMaximum,
     NumbersOK
<1>3. Holding(t)
  BY <1>1 DEF AfterEntries, MinOpen, Holding, Stages
<1>4. counter[t] \in Items
  BY <1>3, HoldsAnItem
<1>5. /\ minimum[counter[t]] \in Int /\ maximum[counter[t]] \in Int
      /\ duration[t] \in Int
  <2>1. stage[t] # "idle"
    BY <1>1 DEF AfterEntries, MinOpen
  <2>2. duration[t] \in Durations
    BY <2>1 DEF NumbersOK
  <2>3. Durations \subseteq Int
    BY MonitoringAssumption
  <2>4. minimum[counter[t]] \in Int /\ maximum[counter[t]] \in Int
    BY <1>4, NumbersAreIntegers
  <2> QED  BY <2>2, <2>3, <2>4
<1>6. \A a, b \in Int : (~ (a < b) => b <= a) /\ (a < b => a <= b) /\ (~ (a > b) => a <= b)
                        /\ (a > b => b <= a) /\ a <= a
  OBVIOUS
<1>7. PICK m, x, d \in Int :
        m = minimum[counter[t]] /\ x = maximum[counter[t]] /\ d = duration[t]
  BY <1>5
<1>8. CASE AddTotal(t)
  BY <1>1, <1>2, <1>8, ImprovingKeepsExtremes DEF AddTotal, Goes, MinOpen, MonitorInv, FrameOK
<1>9. CASE Minimum(t)
  <2>1. minimum' = minimum /\ maximum' = maximum
    BY <1>9 DEF Minimum, Glance, ReadField, counterVars
  <2>2. \/ stage'[t] = "glance max" /\ m < d
        \/ stage'[t] = "read min"
        \/ stage'[t] = "cas min" /\ ~ (m < d) /\ seen'[t] = m
    BY <1>7, <1>9 DEF Minimum, Glance, ReadField, Smaller, MonitorInv, FrameOK, NumbersOK
  <2>3. /\ stage'[t] \notin MinOpen => minimum'[counter[t]] <= duration[t]
        /\ stage'[t] = "cas min" => duration[t] <= seen'[t]
        /\ stage'[t] # "idle" /\ stage'[t] # "cas max"
    BY <1>6, <1>7, <2>1, <2>2 DEF MinOpen
  <2> QED  BY <1>1, <1>2, <2>1, <2>3, ImprovingKeepsExtremes
<1>10. CASE Maximum(t)
  <2>1. minimum' = minimum /\ maximum' = maximum /\ stage[t] \notin MinOpen
    BY <1>10 DEF Maximum, Glance, ReadField, counterVars, MinOpen
  <2>2. \/ stage'[t] = "idle" /\ x > d
        \/ stage'[t] = "read max"
        \/ stage'[t] = "cas max" /\ ~ (x > d) /\ seen'[t] = x
    BY <1>7, <1>10 DEF Maximum, Glance, ReadField, Greater, MonitorInv, FrameOK, NumbersOK
  <2>3. /\ stage'[t] = "idle" => duration[t] <= maximum'[counter[t]]
        /\ stage'[t] = "cas max" => seen'[t] <= duration[t]
        /\ stage'[t] # "cas min"
    BY <1>6, <1>7, <2>1, <2>2
  <2> QED  BY <1>1, <1>2, <2>1, <2>3, ImprovingKeepsExtremes
<1>11. CASE ExchangeMinimum(t)
  <2>1. maximum' = maximum /\ stage[t] = "cas min" /\ duration[t] <= seen[t]
    BY <1>11 DEF ExchangeMinimum, ExtremesOK, WriterOK
  <2>2. \/ /\ minimum[counter[t]] = seen[t] /\ stage'[t] = "glance max"
           /\ minimum' = [minimum EXCEPT ![counter[t]] = duration[t]]
        \/ minimum' = minimum /\ stage'[t] = "read min"
    BY <1>11 DEF ExchangeMinimum, Goes, MonitorInv, FrameOK
  <2>3. CASE /\ minimum[counter[t]] = seen[t] /\ stage'[t] = "glance max"
             /\ minimum' = [minimum EXCEPT ![counter[t]] = duration[t]]
    <3>1. minimum'[counter[t]] = duration[t]
      BY <1>4, <2>3 DEF NumbersOK
    <3>2. minimum'[counter[t]] <= duration[t] /\ duration[t] <= minimum[counter[t]]
      BY <1>6, <1>7, <2>1, <2>3, <3>1
    <3> QED  BY <1>1, <1>2, <2>1, <2>3, <3>2, ImprovingKeepsExtremes
  <2>4. CASE minimum' = minimum /\ stage'[t] = "read min"
    BY <1>1, <1>2, <2>1, <2>4, ImprovingKeepsExtremes DEF MinOpen
  <2> QED  BY <2>2, <2>3, <2>4
<1>12. CASE ExchangeMaximum(t)
  <2>1. /\ minimum' = minimum /\ stage[t] = "cas max" /\ seen[t] <= duration[t]
        /\ stage[t] \notin MinOpen
    BY <1>12 DEF ExchangeMaximum, ExtremesOK, WriterOK, MinOpen
  <2>2. \/ /\ maximum[counter[t]] = seen[t] /\ stage'[t] = "idle"
           /\ maximum' = [maximum EXCEPT ![counter[t]] = duration[t]]
        \/ maximum' = maximum /\ stage'[t] = "read max"
    BY <1>12 DEF ExchangeMaximum, Goes, MonitorInv, FrameOK
  <2>3. CASE /\ maximum[counter[t]] = seen[t] /\ stage'[t] = "idle"
             /\ maximum' = [maximum EXCEPT ![counter[t]] = duration[t]]
    <3>1. maximum'[counter[t]] = duration[t]
      BY <1>4, <2>3 DEF NumbersOK
    <3>2. duration[t] <= maximum'[counter[t]] /\ maximum[counter[t]] <= duration[t]
      BY <1>6, <1>7, <2>1, <2>3, <3>1
    <3> QED  BY <1>1, <1>2, <2>1, <2>3, <3>2, ImprovingKeepsExtremes
  <2>4. CASE maximum' = maximum /\ stage'[t] = "read max"
    BY <1>1, <1>2, <2>1, <2>4, ImprovingKeepsExtremes
  <2> QED  BY <2>2, <2>3, <2>4
<1> QED  BY <1>8, <1>9, <1>10, <1>11, <1>12

LEMMA ExtremesHold == Spec => []ExtremesOK
<1>1. MonitorInv /\ NumbersOK /\ ExtremesOK /\ [Next]_vars => ExtremesOK'
  <2> SUFFICES ASSUME MonitorInv, NumbersOK, ExtremesOK, [Next]_vars PROVE ExtremesOK'
    OBVIOUS
  <2>1. CASE UNCHANGED vars
    BY <2>1 DEF vars, frameVars, counterVars, historyVars, ExtremesOK, WriterOK, ExtremeOK,
       EntryOK, In, DurationsOf
  <2>2. CASE Next
    <3>1. ASSUME NEW t \in Threads, NEW n \in Names, NEW d \in Durations, Increment(t, n, d)
          PROVE  ExtremesOK'
      BY <3>1, BeginKeepsExtremes
    <3>2. ASSUME NEW t \in Threads, ThreadStep(t) PROVE ExtremesOK'
      BY <3>2, LookingKeepsExtremes, EntryKeepsExtremes, CountingKeepsExtremes DEF ThreadStep
    <3> QED  BY <2>2, <3>1, <3>2 DEF Next
  <2> QED  BY <2>1, <2>2
<1> QED  BY <1>1, InitExtremes, MonitorInvHolds, NumbersHold, PTL DEF Spec

\* Minimum and maximum enclose the duration of every call that has ended, and
\* are themselves durations that were counted, at every moment and for any
\* number of threads that exchange them.
THEOREM ExtremesCorrect == Spec => []ExtremesEnclose
<1>1. ASSUME NumbersOK, ExtremesOK PROVE ExtremesEnclose
  <2>1. ASSUME NEW i \in Items, NEW c \in counted[i],
               ~ (Holding(c[1]) /\ called[c[1]] = c[2])
        PROVE  /\ minimum[i] <= c[3] /\ c[3] <= maximum[i]
               /\ minimum[i] \in DurationsOf(i) /\ maximum[i] \in DurationsOf(i)
    <3>1. EntryOK(i, c) /\ ExtremeOK(i)
      BY <1>1 DEF ExtremesOK
    <3>2. ~ In(c, AfterEntries) /\ ~ In(c, MinOpen)
      BY <2>1 DEF In, Holding, Stages, AfterEntries, MinOpen
    <3>3. minimum[i] <= c[3] /\ c[3] <= maximum[i]
      BY <3>1, <3>2 DEF EntryOK
    <3>4. c[3] \in DurationsOf(i)
      BY DEF DurationsOf
    <3>5. \A a \in 0..MaxValue : (MaxValue <= a => a = MaxValue) /\ (a <= 0 => a = 0)
      BY MonitoringAssumption
    <3>6. c[3] \in 0..MaxValue
      BY <1>1, NumbersAreIntegers
    <3> QED  BY <3>1, <3>3, <3>4, <3>5, <3>6 DEF ExtremeOK
  <2> QED  BY <2>1 DEF ExtremesEnclose
<1> QED  BY <1>1, NumbersHold, ExtremesHold, PTL
-----------------------------------------------------------------------------
(* Sums over finite sets of entries.  The library's induction over sets takes *)
(* an operator; a smallest counterexample does not.                         *)

\* What the durations of a set of entries add up to, as CounterExactAtRest has it.
DurationSum(S) == FoldSet(LAMBDA c, sum : c[3] + sum, 0, S)

\* The element a fold takes next.
Pick(s) == CHOOSE c \in s : TRUE

\* f is the function the fold over S evaluates.
SumsUp(f, S) == f = [s \in SUBSET S |-> IF s = {} THEN 0 ELSE Pick(s)[3] + f[s \ {Pick(s)}]]

LEMMA SumUnfolds ==
    ASSUME NEW S
    PROVE  DurationSum(S) = (CHOOSE f : SumsUp(f, S))[S]
BY DEF DurationSum, FoldSet, MapThenFoldSet, Pick, SumsUp

\* Of the subsets of a finite set that have some defect, one has no smaller
\* one inside it with the same defect.
LEMMA SmallestSet ==
    ASSUME NEW S, IsFiniteSet(S), NEW Bad \in SUBSET SUBSET S, Bad # {}
    PROVE  \E T \in Bad : \A U \in SUBSET T : U # T => U \notin Bad
<1>1. /\ IsWellFoundedOn(StrictSubsetOrdering(S), FiniteSubsetsOf(S))
      /\ Bad \subseteq FiniteSubsetsOf(S)
  BY FS_StrictSubsetOrderingWellFounded, FS_Subset DEF FiniteSubsetsOf
<1>2. PICK T \in Bad : \A U \in Bad : ~ (<<U, T>> \in StrictSubsetOrdering(S))
  BY <1>1, WFMin, Zenon
<1> QED  BY <1>2 DEF StrictSubsetOrdering

LEMMA PickIsMember == \A s : s # {} => Pick(s) \in s
BY DEF Pick

\* Folds over different sets agree on the subsets they share.
LEMMA SumsAgree ==
    ASSUME NEW S, NEW R, NEW f, NEW g, SumsUp(f, S), SumsUp(g, R),
           NEW T, IsFiniteSet(T), T \subseteq S, T \subseteq R
    PROVE  f[T] = g[T]
<1> DEFINE Bad == {U \in SUBSET T : f[U] # g[U]}
<1> SUFFICES ASSUME Bad # {} PROVE FALSE
  OBVIOUS
<1>1. PICK U \in Bad : \A V \in SUBSET U : V # U => V \notin Bad
  <2>1. Bad \in SUBSET SUBSET T
    OBVIOUS
  <2> HIDE DEF Bad
  <2> QED  BY <2>1, SmallestSet
<1>2. U \in SUBSET S /\ U \in SUBSET R
  OBVIOUS
<1>3. /\ f[U] = IF U = {} THEN 0 ELSE Pick(U)[3] + f[U \ {Pick(U)}]
      /\ g[U] = IF U = {} THEN 0 ELSE Pick(U)[3] + g[U \ {Pick(U)}]
  BY <1>2 DEF SumsUp
<1>4. CASE U = {}
  BY <1>3, <1>4
<1>5. CASE U # {}
  <2>1. U \ {Pick(U)} \in SUBSET U /\ U \ {Pick(U)} # U
    BY <1>5, PickIsMember
  <2>2. f[U \ {Pick(U)}] = g[U \ {Pick(U)}]
    BY <1>1, <2>1
  <2> QED  BY <1>3, <1>5, <2>2
<1> QED  BY <1>4, <1>5

\* A function that satisfies the equation of the fold exists.
LEMMA SumExists ==
    ASSUME NEW S, IsFiniteSet(S)
    PROVE  \E f : SumsUp(f, S)
<1> DEFINE Bad == {T \in SUBSET S : ~ \E f : SumsUp(f, T)}
<1> SUFFICES ASSUME Bad # {} PROVE FALSE
  OBVIOUS
<1>1. PICK T \in Bad : \A U \in SUBSET T : U # T => U \notin Bad
  <2>1. Bad \in SUBSET SUBSET S
    OBVIOUS
  <2> HIDE DEF Bad
  <2> QED  BY <2>1, SmallestSet
<1> DEFINE G(s) == CHOOSE f : SumsUp(f, s)
           h == [s \in SUBSET T |-> IF s = {} THEN 0 ELSE Pick(s)[3] + G(s \ {Pick(s)})[s \ {Pick(s)}]]
<1>2. ASSUME NEW U \in SUBSET T, U # T
      PROVE  SumsUp(G(U), U)
  <2>1. \E f : SumsUp(f, U)
    BY <1>1, <1>2
  <2> QED  BY <2>1
<1>3. ASSUME NEW s \in SUBSET T, s # {}
      PROVE  h[s \ {Pick(s)}] = G(s \ {Pick(s)})[s \ {Pick(s)}]
  <2> DEFINE u == s \ {Pick(s)}
  <2>1. u \in SUBSET T /\ u # T /\ u \in SUBSET u /\ IsFiniteSet(u)
    BY <1>3, PickIsMember, FS_Subset
  <2>2. SumsUp(G(u), u)
    BY <1>2, <2>1
  <2>3. G(u)[u] = IF u = {} THEN 0 ELSE Pick(u)[3] + G(u)[u \ {Pick(u)}]
    BY <2>1, <2>2 DEF SumsUp
  <2>4. h[u] = IF u = {} THEN 0 ELSE Pick(u)[3] + G(u \ {Pick(u)})[u \ {Pick(u)}]
    BY <2>1
  <2>5. ASSUME u # {} PROVE G(u)[u \ {Pick(u)}] = G(u \ {Pick(u)})[u \ {Pick(u)}]
    <3> DEFINE v == u \ {Pick(u)}
    <3>1. v \in SUBSET T /\ v # T /\ v \subseteq u /\ IsFiniteSet(v)
      BY <2>1, <2>5, PickIsMember, FS_Subset
    <3>2. SumsUp(G(v), v)
      BY <1>2, <3>1
    <3> HIDE DEF G, u, v
    <3> QED  BY <2>2, <3>1, <3>2, SumsAgree DEF v
  <2> HIDE DEF G, h, u
  <2> QED  BY <2>3, <2>4, <2>5 DEF u
<1>4. h = [s \in SUBSET T |-> IF s = {} THEN 0 ELSE Pick(s)[3] + h[s \ {Pick(s)}]]
  <2>1. ASSUME NEW s \in SUBSET T
        PROVE  h[s] = IF s = {} THEN 0 ELSE Pick(s)[3] + h[s \ {Pick(s)}]
    <3>1. h[s] = IF s = {} THEN 0 ELSE Pick(s)[3] + G(s \ {Pick(s)})[s \ {Pick(s)}]
      OBVIOUS
    <3> HIDE DEF h, G
    <3> QED  BY <1>3, <3>1
  <2>2. h = [s \in SUBSET T |-> h[s]]
    OBVIOUS
  <2> HIDE DEF h, G
  <2> QED  BY <2>1, <2>2
<1>5. SumsUp(h, T)
  BY <1>4 DEF SumsUp
<1> QED  BY <1>5

LEMMA SumEmpty == DurationSum({}) = 0
<1>1. PICK f : SumsUp(f, {})
  BY SumExists, FS_EmptySet
<1>2. SumsUp(CHOOSE g : SumsUp(g, {}), {})
  BY <1>1
<1> QED  BY <1>2, SumUnfolds DEF SumsUp

LEMMA SumOfPick ==
    ASSUME NEW S, IsFiniteSet(S), S # {}
    PROVE  DurationSum(S) = Pick(S)[3] + DurationSum(S \ {Pick(S)})
<1> DEFINE U == S \ {Pick(S)}
           g == CHOOSE f : SumsUp(f, S)
           h == CHOOSE f : SumsUp(f, U)
<1>1. IsFiniteSet(U)
  BY FS_Subset
<1>2. SumsUp(g, S) /\ SumsUp(h, U)
  BY <1>1, SumExists
<1>3. g[U] = h[U]
  <2> HIDE DEF g, h
  <2> QED  BY <1>1, <1>2, SumsAgree
<1>4. DurationSum(S) = g[S] /\ DurationSum(U) = h[U]
  BY SumUnfolds
<1>5. g[S] = Pick(S)[3] + g[U]
  <2> HIDE DEF g
  <2> QED  BY <1>2 DEF SumsUp
<1> QED  BY <1>3, <1>4, <1>5

LEMMA SumIsNatural ==
    ASSUME NEW S, IsFiniteSet(S), \A c \in S : c[3] \in Nat
    PROVE  DurationSum(S) \in Nat
<1> DEFINE Bad == {T \in SUBSET S : DurationSum(T) \notin Nat}
<1> SUFFICES ASSUME Bad # {} PROVE FALSE
  OBVIOUS
<1>1. PICK T \in Bad : \A U \in SUBSET T : U # T => U \notin Bad
  <2>1. Bad \in SUBSET SUBSET S
    OBVIOUS
  <2> HIDE DEF Bad
  <2> QED  BY <2>1, SmallestSet
<1>2. T # {}
  BY SumEmpty
<1>3. Pick(T) \in T /\ T \ {Pick(T)} \in SUBSET T /\ T \ {Pick(T)} # T
  BY <1>2, PickIsMember
<1>4. DurationSum(T \ {Pick(T)}) \in Nat /\ Pick(T)[3] \in Nat
  BY <1>1, <1>3
<1>5. DurationSum(T) = Pick(T)[3] + DurationSum(T \ {Pick(T)})
  BY <1>2, SumOfPick, FS_Subset
<1> QED  BY <1>4, <1>5

\* The order of a sum does not matter: any element may be taken first.
LEMMA SumWithout ==
    ASSUME NEW S, IsFiniteSet(S), \A c \in S : c[3] \in Nat, NEW x \in S
    PROVE  DurationSum(S) = x[3] + DurationSum(S \ {x})
<1> DEFINE Bad == {T \in SUBSET S : \E c \in T : DurationSum(T) # c[3] + DurationSum(T \ {c})}
<1> SUFFICES ASSUME Bad # {} PROVE FALSE
  OBVIOUS
<1>1. PICK T \in Bad : \A U \in SUBSET T : U # T => U \notin Bad
  <2>1. Bad \in SUBSET SUBSET S
    OBVIOUS
  <2> HIDE DEF Bad
  <2> QED  BY <2>1, SmallestSet
<1>2. PICK c \in T : DurationSum(T) # c[3] + DurationSum(T \ {c})
  OBVIOUS
<1> DEFINE p == Pick(T)
           rest == (T \ {c}) \ {p}
<1>3. p \in T
  BY PickIsMember
<1>4. DurationSum(T) = p[3] + DurationSum(T \ {p})
  BY SumOfPick, FS_Subset
<1>5. c # p
  BY <1>2, <1>4
<1>6. DurationSum(T \ {p}) = c[3] + DurationSum(rest)
  <2>1. T \ {p} \in SUBSET T /\ T \ {p} # T /\ c \in T \ {p} /\ (T \ {p}) \ {c} = rest
    BY <1>3, <1>5
  <2>2. T \ {p} \notin Bad
    BY <1>1, <2>1
  <2>3. DurationSum(T \ {p}) = c[3] + DurationSum((T \ {p}) \ {c})
    BY <2>1, <2>2
  <2> HIDE DEF p, rest
  <2> QED  BY <2>1, <2>3
<1>7. DurationSum(T \ {c}) = p[3] + DurationSum(rest)
  <2>1. T \ {c} \in SUBSET T /\ T \ {c} # T /\ p \in T \ {c}
    BY <1>3, <1>5
  <2> QED  BY <1>1, <2>1
<1>8. DurationSum(rest) \in Nat /\ p[3] \in Nat /\ c[3] \in Nat
  <2>1. IsFiniteSet(rest) /\ \A d \in rest : d[3] \in Nat
    BY FS_Subset
  <2> QED  BY <1>3, <2>1, SumIsNatural
<1> HIDE DEF p, rest
<1> QED  BY <1>2, <1>4, <1>6, <1>7, <1>8

LEMMA SumWithOneMore ==
    ASSUME NEW S, IsFiniteSet(S), \A c \in S : c[3] \in Nat, NEW x, x \notin S, x[3] \in Nat
    PROVE  DurationSum(S \cup {x}) = DurationSum(S) + x[3]
<1>1. IsFiniteSet(S \cup {x}) /\ \A c \in S \cup {x} : c[3] \in Nat
  BY FS_AddElement
<1>2. (S \cup {x}) \ {x} = S
  OBVIOUS
<1>3. DurationSum(S \cup {x}) = x[3] + DurationSum(S)
  BY <1>1, <1>2, SumWithout
<1> QED  BY <1>3, SumIsNatural

-----------------------------------------------------------------------------
(* Entries and totals *)

\* The entries of counter i whose durations are in its total: a call adds its
\* duration one step after it has counted itself.
Summed(i) == {c \in counted[i] : ~ In(c, {"total"})}

ChargesOK ==
    \A i \in Items :
        /\ IsFiniteSet(counted[i])
        /\ entries[i] = Cardinality(counted[i])
        /\ total[i] = DurationSum(Summed(i))

LEMMA InitCharges == Init => ChargesOK
<1> SUFFICES ASSUME Init, NEW i \in Items
             PROVE  /\ IsFiniteSet(counted[i])
                    /\ entries[i] = Cardinality(counted[i])
                    /\ total[i] = DurationSum(Summed(i))
  BY DEF ChargesOK
<1>1. counted[i] = {} /\ entries[i] = 0 /\ total[i] = 0
  BY DEF Init
<1>2. Summed(i) = {}
  BY <1>1 DEF Summed
<1> QED  BY <1>1, <1>2, SumEmpty, FS_EmptySet

\* A step that neither counts nor adds, of a thread that is not about to add.
LEMMA ChargesStand ==
    ASSUME NumbersOK, ExtremesOK, ChargesOK, NEW t \in Threads,
           UNCHANGED <<entries, total, counted>>,
           \A u \in Threads \ {t} : stage'[u] = stage[u] /\ called'[u] = called[u],
           stage[t] # "total", stage'[t] # "total"
    PROVE  ChargesOK'
<1>1. ASSUME NEW i \in Items PROVE Summed(i)' = Summed(i)
  <2>1. ASSUME NEW c \in counted[i]
        PROVE  In(c, {"total"})' <=> In(c, {"total"})
    <3>1. c[1] \in Threads
      BY NumbersAreIntegers
    <3>2. CASE c[1] = t
      BY <3>2 DEF In
    <3>3. CASE c[1] # t
      BY <3>1, <3>3 DEF In
    <3> QED  BY <3>2, <3>3
  <2> QED  BY <2>1 DEF Summed
<1> QED  BY <1>1 DEF ChargesOK

\* The entry of a running call is the only one of its thread and call.
LEMMA EntryOfTheCall ==
    ASSUME NumbersOK, ExtremesOK, NEW t \in Threads, NEW i \in Items,
           NEW c \in counted[i], c[1] = t, c[2] = called[t]
    PROVE  /\ stage[t] \in AfterEntries \cup {"idle"}
           /\ stage[t] \in AfterEntries =>
                 counter[t] = i /\ c = <<t, called[t], duration[t]>>
<1>1. EntryOK(i, c)
  BY DEF ExtremesOK
<1>2. c \in Threads \X (1..MaxIncrements) \X Durations
  BY NumbersAreIntegers
<1>3. c = <<c[1], c[2], c[3]>>
  BY <1>2
<1> QED  BY <1>1, <1>3 DEF EntryOK, In

LEMMA EntryKeepsCharges ==
    ASSUME MonitorInv, NumbersOK, ExtremesOK, ChargesOK, NEW t \in Threads, AddEntry(t)
    PROVE  ChargesOK'
<1> DEFINE w == <<t, called[t], duration[t]>>
<1>1. /\ stage[t] = "entries" /\ stage'[t] = "total"
      /\ \A u \in Threads \ {t} : stage'[u] = stage[u]
      /\ UNCHANGED <<total, called>>
  BY DEF AddEntry, Goes, MonitorInv, FrameOK
<1>2. counter[t] \in Items
  BY <1>1, HoldsAnItem DEF Holding, Stages
<1>3. ASSUME NEW i \in Items
      PROVE  /\ IsFiniteSet(counted[i]) /\ entries[i] = Cardinality(counted[i])
             /\ total[i] = DurationSum(Summed(i)) /\ entries[i] \in Nat
  BY DEF ChargesOK, NumbersOK
<1>4. ASSUME NEW i \in Items, NEW c \in counted[i]
      PROVE  c # w /\ ~ (c[1] = t /\ c[2] = called[t])
  <2>1. ~ (c[1] = t /\ c[2] = called[t])
    BY <1>1, EntryOfTheCall DEF AfterEntries, MinOpen
  <2>2. w[1] = t /\ w[2] = called[t]
    OBVIOUS
  <2> QED  BY <2>1, <2>2
<1>5. ASSUME NEW i \in Items, NEW c \in counted[i]
      PROVE  In(c, {"total"})' <=> In(c, {"total"})
  <2>1. c[1] \in Threads
    BY NumbersAreIntegers
  <2>2. CASE c[1] = t
    BY <1>1, <1>4, <2>2 DEF In
  <2>3. CASE c[1] # t
    BY <1>1, <2>1, <2>3 DEF In
  <2> QED  BY <2>2, <2>3
<1>6. ASSUME NEW c, c = w
      PROVE  In(c, {"total"})'
  <2>1. c[1] = t /\ c[2] = called[t]
    BY <1>6
  <2> QED  BY <1>1, <2>1 DEF In
<1>7. ASSUME NEW i \in Items, i # counter[t]
      PROVE  counted'[i] = counted[i] /\ entries'[i] = entries[i]
  BY <1>7 DEF AddEntry, MonitorInv, FrameOK, NumbersOK
<1>8. /\ counted'[counter[t]] = counted[counter[t]] \cup {w}
      /\ entries'[counter[t]] = entries[counter[t]] + 1
  BY <1>2 DEF AddEntry, MonitorInv, FrameOK, NumbersOK
<1>9. ASSUME NEW i \in Items
      PROVE  /\ IsFiniteSet(counted'[i]) /\ entries'[i] = Cardinality(counted'[i])
             /\ Summed(i)' = Summed(i)
  <2>1. CASE i = counter[t]
    <3>1. counted'[i] = counted[i] \cup {w} /\ w \notin counted[i]
      BY <1>4, <1>8, <2>1
    <3>2. PICK d : d = w
      OBVIOUS
    <3>3. counted'[i] = counted[i] \cup {d} /\ d \notin counted[i] /\ In(d, {"total"})'
      BY <1>6, <3>1, <3>2
    <3>4. Cardinality(counted'[i]) = Cardinality(counted[i]) + 1 /\ IsFiniteSet(counted'[i])
      BY <1>3, <3>3, FS_AddElement
    <3>5. Summed(i)' = Summed(i)
      BY <1>5, <3>3 DEF Summed
    <3> QED  BY <1>3, <1>8, <2>1, <3>4, <3>5
  <2>2. CASE i # counter[t]
    BY <1>3, <1>5, <1>7, <2>2 DEF Summed
  <2> QED  BY <2>1, <2>2
<1> QED  BY <1>1, <1>3, <1>9 DEF ChargesOK

LEMMA TotalKeepsCharges ==
    ASSUME MonitorInv, NumbersOK, ExtremesOK, ChargesOK, NEW t \in Threads, AddTotal(t)
    PROVE  ChargesOK'
<1> DEFINE w == <<t, called[t], duration[t]>>
<1>1. /\ stage[t] = "total" /\ stage'[t] = "glance min"
      /\ \A u \in Threads \ {t} : stage'[u] = stage[u]
      /\ UNCHANGED <<entries, called, counted>>
  BY DEF AddTotal, Goes, historyVars, MonitorInv, FrameOK
<1>2. counter[t] \in Items
  BY <1>1, HoldsAnItem DEF Holding, Stages
<1>3. w \in counted[counter[t]] /\ w[1] = t /\ w[2] = called[t] /\ w[3] = duration[t]
  BY <1>1 DEF ExtremesOK, WriterOK, AfterEntries, MinOpen
<1>4. /\ total'[counter[t]] = total[counter[t]] + duration[t]
      /\ \A i \in Items \ {counter[t]} : total'[i] = total[i]
  BY <1>2 DEF AddTotal, NumbersOK
<1>5. ASSUME NEW i \in Items, NEW c \in counted[i]
      PROVE  /\ ~ In(c, {"total"})' <=> ~ In(c, {"total"}) \/ (i = counter[t] /\ c = w)
             /\ i = counter[t] /\ c = w => In(c, {"total"})
  <2>1. c[1] \in Threads
    BY NumbersAreIntegers
  <2>2. CASE c[1] = t
    <3>1. ~ In(c, {"total"})'
      BY <1>1, <2>2 DEF In
    <3>2. In(c, {"total"}) => i = counter[t] /\ c = w
      BY <1>1, <2>2, EntryOfTheCall DEF In, AfterEntries, MinOpen
    <3>3. c = w => In(c, {"total"})
      BY <1>1, <1>3, <2>2 DEF In
    <3> QED  BY <3>1, <3>2, <3>3
  <2>3. CASE c[1] # t
    BY <1>1, <1>3, <2>1, <2>3 DEF In
  <2> QED  BY <2>2, <2>3
<1>6. ASSUME NEW i \in Items
      PROVE  total'[i] = DurationSum(Summed(i)')
  <2>0. /\ total[i] = DurationSum(Summed(i))
        /\ \A c \in Summed(i) : c[3] \in Nat
        /\ IsFiniteSet(Summed(i))
    <3>1. \A c \in counted[i] : c[3] \in 0..MaxValue
      BY NumbersAreIntegers
    <3>2. Summed(i) \subseteq counted[i] /\ \A n \in 0..MaxValue : n \in Nat
      BY DEF Summed
    <3> QED  BY <3>1, <3>2, FS_Subset DEF ChargesOK
  <2>1. CASE i = counter[t]
    <3>1. Summed(i)' = Summed(i) \cup {w} /\ w \notin Summed(i)
      BY <1>1, <1>3, <1>5, <2>1 DEF Summed
    <3>2. w[3] \in Nat
      <4>1. w[3] \in 0..MaxValue
        BY <1>2, <1>3, NumbersAreIntegers
      <4> QED  BY <4>1
    <3>3. DurationSum(Summed(i) \cup {w}) = DurationSum(Summed(i)) + w[3]
      <4> HIDE DEF w
      <4> QED  BY <2>0, <3>1, <3>2, SumWithOneMore
    <3> QED  BY <1>3, <1>4, <2>0, <2>1, <3>1, <3>3
  <2>2. CASE i # counter[t]
    <3>1. Summed(i)' = Summed(i)
      BY <1>1, <1>5, <2>2 DEF Summed
    <3> QED  BY <1>4, <2>0, <2>2, <3>1
  <2> QED  BY <2>1, <2>2
<1> QED  BY <1>1, <1>6 DEF ChargesOK

LEMMA OthersKeepCharges ==
    ASSUME MonitorInv, NumbersOK, ExtremesOK, ChargesOK, NEW t \in Threads,
           \/ \E n \in Names, d \in Durations : Increment(t, n, d)
           \/ LookupHits(t) \/ LookupMisses(t) \/ Adding(t)
           \/ Added(t) \/ NotAdded(t) \/ AddThrew(t) \/ LookupAgain(t)
           \/ Minimum(t) \/ ExchangeMinimum(t) \/ Maximum(t) \/ ExchangeMaximum(t)
    PROVE  ChargesOK'
<1>1. /\ stage[t] # "total" /\ stage'[t] # "total"
      /\ \A u \in Threads \ {t} : stage'[u] = stage[u]
      /\ UNCHANGED <<entries, total, counted>>
  BY DEF Increment, LookupHits, LookupMisses, Adding, Added, NotAdded, AddThrew, LookupAgain,
     Minimum, Maximum, Glance, ReadField, ExchangeMinimum, ExchangeMaximum,
     Goes, frameVars, counterVars, historyVars, MonitorInv, FrameOK
<1>2. \A u \in Threads \ {t} : called'[u] = called[u]
  BY DEF Increment, LookupHits, LookupMisses, Adding, Added, NotAdded, AddThrew, LookupAgain,
     Minimum, Maximum, Glance, ReadField, ExchangeMinimum, ExchangeMaximum,
     historyVars, NumbersOK
<1> QED  BY <1>1, <1>2, ChargesStand

LEMMA ChargesHold == Spec => []ChargesOK
<1>1. MonitorInv /\ NumbersOK /\ ExtremesOK /\ ChargesOK /\ [Next]_vars => ChargesOK'
  <2> SUFFICES ASSUME MonitorInv, NumbersOK, ExtremesOK, ChargesOK, [Next]_vars
               PROVE  ChargesOK'
    OBVIOUS
  <2>1. CASE UNCHANGED vars
    BY <2>1 DEF vars, frameVars, counterVars, historyVars, ChargesOK, Summed, In
  <2>2. CASE Next
    <3>1. ASSUME NEW t \in Threads, NEW n \in Names, NEW d \in Durations, Increment(t, n, d)
          PROVE  ChargesOK'
      BY <3>1, OthersKeepCharges
    <3>2. ASSUME NEW t \in Threads, ThreadStep(t) PROVE ChargesOK'
      BY <3>2, EntryKeepsCharges, TotalKeepsCharges, OthersKeepCharges DEF ThreadStep
    <3> QED  BY <2>2, <3>1, <3>2 DEF Next
  <2> QED  BY <2>1, <2>2
<1> QED  BY <1>1, InitCharges, MonitorInvHolds, NumbersHold, ExtremesHold, PTL DEF Spec

\* A bound of a set that belongs to it is its minimum or maximum.
LEMMA BoundIsExtreme ==
    ASSUME NEW S, S \subseteq Int, NEW m \in S
    PROVE  /\ (\A a \in S : m <= a) => m = Min(S)
           /\ (\A a \in S : a <= m) => m = Max(S)
<1>1. ASSUME \A a \in S : m <= a PROVE m = Min(S)
  <2>1. Min(S) \in S /\ \A a \in S : Min(S) <= a
    BY <1>1 DEF Min
  <2>2. \A a, b \in Int : a <= b /\ b <= a => a = b
    OBVIOUS
  <2> QED  BY <1>1, <2>1, <2>2, Zenon
<1>2. ASSUME \A a \in S : a <= m PROVE m = Max(S)
  <2>1. Max(S) \in S /\ \A a \in S : Max(S) >= a
    BY <1>2 DEF Max
  <2>2. \A a, b \in Int : a <= b /\ a >= b => a = b
    OBVIOUS
  <2> QED  BY <1>2, <2>1, <2>2, Zenon
<1> QED  BY <1>1, <1>2

\* A counter nobody works on is exact: as many entries as calls that reached
\* it, their durations summed up in its total, the smallest and the greatest of
\* them as minimum and maximum, although no lock holds the four together.
THEOREM CounterExactCorrect == Spec => []CounterExactAtRest
<1>1. ASSUME NumbersOK, ExtremesOK, ExtremesEnclose, ChargesOK,
             NEW i \in Items, Busy(i) = {}
      PROVE  /\ entries[i] = Cardinality(counted[i])
             /\ total[i] = FoldSet(LAMBDA c, sum : c[3] + sum, 0, counted[i])
             /\ counted[i] # {} =>
                   /\ minimum[i] = Min(DurationsOf(i))
                   /\ maximum[i] = Max(DurationsOf(i))
  <2>1. ASSUME NEW c \in counted[i]
        PROVE  ~ (Holding(c[1]) /\ called[c[1]] = c[2])
    <3> SUFFICES ASSUME Holding(c[1]), called[c[1]] = c[2] PROVE FALSE
      OBVIOUS
    <3>1. c[1] \in Threads
      BY <1>1, NumbersAreIntegers
    <3>2. stage[c[1]] \in AfterEntries
      BY <1>1, <3>1, EntryOfTheCall DEF Holding
    <3>3. counter[c[1]] = i
      BY <1>1, <3>1, <3>2, EntryOfTheCall
    <3> QED  BY <1>1, <3>1, <3>3 DEF Busy
  <2>2. Summed(i) = counted[i]
    BY <2>1 DEF Summed, In, Holding, Stages
  <2>3. entries[i] = Cardinality(counted[i]) /\ total[i] = DurationSum(counted[i])
    BY <1>1, <2>2 DEF ChargesOK
  <2>4. ASSUME counted[i] # {}
        PROVE  minimum[i] = Min(DurationsOf(i)) /\ maximum[i] = Max(DurationsOf(i))
    <3>1. ASSUME NEW c \in counted[i]
          PROVE  /\ minimum[i] <= c[3] /\ c[3] <= maximum[i]
                 /\ minimum[i] \in DurationsOf(i) /\ maximum[i] \in DurationsOf(i)
                 /\ c[3] \in Int
      BY <1>1, <2>1, NumbersAreIntegers DEF ExtremesEnclose
    <3>2. /\ DurationsOf(i) \subseteq Int
          /\ \A a \in DurationsOf(i) : minimum[i] <= a /\ a <= maximum[i]
          /\ minimum[i] \in DurationsOf(i) /\ maximum[i] \in DurationsOf(i)
      BY <2>4, <3>1 DEF DurationsOf
    <3> QED  BY <3>2, BoundIsExtreme
  <2> QED  BY <2>3, <2>4 DEF DurationSum
<1>2. NumbersOK /\ ExtremesOK /\ ExtremesEnclose /\ ChargesOK => CounterExactAtRest
  BY <1>1 DEF CounterExactAtRest
<1> QED  BY <1>2, NumbersHold, ExtremesHold, ExtremesCorrect, ChargesHold, PTL
-----------------------------------------------------------------------------
(* Calls and entries *)

\* The entries of the k-th call of thread t, each with its counter.
EntriesOf(t, k) ==
    {e \in Items \X (Threads \X (1..MaxIncrements) \X Durations) :
        /\ e[2] \in counted[e[1]]
        /\ e[2][1] = t /\ e[2][2] = k}

\* The call has not come to the entries of a counter, nor ended.
Ahead(t, k) ==
    \/ k > called[t]
    \/ k = called[t] /\ stage[t] \notin AfterEntries \cup {"idle"}

\* Every call of Increment that has ended was counted once, in one counter, or
\* ended with an exception and was not counted at all.
EndedCallsSettled ==
    \A t \in Threads : \A k \in 1..called[t] :
        (k = called[t] => stage[t] = "idle") =>
            IF <<t, k>> \in failed
            THEN EntriesOf(t, k) = {}
            ELSE \E e : EntriesOf(t, k) = {e}

CallOK(t, k) ==
    IF Ahead(t, k)
    THEN EntriesOf(t, k) = {} /\ <<t, k>> \notin failed
    ELSE \/ /\ <<t, k>> \in failed /\ EntriesOf(t, k) = {}
            /\ ~ (k = called[t] /\ stage[t] \in AfterEntries)
         \/ <<t, k>> \notin failed /\ \E e : EntriesOf(t, k) = {e}

CallsOK == \A t \in Threads : \A k \in 1..MaxIncrements : CallOK(t, k)

LEMMA InitCalls == Init => CallsOK
<1> SUFFICES ASSUME Init, NEW t \in Threads, NEW k \in 1..MaxIncrements
             PROVE  CallOK(t, k)
  BY DEF CallsOK
<1>1. called[t] = 0 /\ failed = {} /\ \A i \in Items : counted[i] = {}
  BY DEF Init
<1>2. k > 0
  OBVIOUS
<1>3. EntriesOf(t, k) = {}
  BY <1>1 DEF EntriesOf
<1> QED  BY <1>1, <1>2, <1>3 DEF CallOK, Ahead

\* Steps that neither begin a call nor bring one to the entries or to an
\* exception.
LEMMA CallsStand ==
    ASSUME CallsOK, NEW t \in Threads, UNCHANGED <<called, counted, failed>>,
           \A u \in Threads \ {t} : stage'[u] = stage[u],
           \/ /\ stage[t] \notin AfterEntries \cup {"idle"}
              /\ stage'[t] \notin AfterEntries \cup {"idle"}
           \/ stage[t] \in AfterEntries /\ stage'[t] \in AfterEntries \cup {"idle"}
    PROVE  CallsOK'
<1> SUFFICES ASSUME NEW u \in Threads, NEW k \in 1..MaxIncrements
             PROVE  CallOK(u, k)'
  BY DEF CallsOK
<1>1. CallOK(u, k) /\ EntriesOf(u, k)' = EntriesOf(u, k)
  BY DEF CallsOK, EntriesOf
<1>2. CASE u = t
  BY <1>1, <1>2 DEF CallOK, Ahead, AfterEntries, MinOpen
<1>3. CASE u # t
  BY <1>1, <1>3 DEF CallOK, Ahead
<1> QED  BY <1>2, <1>3

LEMMA BeginKeepsCalls ==
    ASSUME MonitorInv, NumbersOK, CallsOK,
           NEW t \in Threads, NEW n \in Names, NEW d \in Durations, Increment(t, n, d)
    PROVE  CallsOK'
<1> SUFFICES ASSUME NEW u \in Threads, NEW k \in 1..MaxIncrements
             PROVE  CallOK(u, k)'
  BY DEF CallsOK
<1>1. /\ stage[t] = "idle" /\ stage'[t] = "lookup" /\ called'[t] = called[t] + 1
      /\ UNCHANGED <<counted, failed>>
      /\ u # t => stage'[u] = stage[u] /\ called'[u] = called[u]
  BY DEF Increment, Goes, MonitorInv, FrameOK, NumbersOK
<1>2. CallOK(u, k) /\ EntriesOf(u, k)' = EntriesOf(u, k)
  BY <1>1 DEF CallsOK, EntriesOf
<1>3. CASE u = t
  <2>1. called[t] \in Int /\ k \in Int
    BY MonitoringAssumption DEF NumbersOK
  <2>2. CASE k > called[t]
    <3>1. Ahead(u, k) /\ (k > called'[t] \/ k = called'[t])
      BY <1>1, <1>3, <2>1, <2>2 DEF Ahead
    <3>2. Ahead(u, k)'
      BY <1>1, <1>3, <3>1 DEF Ahead, AfterEntries, MinOpen
    <3> QED  BY <1>1, <1>2, <3>1, <3>2 DEF CallOK
  <2>3. CASE ~ (k > called[t])
    <3>1. ~ (k > called'[t]) /\ k # called'[t]
      BY <1>1, <2>1, <2>3
    <3>2. ~ Ahead(u, k) /\ ~ Ahead(u, k)'
      BY <1>1, <1>3, <2>3, <3>1 DEF Ahead
    <3> QED  BY <1>1, <1>2, <1>3, <3>1, <3>2 DEF CallOK
  <2> QED  BY <2>2, <2>3
<1>4. CASE u # t
  BY <1>1, <1>2, <1>4 DEF CallOK, Ahead
<1> QED  BY <1>3, <1>4

LEMMA ThrowKeepsCalls ==
    ASSUME MonitorInv, NumbersOK, CallsOK, NEW t \in Threads, AddThrew(t)
    PROVE  CallsOK'
<1> SUFFICES ASSUME NEW u \in Threads, NEW k \in 1..MaxIncrements
             PROVE  CallOK(u, k)'
  BY DEF CallsOK
<1>1. /\ stage[t] = "adding" /\ stage'[t] = "idle"
      /\ failed' = failed \cup {<<t, called[t]>>}
      /\ UNCHANGED <<counted, called>>
      /\ u # t => stage'[u] = stage[u]
  BY DEF AddThrew, Goes, MonitorInv, FrameOK
<1>2. CallOK(u, k) /\ EntriesOf(u, k)' = EntriesOf(u, k)
  BY <1>1 DEF CallsOK, EntriesOf
<1>3. <<u, k>> \in failed' <=> <<u, k>> \in failed \/ (u = t /\ k = called[t])
  BY <1>1
<1>4. CASE u = t /\ k = called[t]
  <2>1. Ahead(u, k)
    BY <1>1, <1>4 DEF Ahead, AfterEntries, MinOpen
  <2>2. ~ (k > called[t]) /\ stage'[t] \notin AfterEntries
    BY <1>1, <1>4, MonitoringAssumption DEF NumbersOK, AfterEntries, MinOpen
  <2>3. ~ Ahead(u, k)'
    BY <1>1, <1>4, <2>2 DEF Ahead
  <2> QED  BY <1>1, <1>2, <1>3, <1>4, <2>1, <2>2, <2>3 DEF CallOK
<1>5. CASE ~ (u = t /\ k = called[t])
  BY <1>1, <1>2, <1>3, <1>5 DEF CallOK, Ahead
<1> QED  BY <1>4, <1>5

LEMMA EntryKeepsCalls ==
    ASSUME MonitorInv, NumbersOK, CallsOK, NEW t \in Threads, AddEntry(t)
    PROVE  CallsOK'
<1> SUFFICES ASSUME NEW u \in Threads, NEW k \in 1..MaxIncrements
             PROVE  CallOK(u, k)'
  BY DEF CallsOK
<1>1. /\ stage[t] = "entries" /\ stage'[t] = "total"
      /\ UNCHANGED <<failed, called>>
      /\ u # t => stage'[u] = stage[u]
  BY DEF AddEntry, Goes, MonitorInv, FrameOK
<1>2. counter[t] \in Items
  BY <1>1, HoldsAnItem DEF Holding, Stages
<1>3. called[t] \in 1..MaxIncrements /\ duration[t] \in Durations
  BY <1>1, MonitoringAssumption DEF NumbersOK
<1>4. PICK w : w = <<t, called[t], duration[t]>>
  OBVIOUS
<1>5. /\ w \in Threads \X (1..MaxIncrements) \X Durations
      /\ w[1] = t /\ w[2] = called[t]
  BY <1>3, <1>4
<1>6. /\ counted'[counter[t]] = counted[counter[t]] \cup {w}
      /\ \A i \in Items \ {counter[t]} : counted'[i] = counted[i]
  BY <1>2, <1>4 DEF AddEntry, MonitorInv, FrameOK
<1>7. CallOK(u, k)
  BY DEF CallsOK
<1>8. CASE u = t /\ k = called[t]
  <2>1. Ahead(u, k)
    BY <1>1, <1>8 DEF Ahead, AfterEntries, MinOpen
  <2>2. EntriesOf(u, k) = {} /\ <<u, k>> \notin failed
    BY <1>7, <2>1 DEF CallOK
  <2>3. EntriesOf(u, k)' = {<<counter[t], w>>}
    <3>1. ASSUME NEW i \in Items, NEW c \in Threads \X (1..MaxIncrements) \X Durations,
                 c[1] = u, c[2] = k
          PROVE  c \in counted'[i] <=> i = counter[t] /\ c = w
      <4>1. c \notin counted[i]
        <5>1. <<i, c>> \notin EntriesOf(u, k)
          BY <2>2
        <5>2. <<i, c>>[1] = i /\ <<i, c>>[2] = c
          OBVIOUS
        <5> QED  BY <3>1, <5>1, <5>2 DEF EntriesOf
      <4> QED  BY <1>6, <4>1
    <3>2. w[1] = u /\ w[2] = k
      BY <1>5, <1>8
    <3>3. PICK x : x = <<counter[t], w>>
      OBVIOUS
    <3>4. x \in Items \X (Threads \X (1..MaxIncrements) \X Durations)
          /\ x[1] = counter[t] /\ x[2] = w
      BY <1>2, <1>5, <3>3
    <3>5. x \in EntriesOf(u, k)'
      BY <1>6, <3>2, <3>4 DEF EntriesOf
    <3>6. ASSUME NEW y \in EntriesOf(u, k)' PROVE y = x
      <4>1. /\ y \in Items \X (Threads \X (1..MaxIncrements) \X Durations)
            /\ y[2] \in counted'[y[1]] /\ y[2][1] = u /\ y[2][2] = k
        BY DEF EntriesOf
      <4>2. y[1] = counter[t] /\ y[2] = w /\ y = <<y[1], y[2]>>
        BY <3>1, <4>1
      <4> QED  BY <3>3, <4>2
    <3> QED  BY <3>3, <3>5, <3>6
  <2>4. ~ Ahead(u, k)'
    <3>1. ~ (k > called'[u]) /\ stage'[u] = "total"
      BY <1>1, <1>3, <1>8
    <3> QED  BY <3>1 DEF Ahead, AfterEntries, MinOpen
  <2> QED  BY <1>1, <2>2, <2>3, <2>4 DEF CallOK
<1>9. CASE ~ (u = t /\ k = called[t])
  <2>1. EntriesOf(u, k)' = EntriesOf(u, k)
    <3>1. ASSUME NEW i \in Items, NEW c, c[1] = u, c[2] = k
          PROVE  c \in counted'[i] <=> c \in counted[i]
      BY <1>5, <1>6, <1>9, <3>1
    <3> QED  BY <3>1 DEF EntriesOf
  <2> QED  BY <1>1, <1>7, <1>9, <2>1 DEF CallOK, Ahead
<1> QED  BY <1>8, <1>9

LEMMA CallsHold == Spec => []CallsOK
<1>1. MonitorInv /\ NumbersOK /\ CallsOK /\ [Next]_vars => CallsOK'
  <2> SUFFICES ASSUME MonitorInv, NumbersOK, CallsOK, [Next]_vars
               PROVE  CallsOK'
    OBVIOUS
  <2>1. CASE UNCHANGED vars
    <3>1. UNCHANGED <<stage, called, counted, failed>>
      BY <2>1 DEF vars, frameVars, historyVars
    <3>2. ASSUME NEW t \in Threads, NEW k \in 1..MaxIncrements
          PROVE  CallOK(t, k)'
      <4>1. EntriesOf(t, k)' = EntriesOf(t, k)
        BY <3>1 DEF EntriesOf
      <4>2. CallOK(t, k)
        BY DEF CallsOK
      <4> QED  BY <3>1, <4>1, <4>2 DEF CallOK, Ahead
    <3> QED  BY <3>2 DEF CallsOK
  <2>2. CASE Next
    <3>1. ASSUME NEW t \in Threads, NEW n \in Names, NEW d \in Durations, Increment(t, n, d)
          PROVE  CallsOK'
      BY <3>1, BeginKeepsCalls
    <3>2. ASSUME NEW t \in Threads, ThreadStep(t) PROVE CallsOK'
      <4>1. CASE LookupHits(t) \/ LookupMisses(t) \/ Adding(t)
                 \/ Added(t) \/ NotAdded(t) \/ LookupAgain(t)
        <5>1. /\ stage[t] \notin AfterEntries \cup {"idle"}
              /\ stage'[t] \notin AfterEntries \cup {"idle"}
              /\ \A u \in Threads \ {t} : stage'[u] = stage[u]
              /\ UNCHANGED <<called, counted, failed>>
          BY <4>1 DEF LookupHits, LookupMisses, Adding, Added, NotAdded, LookupAgain,
             Goes, frameVars, historyVars, MonitorInv, FrameOK, AfterEntries, MinOpen
        <5> QED  BY <5>1, CallsStand
      <4>2. CASE AddTotal(t) \/ Minimum(t) \/ ExchangeMinimum(t)
                 \/ Maximum(t) \/ ExchangeMaximum(t)
        <5>1. /\ stage[t] \in AfterEntries /\ stage'[t] \in AfterEntries \cup {"idle"}
              /\ \A u \in Threads \ {t} : stage'[u] = stage[u]
              /\ UNCHANGED <<called, counted, failed>>
          BY <4>2 DEF AddTotal, Minimum, Maximum, Glance, ReadField, ExchangeMinimum,
             ExchangeMaximum, Goes, historyVars, MonitorInv, FrameOK, AfterEntries, MinOpen
        <5> QED  BY <5>1, CallsStand
      <4> QED  BY <3>2, <4>1, <4>2, ThrowKeepsCalls, EntryKeepsCalls DEF ThreadStep
    <3> QED  BY <2>2, <3>1, <3>2 DEF Next
  <2> QED  BY <2>1, <2>2
<1> QED  BY <1>1, InitCalls, MonitorInvHolds, NumbersHold, PTL DEF Spec

\* A call of Increment that has returned was counted exactly once, in exactly
\* one counter; one that threw was not counted in any.
THEOREM CallsCountedOnce == Spec => []EndedCallsSettled
<1>1. ASSUME NumbersOK, CallsOK, NEW t \in Threads, NEW k \in 1..called[t],
             k = called[t] => stage[t] = "idle"
      PROVE  IF <<t, k>> \in failed
             THEN EntriesOf(t, k) = {}
             ELSE \E e : EntriesOf(t, k) = {e}
  <2>1. k \in 1..MaxIncrements /\ ~ (k > called[t])
    BY <1>1, MonitoringAssumption DEF NumbersOK
  <2>2. CallOK(t, k) /\ ~ Ahead(t, k)
    BY <1>1, <2>1 DEF CallsOK, Ahead
  <2> QED  BY <2>2 DEF CallOK
<1>2. NumbersOK /\ CallsOK => EndedCallsSettled
  BY <1>1 DEF EndedCallsSettled
<1> QED  BY <1>2, NumbersHold, CallsHold, PTL

\* What the test of the monitor expects, as many entries as calls, holds as
\* long as no call has thrown: the exception is the only way to lose one.
THEOREM OnlyExceptionsLose == Spec => [](failed = {} => EveryIncrementCounted)
<1>1. ASSUME EndedCallsSettled, failed = {}, \A t \in Threads : stage[t] = "idle",
             NEW t \in Threads, NEW k \in 1..called[t]
      PROVE  \E i \in Items : \E c \in counted[i] : c[1] = t /\ c[2] = k
  <2>1. \E e : EntriesOf(t, k) = {e}
    BY <1>1 DEF EndedCallsSettled
  <2> QED  BY <2>1 DEF EntriesOf
<1>2. EndedCallsSettled => (failed = {} => EveryIncrementCounted)
  BY <1>1 DEF EveryIncrementCounted
<1> QED  BY <1>2, CallsCountedOnce, PTL
-----------------------------------------------------------------------------
(* How many calls the exception can cost *)

\* The names that have a counter, and the calls of thread t that threw.
CountedNames == {n \in Names : Found(n) # {}}
FailedBy(t) == {k \in 1..MaxIncrements : <<t, k>> \in failed}

\* A thread loses one call of a name at most, and only while other threads
\* are creating the counter of that name.
LossIsBounded ==
    \A t \in Threads : Cardinality(FailedBy(t)) <= Cardinality(CountedNames)

\* While a thread is creating a counter, it has the loss of this call in hand.
Spared(t) ==
    IF stage[t] = "adding" THEN CountedNames \ {name[t]} ELSE CountedNames

LossOK(t) ==
    /\ stage[t] = "adding" /\ step[t] = "threw" => Found(name[t]) # {}
    /\ Cardinality(FailedBy(t)) <= Cardinality(Spared(t))

LEMMA CountedNamesGrow ==
    ASSUME MonitorInv, [Next]_vars, NEW t \in Threads, NEW n
    PROVE  /\ CountedNames \subseteq CountedNames'
           /\ CountedNames \ {n} \subseteq CountedNames' \ {n}
<1>1. ASSUME NEW m \in Names PROVE Found(m) \subseteq Found(m)'
  BY DictionaryGrows DEF Found, Dictionary
<1> QED  BY <1>1 DEF CountedNames

\* The calls a thread has lost are the same, or one more.
LEMMA FailedByStep ==
    ASSUME MonitorInv, NumbersOK, CallsOK, Next, NEW t \in Threads
    PROVE  /\ IsFiniteSet(FailedBy(t))
           /\ ~ AddThrew(t) => FailedBy(t)' = FailedBy(t)
           /\ AddThrew(t) => Cardinality(FailedBy(t)') = Cardinality(FailedBy(t)) + 1
<1>1. IsFiniteSet(FailedBy(t))
  <2>1. 1 \in Int /\ MaxIncrements \in Int
    BY MonitoringAssumption
  <2>2. IsFiniteSet(1..MaxIncrements)
    BY <2>1, FS_Interval
  <2> QED  BY <2>2, FS_Subset DEF FailedBy
<1>2. ASSUME ~ AddThrew(t) PROVE FailedBy(t)' = FailedBy(t)
  <2>1. failed' = failed \/ \E u \in Threads : AddThrew(u) /\ u # t
    BY <1>2 DEF Next, ThreadStep, Increment, LookupHits, LookupMisses, Adding, Added, NotAdded,
       LookupAgain, AddEntry, AddTotal, Minimum, Maximum, Glance, ReadField,
       ExchangeMinimum, ExchangeMaximum, historyVars
  <2>2. ASSUME NEW u \in Threads, AddThrew(u), u # t
        PROVE  \A k : <<t, k>> \in failed' <=> <<t, k>> \in failed
    BY <2>2 DEF AddThrew
  <2>3. \A k : <<t, k>> \in failed' <=> <<t, k>> \in failed
    BY <2>1, <2>2
  <2> QED  BY <2>3 DEF FailedBy
<1>3. ASSUME AddThrew(t)
      PROVE  Cardinality(FailedBy(t)') = Cardinality(FailedBy(t)) + 1
  <2>1. stage[t] = "adding" /\ failed' = failed \cup {<<t, called[t]>>}
    BY <1>3 DEF AddThrew, Goes
  <2>2. called[t] \in 1..MaxIncrements
    BY <2>1, MonitoringAssumption DEF NumbersOK
  <2>3. Ahead(t, called[t])
    BY <2>1 DEF Ahead, AfterEntries, MinOpen
  <2>4. <<t, called[t]>> \notin failed
    BY <2>2, <2>3 DEF CallsOK, CallOK
  <2>5. FailedBy(t)' = FailedBy(t) \cup {called[t]} /\ called[t] \notin FailedBy(t)
    BY <2>1, <2>2, <2>4 DEF FailedBy
  <2> QED  BY <1>1, <2>5, FS_AddElement
<1> QED  BY <1>1, <1>2, <1>3

\* The Dictionary throws only if it has the key, which it keeps.
LEMMA ThrownForAKey ==
    ASSUME MonitorInv, [Next]_vars, NEW t \in Threads,
           stage[t] = "adding" /\ step[t] = "threw" => Found(name[t]) # {},
           stage'[t] = "adding", step'[t] = "threw"
    PROVE  Found(name[t])' # {} /\ name'[t] = name[t]
<1>1. contents[Counters] \subseteq contents'[Counters]
  BY DictionaryGrows DEF Dictionary
<1>2. CASE UNCHANGED <<stage[t], step[t], name[t]>>
  <2>1. Found(name[t]) # {}
    BY <1>2
  <2> QED  BY <1>1, <1>2, <2>1 DEF Found
<1>3. CASE CopyThrows(t) /\ stage[t] = "adding" /\ UNCHANGED name
  <2>1. call[t] = [op |-> "add", cell |-> Counters, item |-> <<name[t], t>>]
        /\ name[t] \in Names
    BY <1>3 DEF MonitorInv, StageOK
  <2>2. PICK j \in contents[Counters] : Key[j] = Key[<<name[t], t>>]
    BY <1>3, <2>1 DEF CopyThrows, KeyFound, HasKey, Field
  <2>3. Key[<<name[t], t>>] = name[t]
    BY <2>1, MonitoringAssumption
  <2>4. j \in Found(name[t])
    BY <2>2, <2>3 DEF Found
  <2> QED  BY <1>1, <1>3, <2>4 DEF Found
<1>4. \/ UNCHANGED <<stage[t], step[t], name[t]>>
      \/ CopyThrows(t) /\ stage[t] = "adding" /\ UNCHANGED name
  <2>1. CASE UNCHANGED vars
    BY <2>1 DEF vars, frameVars, cowVars
  <2>2. ASSUME NEW u \in Threads, u # t,
               (\E n \in Names, d \in Durations : Increment(u, n, d)) \/ ThreadStep(u)
        PROVE  UNCHANGED <<stage[t], step[t], name[t]>>
    BY <2>2, OthersStand
  <2>3. CASE \E n \in Names, d \in Durations : Increment(t, n, d)
    BY <2>3 DEF Increment, Goes, MonitorInv, FrameOK
  <2>4. CASE Adding(t)
    <3>1. stage' = stage /\ name' = name /\ stage[t] = "adding"
      BY <2>4 DEF Adding, frameVars
    <3>2. step \in [Threads -> Steps]
      BY DEF MonitorInv, CowInv, CowTypeOK
    <3>3. CopyThrows(t) \/ step'[t] # "threw"
      BY <2>4, <3>2 DEF Adding, CallStep, Moves, ReadBefore, Refused, Accepted, CopyToAdd,
         CopyToRemove, Installed, Overwritten
    <3> QED  BY <3>1, <3>3
  <2>5. CASE LookupMisses(t)
    <3>1. step'[t] # "threw"
      BY <2>5 DEF LookupMisses, Call, Moves, MonitorInv, CowInv, CowTypeOK
    <3> QED  BY <3>1
  <2>6. CASE \/ LookupHits(t) \/ Added(t) \/ NotAdded(t) \/ AddThrew(t) \/ LookupAgain(t)
             \/ AddEntry(t) \/ AddTotal(t)
             \/ Minimum(t) \/ ExchangeMinimum(t) \/ Maximum(t) \/ ExchangeMaximum(t)
    <3>1. stage'[t] # "adding"
      BY <2>6 DEF LookupHits, Added, NotAdded, AddThrew, LookupAgain, AddEntry, AddTotal, Minimum,
         Maximum, Glance, ReadField, ExchangeMinimum, ExchangeMaximum, Goes, MonitorInv, FrameOK
    <3> QED  BY <3>1
  <2>7. CASE Next
    <3>1. PICK u \in Threads :
             (\E n \in Names, d \in Durations : Increment(u, n, d)) \/ ThreadStep(u)
      BY <2>7 DEF Next
    <3>2. CASE u # t
      BY <2>2, <3>1, <3>2
    <3>3. CASE u = t
      BY <2>3, <2>4, <2>5, <2>6, <3>1, <3>3 DEF ThreadStep
    <3> QED  BY <3>2, <3>3
  <2> QED  BY <2>1, <2>7
<1> QED  BY <1>2, <1>3, <1>4

LEMMA LossStep ==
    ASSUME IsFiniteSet(Names), MonitorInv, NumbersOK, CallsOK, [Next]_vars,
           NEW t \in Threads, LossOK(t)
    PROVE  LossOK(t)'
<1>1. stage'[t] = "adding" /\ step'[t] = "threw" => Found(name[t])' # {}
  BY ThrownForAKey DEF LossOK, Found
<1>2. /\ IsFiniteSet(CountedNames') /\ IsFiniteSet(Spared(t)')
      /\ IsFiniteSet(CountedNames) /\ IsFiniteSet(Spared(t))
  <2>1. CountedNames \subseteq Names /\ CountedNames' \subseteq Names
    BY DEF CountedNames
  <2>2. IsFiniteSet(CountedNames) /\ IsFiniteSet(CountedNames')
    BY <2>1, FS_Subset
  <2>3. Spared(t) \subseteq CountedNames /\ Spared(t)' \subseteq CountedNames'
    BY DEF Spared
  <2> QED  BY <2>2, <2>3, FS_Subset
<1>3. ASSUME FailedBy(t)' = FailedBy(t), Spared(t) \subseteq Spared(t)'
      PROVE  Cardinality(FailedBy(t)') <= Cardinality(Spared(t)')
  <2>1. /\ Cardinality(Spared(t)) <= Cardinality(Spared(t)')
        /\ Cardinality(Spared(t)) \in Nat /\ Cardinality(Spared(t)') \in Nat
    BY <1>2, <1>3, FS_Subset, FS_CardinalityType
  <2>2. IsFiniteSet(FailedBy(t))
    <3>1. 1 \in Int /\ MaxIncrements \in Int
      BY MonitoringAssumption
    <3>2. IsFiniteSet(1..MaxIncrements)
      BY <3>1, FS_Interval
    <3> QED  BY <3>2, FS_Subset DEF FailedBy
  <2>3. Cardinality(FailedBy(t)) \in Nat
    BY <2>2, FS_CardinalityType
  <2>4. \A a, b, c \in Nat : a <= b /\ b <= c => a <= c
    OBVIOUS
  <2> QED  BY <1>3, <2>1, <2>3, <2>4 DEF LossOK
<1>4. CASE UNCHANGED vars
  <2>1. FailedBy(t)' = FailedBy(t)
    BY <1>4 DEF vars, historyVars, FailedBy
  <2>2. Spared(t)' = Spared(t)
    <3>1. UNCHANGED <<stage, name, contents>>
      BY <1>4 DEF vars, frameVars, cowVars
    <3>2. CountedNames' = CountedNames
      BY <3>1 DEF CountedNames, Found
    <3> QED  BY <3>1, <3>2 DEF Spared
  <2> QED  BY <1>1, <1>3, <2>1, <2>2 DEF LossOK
<1>5. CASE Next /\ AddThrew(t)
  <2>1. stage[t] = "adding" /\ step[t] = "threw" /\ stage'[t] = "idle" /\ name[t] \in Names
    BY <1>5 DEF AddThrew, Goes, MonitorInv, FrameOK, StageOK
  <2>2. name[t] \in CountedNames
    BY <2>1 DEF LossOK, CountedNames
  <2>3. Cardinality(CountedNames \ {name[t]}) = Cardinality(CountedNames) - 1
    BY <1>2, <2>2, FS_RemoveElement
  <2>4. Cardinality(FailedBy(t)') = Cardinality(FailedBy(t)) + 1
        /\ IsFiniteSet(FailedBy(t))
    BY <1>5, FailedByStep
  <2>5. Cardinality(FailedBy(t)) <= Cardinality(CountedNames \ {name[t]})
    BY <2>1 DEF LossOK, Spared
  <2>6. Cardinality(CountedNames) <= Cardinality(CountedNames')
    BY <1>2, CountedNamesGrow, FS_Subset
  <2>7. /\ Cardinality(FailedBy(t)) \in Nat /\ Cardinality(CountedNames) \in Nat
        /\ Cardinality(CountedNames') \in Nat
    BY <1>2, <2>4, FS_CardinalityType
  <2>8. Cardinality(FailedBy(t)') <= Cardinality(CountedNames')
    BY <2>3, <2>4, <2>5, <2>6, <2>7
  <2> QED  BY <1>1, <2>1, <2>8 DEF LossOK, Spared
<1>6. CASE Next /\ ~ AddThrew(t)
  <2>1. FailedBy(t)' = FailedBy(t)
    BY <1>6, FailedByStep
  <2>2. CASE stage'[t] = stage[t] /\ name'[t] = name[t]
    <3>1. Spared(t) \subseteq Spared(t)'
      BY <2>2, CountedNamesGrow DEF Spared
    <3> QED  BY <1>1, <1>3, <2>1, <3>1 DEF LossOK
  <2>3. CASE stage'[t] # "adding"
    <3>1. Spared(t) \subseteq Spared(t)'
      BY <2>3, CountedNamesGrow DEF Spared
    <3> QED  BY <1>1, <1>3, <2>1, <3>1 DEF LossOK
  <2>4. CASE LookupMisses(t)
    <3>1. /\ stage[t] = "lookup" /\ stage'[t] = "adding" /\ name' = name
          /\ name[t] \notin CountedNames
      BY <2>4 DEF LookupMisses, Goes, MonitorInv, FrameOK, CountedNames
    <3>2. Spared(t) \subseteq Spared(t)'
      BY <3>1, CountedNamesGrow DEF Spared
    <3> QED  BY <1>1, <1>3, <2>1, <3>2 DEF LossOK
  <2>5. \/ stage'[t] = stage[t] /\ name'[t] = name[t]
        \/ stage'[t] # "adding"
        \/ LookupMisses(t)
    <3>1. PICK u \in Threads :
             (\E n \in Names, d \in Durations : Increment(u, n, d)) \/ ThreadStep(u)
      BY <1>6 DEF Next
    <3>2. CASE u # t
      BY <3>1, <3>2, OthersStand
    <3>3. CASE u = t
      <4>1. CASE \E n \in Names, d \in Durations : Increment(t, n, d)
        BY <4>1 DEF Increment, Goes, MonitorInv, FrameOK
      <4>2. CASE Adding(t)
        BY <4>2 DEF Adding, frameVars
      <4>3. CASE \/ LookupHits(t) \/ Added(t) \/ NotAdded(t) \/ AddThrew(t) \/ LookupAgain(t)
                 \/ AddEntry(t) \/ AddTotal(t)
                 \/ Minimum(t) \/ ExchangeMinimum(t) \/ Maximum(t) \/ ExchangeMaximum(t)
        BY <4>3 DEF LookupHits, Added, NotAdded, AddThrew, LookupAgain, AddEntry, AddTotal, Minimum,
           Maximum, Glance, ReadField, ExchangeMinimum, ExchangeMaximum, Goes, MonitorInv, FrameOK
      <4> QED  BY <3>1, <3>3, <4>1, <4>2, <4>3 DEF ThreadStep
    <3> QED  BY <3>2, <3>3
  <2> QED  BY <2>2, <2>3, <2>4, <2>5
<1> QED  BY <1>4, <1>5, <1>6

\* A thread can lose one call of each name at most: it looks for the counter
\* before it tries to create it, and the exception shows that another thread
\* has created it meanwhile.
THEOREM LossBounded ==
    ASSUME IsFiniteSet(Names)
    PROVE  Spec => []LossIsBounded
<1> DEFINE I == \A t \in Threads : LossOK(t)
<1>1. Init => I
  <2> SUFFICES ASSUME Init, NEW t \in Threads PROVE LossOK(t)
    OBVIOUS
  <2>1. stage[t] = "idle" /\ FailedBy(t) = {}
    BY DEF Init, FailedBy
  <2>2. Spared(t) = {}
    <3>1. contents[Counters] = {}
      BY MonitoringAssumption DEF Init, CowInit
    <3>2. \A n : Found(n) = {}
      BY <3>1 DEF Found
    <3>3. CountedNames = {}
      BY <3>2 DEF CountedNames
    <3> QED  BY <3>3 DEF Spared
  <2>3. Cardinality({}) = 0
    BY FS_EmptySet
  <2>4. Cardinality(FailedBy(t)) <= Cardinality(Spared(t))
    BY <2>1, <2>2, <2>3
  <2> QED  BY <2>1, <2>4 DEF LossOK
<1>2. MonitorInv /\ NumbersOK /\ CallsOK /\ I /\ [Next]_vars => I'
  BY LossStep
<1>3. I => LossIsBounded
  <2> SUFFICES ASSUME I, NEW t \in Threads
               PROVE  Cardinality(FailedBy(t)) <= Cardinality(CountedNames)
    BY DEF LossIsBounded
  <2>1. /\ IsFiniteSet(CountedNames) /\ Spared(t) \subseteq CountedNames
        /\ IsFiniteSet(Spared(t)) /\ IsFiniteSet(FailedBy(t))
    <3>1. 1 \in Int /\ MaxIncrements \in Int
      BY MonitoringAssumption
    <3>2. IsFiniteSet(1..MaxIncrements)
      BY <3>1, FS_Interval
    <3>3. CountedNames \subseteq Names /\ Spared(t) \subseteq CountedNames
          /\ FailedBy(t) \subseteq 1..MaxIncrements
      BY DEF CountedNames, Spared, FailedBy
    <3>4. IsFiniteSet(CountedNames)
      BY <3>3, FS_Subset
    <3> QED  BY <3>2, <3>3, <3>4, FS_Subset
  <2>2. Cardinality(Spared(t)) <= Cardinality(CountedNames)
    BY <2>1, FS_Subset
  <2>3. /\ Cardinality(Spared(t)) \in Nat /\ Cardinality(CountedNames) \in Nat
        /\ Cardinality(FailedBy(t)) \in Nat
    BY <2>1, FS_CardinalityType
  <2>4. \A a, b, c \in Nat : a <= b /\ b <= c => a <= c
    OBVIOUS
  <2> QED  BY <2>2, <2>3, <2>4 DEF LossOK
<1> QED  BY <1>1, <1>2, <1>3, MonitorInvHolds, NumbersHold, CallsHold, PTL DEF Spec
=============================================================================
