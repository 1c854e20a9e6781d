------------------------- MODULE CopyOnWriteProofs --------------------------
(***************************************************************************)
(* Proofs about CopyOnWrite.  The inductive invariant says what a thread   *)
(* knows whose beforeCas is still in the field: everything it has read     *)
(* since is still true, although it read the field three times.            *)
(***************************************************************************)
EXTENDS CopyOnWrite, TLAPS

\* What the thread is about to install, as long as nobody overtakes it.
Prepared(t) ==
    \/ call[t].op = "add" /\ ~ KeyFound(t) /\ copy[t] = Field(t) \cup {call[t].item}
    \/ call[t].op = "remove" /\ KeyFound(t) /\ copy[t] = Without(Field(t), call[t].item)

PlanOK(t) ==
    t \in current =>
        /\ step[t] \in {"contains", "copy", "cas"}
        /\ step[t] = "copy" => (KeyFound(t) <=> call[t].op = "remove")
        /\ step[t] = "cas" => Prepared(t)

CowInv == CowTypeOK /\ \A t \in Threads : PlanOK(t)

-----------------------------------------------------------------------------
(* The invariant *)

LEMMA InitInv == CowInit => CowInv
BY CopyOnWriteAssumption DEF CowInit, CowInv, CowTypeOK, PlanOK, Steps, Outcomes

\* Types are kept by every step.
LEMMA StepTypes ==
    ASSUME CowTypeOK, [CowNext]_cowVars
    PROVE  CowTypeOK'
<1>1. CASE UNCHANGED cowVars
  BY <1>1 DEF cowVars, CowTypeOK
<1>2. ASSUME NEW t \in Threads, NEW op \in {"add", "remove"}, NEW c \in Cells,
             NEW i \in Items, Call(t, op, c, i)
      PROVE  CowTypeOK'
  <2>1. [op |-> op, cell |-> c, item |-> i] \in Calls
    BY DEF Calls
  <2> QED  BY <1>2, <2>1, CopyOnWriteAssumption DEF Call, Moves, CowTypeOK, Steps, Outcomes
<1>3. ASSUME NEW t \in Threads, CallStep(t)
      PROVE  CowTypeOK'
  <2>1. step[t] # "idle" /\ call[t] \in Calls
    BY <1>3 DEF CallStep, ReadBefore, Refused, Accepted, CopyToAdd, CopyThrows,
                CopyToRemove, Installed, Overwritten, Moves, CowTypeOK
  <2>2. call[t].cell \in Cells /\ call[t].item \in Items /\ Field(t) \subseteq Items
    BY <2>1 DEF Calls, Field, CowTypeOK
  <2>3. CASE ReadBefore(t) \/ Refused(t) \/ Accepted(t) \/ CopyThrows(t) \/ Overwritten(t)
    BY <2>3 DEF ReadBefore, Refused, Accepted, CopyThrows, Overwritten, Moves,
                CowTypeOK, Steps, Outcomes
  <2>4. CASE CopyToAdd(t) \/ CopyToRemove(t)
    BY <2>2, <2>4 DEF CopyToAdd, CopyToRemove, Without, Moves, CowTypeOK, Steps, Outcomes
  <2>5. CASE Installed(t)
    BY <2>2, <2>5 DEF Installed, Overtaken, Moves, CowTypeOK, Steps, Outcomes
  <2> QED  BY <1>3, <2>3, <2>4, <2>5 DEF CallStep
<1>4. ASSUME NEW t \in Threads, Return(t)
      PROVE  CowTypeOK'
  BY <1>4 DEF Return, CowTypeOK, Steps, Outcomes
<1> QED  BY <1>1, <1>2, <1>3, <1>4 DEF CowNext

\* A step of another thread leaves a plan alone, or ends it.
LEMMA OthersKeepPlan ==
    ASSUME CowInv, NEW u \in Threads, NEW t \in Threads, t # u,
           \/ \E op \in {"add", "remove"}, c \in Cells, i \in Items : Call(u, op, c, i)
           \/ CallStep(u)
           \/ Return(u)
    PROVE  PlanOK(t)'
<1> SUFFICES ASSUME t \in current' PROVE PlanOK(t)'
  BY DEF PlanOK
<1>1. step'[t] = step[t] /\ call'[t] = call[t] /\ copy'[t] = copy[t]
  BY DEF CowInv, CowTypeOK, CallStep, Call, Return, Moves, ReadBefore, Refused,
         Accepted, CopyToAdd, CopyThrows, CopyToRemove, Installed, Overwritten
<1>2. t \in current
  BY DEF CallStep, Call, Return, ReadBefore, Refused, Accepted, CopyToAdd,
         CopyThrows, CopyToRemove, Installed, Overwritten
<1>3. Field(t)' = Field(t)
  <2>1. CASE ~ Installed(u)
    BY <1>1, <2>1 DEF Field, CallStep, Call, Return, ReadBefore, Refused,
       Accepted, CopyToAdd, CopyThrows, CopyToRemove, Overwritten
  <2>2. CASE Installed(u)
    <3>1. call[t].cell # call[u].cell
      BY <1>2, <2>2 DEF Installed, Overtaken
    <3> QED  BY <1>1, <2>2, <3>1 DEF Field, Installed, CowInv, CowTypeOK
  <2> QED  BY <2>1, <2>2
<1>4. PlanOK(t)
  BY DEF CowInv
<1> QED  BY <1>1, <1>2, <1>3, <1>4 DEF PlanOK, Prepared, KeyFound

\* A thread's own step follows its plan.
LEMMA OwnStepKeepsPlan ==
    ASSUME CowInv, NEW t \in Threads,
           \/ \E op \in {"add", "remove"}, c \in Cells, i \in Items : Call(t, op, c, i)
           \/ CallStep(t)
           \/ Return(t)
    PROVE  PlanOK(t)'
<1> USE DEF PlanOK
<1>0. PlanOK(t) /\ step \in [Threads -> Steps] /\ copy \in [Threads -> SUBSET Items]
  BY DEF CowInv, CowTypeOK
<1>1. CASE \/ \E op \in {"add", "remove"}, c \in Cells, i \in Items : Call(t, op, c, i)
           \/ Return(t)
  BY <1>0, <1>1 DEF Call, Return, Moves, Outcomes
<1>2. CASE ReadBefore(t) \/ Refused(t) \/ CopyThrows(t) \/ Overwritten(t)
  BY <1>0, <1>2 DEF ReadBefore, Refused, CopyThrows, Overwritten, Moves
<1>3. CASE Accepted(t)
  BY <1>0, <1>3 DEF Accepted, Moves, KeyFound, Field
<1>4. CASE CopyToAdd(t)
  BY <1>0, <1>4 DEF CopyToAdd, Moves, KeyFound, Field, Prepared
<1>5. CASE CopyToRemove(t)
  BY <1>0, <1>5 DEF CopyToRemove, Moves, KeyFound, Field, Prepared
<1>6. CASE Installed(t)
  BY <1>6 DEF Installed, Overtaken
<1> QED  BY <1>1, <1>2, <1>3, <1>4, <1>5, <1>6 DEF CallStep

LEMMA StepInv == CowInv /\ [CowNext]_cowVars => CowInv'
<1> SUFFICES ASSUME CowInv, [CowNext]_cowVars PROVE CowInv'
  OBVIOUS
<1>1. CowTypeOK'
  BY StepTypes DEF CowInv
<1>2. CASE UNCHANGED cowVars
  BY <1>1, <1>2 DEF cowVars, CowInv, PlanOK, Prepared, KeyFound, Field
<1>3. CASE CowNext
  <2>1. PICK u \in Threads :
           \/ \E op \in {"add", "remove"}, c \in Cells, i \in Items : Call(u, op, c, i)
           \/ CallStep(u)
           \/ Return(u)
    BY <1>3 DEF CowNext
  <2>2. ASSUME NEW t \in Threads PROVE PlanOK(t)'
    BY <2>1, OthersKeepPlan, OwnStepKeepsPlan
  <2> QED  BY <1>1, <2>2 DEF CowInv
<1> QED  BY <1>2, <1>3

LEMMA InvHolds == CowSpec => []CowInv
BY InitInv, StepInv, PTL DEF CowSpec

\* The variables of the two methods keep their types for any threads, fields
\* and items.
THEOREM CowTypeCorrect == CowSpec => []CowTypeOK
<1>1. CowInv => CowTypeOK
  BY DEF CowInv
<1> QED  BY <1>1, InvHolds, PTL
-----------------------------------------------------------------------------
(* Atomicity *)

\* The initial states of the methods are those of the atomic collections.
LEMMA InitIsAtomic == CowInit => Sets!Init
BY DEF CowInit, Sets!Init

\* Every step is a step of the atomic collections or leaves them alone: the
\* CompareExchange that succeeds is the call, and so is the read that refuses.
LEMMA StepIsAtomic ==
    ASSUME CowInv, [CowNext]_cowVars
    PROVE  [Sets!Next]_(Sets!setVars)
<1> DEFINE Pending(t) == step[t] # "idle" /\ step[t] \notin Outcomes
           Answer == [t \in Threads |-> IF step[t] = "idle" THEN "none"
                        ELSE IF step[t] \in Outcomes THEN step[t] ELSE "pending"]
<1> USE DEF Sets!setVars
<1>1. CASE UNCHANGED cowVars
  BY <1>1 DEF cowVars
<1>2. ASSUME NEW t \in Threads, NEW op \in {"add", "remove"}, NEW c \in Cells,
             NEW i \in Items, Call(t, op, c, i)
      PROVE  Sets!Next
  <2> DEFINE k == [op |-> op, cell |-> c, item |-> i]
  <2>1. k \in Sets!Calls
    BY DEF Sets!Calls
  <2>2. Answer[t] = "none" /\ Answer' = [Answer EXCEPT ![t] = "pending"]
    BY <1>2 DEF Call, Moves, CowInv, CowTypeOK, Outcomes
  <2>3. Sets!Begin(t, k)
    BY <1>2, <2>2 DEF Sets!Begin, Call
  <2> QED  BY <2>1, <2>3 DEF Sets!Next
<1>3. ASSUME NEW t \in Threads, CallStep(t)
      PROVE  [Sets!Next]_(Sets!setVars)
  <2>1. Answer[t] = "pending" /\ call[t] \in Calls
    BY <1>3 DEF CallStep, ReadBefore, Refused, Accepted, CopyToAdd, CopyThrows,
       CopyToRemove, Installed, Overwritten, Moves, CowInv, CowTypeOK, Outcomes
  <2>2. CASE \/ ReadBefore(t) \/ Accepted(t) \/ CopyToAdd(t) \/ CopyToRemove(t)
             \/ Overwritten(t)
    <3>1. Answer' = Answer
      BY <2>2 DEF ReadBefore, Accepted, CopyToAdd, CopyToRemove, Overwritten,
                  Moves, CowInv, CowTypeOK, Outcomes
    <3> QED  BY <2>2, <3>1 DEF ReadBefore, Accepted, CopyToAdd, CopyToRemove, Overwritten
  <2>3. CASE Refused(t)
    <3>1. Answer' = [Answer EXCEPT ![t] = "false"]
      BY <2>3 DEF Refused, Moves, CowInv, CowTypeOK, Outcomes
    <3>2. Sets!Refuse(t)
      BY <2>1, <2>3, <3>1 DEF Sets!Refuse, Sets!HasKey, Refused, KeyFound, HasKey, Field
    <3> QED  BY <3>2 DEF Sets!Next
  <2>4. CASE CopyThrows(t)
    <3>1. Answer' = [Answer EXCEPT ![t] = "threw"]
      BY <2>4 DEF CopyThrows, Moves, CowInv, CowTypeOK, Outcomes
    <3>2. Sets!Throw(t)
      BY <2>1, <2>4, <3>1 DEF Sets!Throw, Sets!HasKey, CopyThrows, KeyFound, HasKey, Field
    <3> QED  BY <3>2 DEF Sets!Next
  <2>5. CASE Installed(t)
    <3>1. Answer' = [Answer EXCEPT ![t] = "true"]
      BY <2>5 DEF Installed, Moves, CowInv, CowTypeOK, Outcomes
    <3>2. Prepared(t)
      BY <2>5 DEF Installed, Moves, CowInv, PlanOK
    <3>3. contents' = [contents EXCEPT ![call[t].cell] = copy[t]] /\ UNCHANGED call
      BY <2>5 DEF Installed
    <3>4. CASE call[t].op = "add"
      <4>1. ~ HasKey(Field(t), call[t].item) /\ copy[t] = Field(t) \cup {call[t].item}
        BY <3>2, <3>4 DEF Prepared, KeyFound
      <4>2. Sets!Add(t)
        BY <2>1, <3>1, <3>3, <3>4, <4>1 DEF Sets!Add, Sets!HasKey, HasKey, Field
      <4> QED  BY <4>2 DEF Sets!Next
    <3>5. CASE call[t].op = "remove"
      <4>1. HasKey(Field(t), call[t].item) /\ copy[t] = Without(Field(t), call[t].item)
        BY <3>2, <3>5 DEF Prepared, KeyFound
      <4>2. Sets!Remove(t)
        BY <2>1, <3>1, <3>3, <3>5, <4>1
           DEF Sets!Remove, Sets!HasKey, Sets!Without, HasKey, Without, Field
      <4> QED  BY <4>2 DEF Sets!Next
    <3> QED  BY <2>1, <3>4, <3>5 DEF Calls
  <2> QED  BY <1>3, <2>2, <2>3, <2>4, <2>5 DEF CallStep
<1>4. ASSUME NEW t \in Threads, Return(t)
      PROVE  Sets!Next
  <2>1. Answer[t] \notin {"none", "pending"} /\ Answer' = [Answer EXCEPT ![t] = "none"]
    BY <1>4 DEF Return, CowInv, CowTypeOK, Outcomes
  <2>2. Sets!End(t)
    BY <1>4, <2>1 DEF Sets!End, Return
  <2> QED  BY <2>2 DEF Sets!Next
<1> QED  BY <1>1, <1>2, <1>3, <1>4 DEF CowNext

\* ThreadSafeAdd and ThreadSafeRemove are atomic, for any number of threads,
\* although they read the field three times and copy what they read last.
THEOREM CopyOnWriteIsAtomic == CowSpec => ImplementsSets
BY InitIsAtomic, StepIsAtomic, InvHolds, PTL DEF CowSpec, ImplementsSets, Sets!Spec
-----------------------------------------------------------------------------
(* Unique keys *)

LEMMA StepKeepsKeys ==
    ASSUME CowInv, KeysUnique, [CowNext]_cowVars
    PROVE  KeysUnique'
<1>1. CASE UNCHANGED contents
  BY <1>1 DEF KeysUnique
<1>2. ASSUME NEW t \in Threads, Installed(t)
      PROVE  KeysUnique'
  <2>1. Prepared(t) /\ contents' = [contents EXCEPT ![call[t].cell] = copy[t]]
    BY <1>2 DEF Installed, Moves, CowInv, PlanOK
  <2>2. SUFFICES ASSUME NEW c \in Cells, NEW i \in contents'[c], NEW j \in contents'[c],
                        Key[i] = Key[j]
                 PROVE  i = j
    BY DEF KeysUnique
  <2>3. CASE c # call[t].cell
    <3>1. contents'[c] = contents[c]
      BY <2>1, <2>3 DEF CowInv, CowTypeOK
    <3> QED  BY <2>2, <3>1 DEF KeysUnique
  <2>4. CASE c = call[t].cell
    <3>1. contents'[c] = copy[t]
      BY <2>1, <2>4 DEF CowInv, CowTypeOK
    <3> QED  BY <2>1, <2>2, <2>4, <3>1
                DEF Prepared, KeyFound, HasKey, Without, Field, KeysUnique
  <2> QED  BY <2>3, <2>4
<1>3. UNCHANGED contents \/ \E t \in Threads : Installed(t)
  BY DEF CowNext, CallStep, Call, Return, ReadBefore, Refused, Accepted, CopyToAdd,
         CopyThrows, CopyToRemove, Overwritten, cowVars
<1> QED  BY <1>1, <1>2, <1>3

\* No collection ever has two items of one key.
THEOREM KeysUniqueCorrect == CowSpec => []KeysUnique
<1>1. CowInit => KeysUnique
  BY DEF CowInit, KeysUnique
<1> QED  BY <1>1, StepKeepsKeys, InvHolds, PTL DEF CowSpec
=============================================================================
