---------------------------- MODULE CopyOnWrite -----------------------------
(***************************************************************************)
(* ThreadSafeAdd and ThreadSafeRemove of CollectionUtils, which share      *)
(* HashSets and Dictionaries between threads by replacing them: the        *)
(* reference is read, the collection is copied, and CompareExchange        *)
(* installs the copy if the field still holds the collection that was      *)
(* read.  Each read of the field is a step of its own, because the code    *)
(* reads it again after it took beforeCas.                                 *)
(*                                                                         *)
(* A published collection is never written again, so what it holds says    *)
(* everything but its identity, and of the identity only one thing         *)
(* matters: whether the field still holds the collection a thread read as  *)
(* beforeCas.  Those threads are in "current".                             *)
(***************************************************************************)
CONSTANTS
    Threads,        \* the threads that call
    Cells,          \* the fields that hold a collection
    Dictionaries,   \* those of them that hold a Dictionary
    Items,          \* what is added and removed
    Key,            \* the key the comparer of the collection compares
    NoCall          \* the call of a thread that makes none

Calls == [op : {"add", "remove"}, cell : Cells, item : Items]

\* ThreadSafeRemove exists for sets only.
ASSUME CopyOnWriteAssumption ==
    /\ Dictionaries \subseteq Cells
    /\ NoCall \notin Calls

VARIABLES
    contents,       \* what the collection in each field holds
    call,           \* the call of a thread
    step,           \* its next step, or its outcome
    copy,           \* newSet or newDictionary of the thread
    current         \* the threads whose beforeCas is still in the field

cowVars == <<contents, call, step, copy, current>>

Outcomes == {"true", "false", "threw"}
Steps == {"idle", "read", "contains", "copy", "cas"} \cup Outcomes

HasKey(s, i) == \E j \in s : Key[j] = Key[i]
Without(s, i) == {j \in s : Key[j] # Key[i]}

Field(t) == contents[call[t].cell]

\* KeyFound without the comparer of the collection.
KeyFoundByReference(t) == call[t].item \in Field(t)

KeyFound(t) == HasKey(Field(t), call[t].item)

CowTypeOK ==
    /\ contents \in [Cells -> SUBSET Items]
    /\ call \in [Threads -> Calls \cup {NoCall}]
    /\ step \in [Threads -> Steps]
    /\ copy \in [Threads -> SUBSET Items]
    /\ current \subseteq Threads
    /\ \A t \in Threads : call[t] = NoCall <=> step[t] = "idle"

CowInit ==
    /\ contents = [c \in Cells |-> {}]
    /\ call = [t \in Threads |-> NoCall]
    /\ step = [t \in Threads |-> "idle"]
    /\ copy = [t \in Threads |-> {}]
    /\ current = {}

-----------------------------------------------------------------------------
(* The steps of a call *)

Moves(t, from, to) ==
    /\ step[t] = from
    /\ step' = [step EXCEPT ![t] = to]

\* The threads that read the field t writes.
Overtaken(t) == {u \in current : call[u].cell = call[t].cell}

\* Installed without the comparison of afterCas and beforeCas.
InstalledAnyway(t) ==
    /\ Moves(t, "cas", "true")
    /\ contents' = [contents EXCEPT ![call[t].cell] = copy[t]]
    /\ current' = current \ Overtaken(t)
    /\ copy' = [copy EXCEPT ![t] = {}]
    /\ UNCHANGED call

\* Overwritten that answers instead of beginning again.
OverwrittenGivesUp(t) ==
    /\ t \notin current
    /\ Moves(t, "cas", "false")
    /\ copy' = [copy EXCEPT ![t] = {}]
    /\ UNCHANGED <<contents, call, current>>

\* Overwritten with beforeCas read before the loop.
OverwrittenStays(t) ==
    /\ t \notin current
    /\ Moves(t, "cas", "contains")
    /\ copy' = [copy EXCEPT ![t] = {}]
    /\ UNCHANGED <<contents, call, current>>

\* A caller enters one of the methods.
Call(t, op, c, i) ==
    /\ Moves(t, "idle", "read")
    /\ op = "remove" => c \notin Dictionaries
    /\ call' = [call EXCEPT ![t] = [op |-> op, cell |-> c, item |-> i]]
    /\ UNCHANGED <<contents, copy, current>>

\* beforeCas = set
ReadBefore(t) ==
    /\ Moves(t, "read", "contains")
    /\ current' = current \cup {t}
    /\ UNCHANGED <<contents, call, copy>>

\* The first test reads the field for the second time: the answer false.
Refused(t) ==
    /\ Moves(t, "contains", "false")
    /\ KeyFound(t) <=> call[t].op = "add"
    /\ current' = current \ {t}
    /\ UNCHANGED <<contents, call, copy>>

Accepted(t) ==
    /\ Moves(t, "contains", "copy")
    /\ KeyFound(t) <=> call[t].op = "remove"
    /\ UNCHANGED <<contents, call, copy, current>>

\* The copy reads the field for the third time.  A HashSet ignores an item it
\* has already, a Dictionary throws.
CopyToAdd(t) ==
    /\ Moves(t, "copy", "cas")
    /\ call[t].op = "add"
    /\ ~ (KeyFound(t) /\ call[t].cell \in Dictionaries)
    /\ copy' = [copy EXCEPT ![t] = IF KeyFound(t) THEN Field(t)
                                   ELSE Field(t) \cup {call[t].item}]
    /\ UNCHANGED <<contents, call, current>>

CopyThrows(t) ==
    /\ Moves(t, "copy", "threw")
    /\ call[t].op = "add"
    /\ KeyFound(t) /\ call[t].cell \in Dictionaries
    /\ current' = current \ {t}
    /\ UNCHANGED <<contents, call, copy>>

CopyToRemove(t) ==
    /\ Moves(t, "copy", "cas")
    /\ call[t].op = "remove"
    /\ copy' = [copy EXCEPT ![t] = Without(Field(t), call[t].item)]
    /\ UNCHANGED <<contents, call, current>>

\* CompareExchange finds beforeCas and installs the copy.
Installed(t) ==
    /\ t \in current
    /\ Moves(t, "cas", "true")
    /\ contents' = [contents EXCEPT ![call[t].cell] = copy[t]]
    /\ current' = current \ Overtaken(t)
    /\ copy' = [copy EXCEPT ![t] = {}]
    /\ UNCHANGED call

\* It finds another collection, and the loop begins again.
Overwritten(t) ==
    /\ t \notin current
    /\ Moves(t, "cas", "read")
    /\ copy' = [copy EXCEPT ![t] = {}]
    /\ UNCHANGED <<contents, call, current>>

CallStep(t) ==
    \/ ReadBefore(t) \/ Refused(t) \/ Accepted(t)
    \/ CopyToAdd(t) \/ CopyThrows(t) \/ CopyToRemove(t)
    \/ Installed(t) \/ Overwritten(t)

\* The caller has its answer.
Return(t) ==
    /\ step[t] \in Outcomes
    /\ step' = [step EXCEPT ![t] = "idle"]
    /\ call' = [call EXCEPT ![t] = NoCall]
    /\ UNCHANGED <<contents, copy, current>>

CowNext == \E t \in Threads :
    \/ \E op \in {"add", "remove"}, c \in Cells, i \in Items : Call(t, op, c, i)
    \/ CallStep(t)
    \/ Return(t)

CowSpec == CowInit /\ [][CowNext]_cowVars
-----------------------------------------------------------------------------
(* Properties *)

\* A collection has a key at most once: ThreadSafeAdd never installs a copy in
\* which another thread has put an item of the same key meanwhile.
KeysUnique ==
    \A c \in Cells : \A i, j \in contents[c] : Key[i] = Key[j] => i = j

\* Calls are atomic: each takes effect at its CompareExchange, or at the
\* read that decides a refusal, and no call is lost or answered wrongly.
Sets == INSTANCE AtomicSets WITH
    answer <- [t \in Threads |->
                 IF step[t] = "idle" THEN "none"
                 ELSE IF step[t] \in Outcomes THEN step[t] ELSE "pending"]

ImplementsSets == Sets!Spec
=============================================================================
