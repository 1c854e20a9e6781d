----------------------------- MODULE AtomicSets -----------------------------
(***************************************************************************)
(* What a caller of CollectionUtils is promised: every call has its effect *)
(* on the collection at one moment between its begin and its end, and      *)
(* answers according to what the collection holds at that moment.  Items   *)
(* with the same key are equal to the collection.                          *)
(***************************************************************************)
CONSTANTS
    Threads,        \* the threads that call
    Cells,          \* the fields that hold a collection
    Dictionaries,   \* those of them whose Add throws when it has the key
    Items,          \* what is added and removed
    Key,            \* the key of an item
    NoCall          \* the call of a thread that makes none

VARIABLES
    contents,       \* what each collection holds
    call,           \* the call of a thread
    answer          \* "none" without a call, "pending" before it took effect

setVars == <<contents, call, answer>>

Calls == [op : {"add", "remove"}, cell : Cells, item : Items]
HasKey(s, i) == \E j \in s : Key[j] = Key[i]
Without(s, i) == {j \in s : Key[j] # Key[i]}

Init ==
    /\ contents = [c \in Cells |-> {}]
    /\ call = [t \in Threads |-> NoCall]
    /\ answer = [t \in Threads |-> "none"]

Begin(t, k) ==
    /\ answer[t] = "none"
    /\ call' = [call EXCEPT ![t] = k]
    /\ answer' = [answer EXCEPT ![t] = "pending"]
    /\ UNCHANGED contents

Add(t) ==
    /\ answer[t] = "pending" /\ call[t].op = "add"
    /\ ~ HasKey(contents[call[t].cell], call[t].item)
    /\ contents' = [contents EXCEPT ![call[t].cell] = @ \cup {call[t].item}]
    /\ answer' = [answer EXCEPT ![t] = "true"]
    /\ UNCHANGED call

Remove(t) ==
    /\ answer[t] = "pending" /\ call[t].op = "remove"
    /\ HasKey(contents[call[t].cell], call[t].item)
    /\ contents' = [contents EXCEPT ![call[t].cell] = Without(@, call[t].item)]
    /\ answer' = [answer EXCEPT ![t] = "true"]
    /\ UNCHANGED call

\* A key is added once and removed once.
Refuse(t) ==
    /\ answer[t] = "pending"
    /\ HasKey(contents[call[t].cell], call[t].item) <=> call[t].op = "add"
    /\ answer' = [answer EXCEPT ![t] = "false"]
    /\ UNCHANGED <<contents, call>>

\* A dictionary may refuse with an exception what it has already.
Throw(t) ==
    /\ answer[t] = "pending" /\ call[t].op = "add"
    /\ call[t].cell \in Dictionaries
    /\ HasKey(contents[call[t].cell], call[t].item)
    /\ answer' = [answer EXCEPT ![t] = "threw"]
    /\ UNCHANGED <<contents, call>>

End(t) ==
    /\ answer[t] \notin {"none", "pending"}
    /\ call' = [call EXCEPT ![t] = NoCall]
    /\ answer' = [answer EXCEPT ![t] = "none"]
    /\ UNCHANGED contents

Next == \E t \in Threads :
    \/ \E k \in Calls : Begin(t, k)
    \/ Add(t) \/ Remove(t) \/ Refuse(t) \/ Throw(t) \/ End(t)

Spec == Init /\ [][Next]_setVars
=============================================================================
