------------------------------- MODULE Future -------------------------------
(***************************************************************************)
(* What the holder of an asynchronous task is promised: the task settles   *)
(* once, with a value or an exception; it calls back once, after that; and *)
(* asking for the result is atomic, at some moment between the question    *)
(* and the answer.  AsyncTask implements this.                             *)
(***************************************************************************)
CONSTANTS Tasks, Readers, NoTask

VARIABLES
    outcome,    \* pending, value or exception
    notified,   \* the tasks that have called back
    asked,      \* the task whose result a reader has asked for
    told        \* the answer

futureVars == <<outcome, notified, asked, told>>

Init ==
    /\ outcome = [k \in Tasks |-> "pending"]
    /\ notified = {}
    /\ asked = [r \in Readers |-> NoTask]
    /\ told = [r \in Readers |-> "nothing"]

Settle(k) ==
    /\ outcome[k] = "pending"
    /\ outcome' \in {[outcome EXCEPT ![k] = o] : o \in {"value", "exception"}}
    /\ UNCHANGED <<notified, asked, told>>

Notify(k) ==
    /\ outcome[k] # "pending"
    /\ k \notin notified
    /\ notified' = notified \cup {k}
    /\ UNCHANGED <<outcome, asked, told>>

Ask(r, k) ==
    /\ asked[r] = NoTask
    /\ asked' = [asked EXCEPT ![r] = k]
    /\ UNCHANGED <<outcome, notified, told>>

Tell(r) ==
    /\ asked[r] # NoTask
    /\ told[r] = "nothing"
    /\ told' = [told EXCEPT ![r] = outcome[asked[r]]]
    /\ UNCHANGED <<outcome, notified, asked>>

Leave(r) ==
    /\ told[r] # "nothing"
    /\ asked' = [asked EXCEPT ![r] = NoTask]
    /\ told' = [told EXCEPT ![r] = "nothing"]
    /\ UNCHANGED <<outcome, notified>>

Next ==
    \/ \E k \in Tasks : Settle(k) \/ Notify(k)
    \/ \E r \in Readers : Tell(r) \/ Leave(r) \/ \E k \in Tasks : Ask(r, k)

Spec == Init /\ [][Next]_futureVars
=============================================================================
