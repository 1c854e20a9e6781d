----------------------------- MODULE Monitoring -----------------------------
(***************************************************************************)
(* Monitor and Counter: threads that call Increment(name, duration) find   *)
(* or create the counter of a name in a dictionary that is shared by       *)
(* copying (CopyOnWrite), and then add the duration to that counter        *)
(* without locks.                                                          *)
(*                                                                         *)
(* A Counter object is named by its name and the thread that created it:   *)
(* counters are never removed, so a thread creates at most one of a name.  *)
(* Fields of 64 bits are read in one step.                                 *)
(***************************************************************************)
EXTENDS CopyOnWrite, Integers, FiniteSets, FiniteSetsExt

CONSTANTS
    Names,          \* names of counters
    Durations,      \* durations, in ticks
    MaxValue,       \* long.MaxValue
    NoName,         \* counterName before the first call
    NoCounter,      \* no Counter object
    MaxIncrements,  \* bound: the calls of Increment of each thread
    Counters        \* the field _counters of the monitor

ASSUME MonitoringAssumption ==
    /\ Items = Names \X Threads
    /\ Key = [i \in Items |-> i[1]]
    /\ Cells = {Counters} /\ Dictionaries = Cells
    /\ NoCounter \notin Items /\ NoName \notin Names
    /\ MaxIncrements \in Nat
    /\ MaxValue \in Nat
    /\ Durations \subseteq 0..MaxValue

VARIABLES
    stage,          \* the next step of a thread in Increment
    name,           \* counterName
    duration,       \* currentDuration
    counter,        \* the Counter object GetCounter returned
    seen,           \* beforeCas of SetData
    entries,        \* the fields of each Counter object
    total,
    minimum,
    maximum,
    called,         \* history: the calls of Increment of each thread
    counted,        \* history: the durations that reached a counter's entries
    failed          \* history: the calls that ended with an exception

frameVars == <<stage, name, duration, counter, seen>>
counterVars == <<entries, total, minimum, maximum>>
historyVars == <<called, counted, failed>>
vars == <<cowVars, frameVars, counterVars, historyVars>>

Stages == {"idle", "lookup", "adding", "again", "ugly", "entries", "total",
           "glance min", "read min", "cas min", "glance max", "read max", "cas max"}

\* The threads that hold a counter: they have it from GetCounter.
Holding(t) == stage[t] \in Stages \ {"idle", "lookup", "adding", "again", "ugly"}

MonitoringTypeOK ==
    /\ CowTypeOK
    /\ stage \in [Threads -> Stages]
    /\ name \in [Threads -> Names \cup {NoName}]
    /\ duration \in [Threads -> Durations \cup {0}]
    /\ counter \in [Threads -> Items \cup {NoCounter}]
    /\ \A t \in Threads : Holding(t) => counter[t] \in Items
    /\ seen \in [Threads -> 0..MaxValue]
    /\ entries \in [Items -> Nat]
    /\ total \in [Items -> Nat]
    /\ minimum \in [Items -> 0..MaxValue]
    /\ maximum \in [Items -> 0..MaxValue]
    /\ called \in [Threads -> 0..MaxIncrements]
    /\ \A i \in Items : counted[i] \subseteq Threads \X (1..MaxIncrements) \X Durations
    /\ failed \subseteq Threads \X (1..MaxIncrements)

Init ==
    /\ CowInit
    /\ stage = [t \in Threads |-> "idle"]
    /\ name = [t \in Threads |-> NoName]
    /\ duration = [t \in Threads |-> 0]
    /\ counter = [t \in Threads |-> NoCounter]
    /\ seen = [t \in Threads |-> 0]
    /\ entries = [i \in Items |-> 0]
    /\ total = [i \in Items |-> 0]
    /\ minimum = [i \in Items |-> MaxValue]
    /\ maximum = [i \in Items |-> 0]
    /\ called = [t \in Threads |-> 0]
    /\ counted = [i \in Items |-> {}]
    /\ failed = {}

-----------------------------------------------------------------------------
(* Monitor.GetCounter *)

Goes(t, from, to) ==
    /\ stage[t] = from
    /\ stage' = [stage EXCEPT ![t] = to]

\* The counters of name n in the dictionary: none or one.
Found(n) == {i \in contents[Counters] : Key[i] = n}

Increment(t, n, d) ==
    /\ called[t] < MaxIncrements
    /\ Goes(t, "idle", "lookup")
    /\ name' = [name EXCEPT ![t] = n]
    /\ duration' = [duration EXCEPT ![t] = d]
    /\ called' = [called EXCEPT ![t] = @ + 1]
    /\ UNCHANGED <<cowVars, counter, seen, counterVars, counted, failed>>

\* TryGetValue finds the counter.
LookupHits(t) ==
    /\ Goes(t, "lookup", "entries")
    /\ \E i \in Found(name[t]) : counter' = [counter EXCEPT ![t] = i]
    /\ UNCHANGED <<cowVars, name, duration, seen, counterVars, historyVars>>

\* It does not: a new Counter goes into ThreadSafeAdd.
LookupMisses(t) ==
    /\ Goes(t, "lookup", "adding")
    /\ Found(name[t]) = {}
    /\ Call(t, "add", Counters, <<name[t], t>>)
    /\ UNCHANGED <<name, duration, counter, seen, counterVars, historyVars>>

Adding(t) ==
    /\ stage[t] = "adding"
    /\ CallStep(t)
    /\ UNCHANGED <<frameVars, counterVars, historyVars>>

\* The new counter is in the dictionary.
Added(t) ==
    /\ step[t] = "true"
    /\ Goes(t, "adding", "entries")
    /\ Return(t)
    /\ counter' = [counter EXCEPT ![t] = <<name[t], t>>]
    /\ UNCHANGED <<name, duration, seen, counterVars, historyVars>>

\* NotAdded with the counter that was not added.
NotAddedKeepsOwn(t) ==
    /\ step[t] = "false"
    /\ Goes(t, "adding", "entries")
    /\ Return(t)
    /\ counter' = [counter EXCEPT ![t] = <<name[t], t>>]
    /\ UNCHANGED <<name, duration, seen, counterVars, historyVars>>

\* Another thread has added one.
NotAdded(t) ==
    /\ step[t] = "false"
    /\ Goes(t, "adding", "again")
    /\ Return(t)
    /\ UNCHANGED <<name, duration, counter, seen, counterVars, historyVars>>

\* AddThrew with the exception caught in ThreadSafeAdd.
AddThrewIsCaught(t) ==
    /\ step[t] = "threw"
    /\ Goes(t, "adding", "entries")
    /\ Return(t)
    /\ UNCHANGED <<name, duration, counter, seen, counterVars, historyVars>>

\* The exception of the Dictionary leaves Increment.
AddThrew(t) ==
    /\ step[t] = "threw"
    /\ Goes(t, "adding", "idle")
    /\ Return(t)
    /\ failed' = failed \cup {<<t, called[t]>>}
    /\ UNCHANGED <<name, duration, counter, seen, counterVars, called, counted>>

\* The second TryGetValue; "Some ugly race condition" if it fails, too.
LookupAgain(t) ==
    /\ IF Found(name[t]) = {}
       THEN Goes(t, "again", "ugly") /\ UNCHANGED counter
       ELSE /\ Goes(t, "again", "entries")
            /\ \E i \in Found(name[t]) : counter' = [counter EXCEPT ![t] = i]
    /\ UNCHANGED <<cowVars, name, duration, seen, counterVars, historyVars>>

-----------------------------------------------------------------------------
(* Counter.Increment *)

AddEntry(t) ==
    /\ Goes(t, "entries", "total")
    /\ entries' = [entries EXCEPT ![counter[t]] = @ + 1]
    /\ counted' = [counted EXCEPT ![counter[t]] = @ \cup {<<t, called[t], duration[t]>>}]
    /\ UNCHANGED <<cowVars, name, duration, counter, seen, total, minimum, maximum,
                   called, failed>>

AddTotal(t) ==
    /\ Goes(t, "total", "glance min")
    /\ total' = [total EXCEPT ![counter[t]] = @ + duration[t]]
    /\ UNCHANGED <<cowVars, name, duration, counter, seen, entries, minimum, maximum,
                   historyVars>>

\* The two exit cases of SetData.
Smaller(t, value) == value < duration[t]
Greater(t, value) == value > duration[t]

\* SetData looks once without a barrier, reads the field as beforeCas, and
\* exchanges it if it has not changed.
Glance(t, from, to, after, exitCase) ==
    /\ stage[t] = from
    /\ stage' = [stage EXCEPT ![t] = IF exitCase THEN after ELSE to]
    /\ UNCHANGED <<cowVars, name, duration, counter, seen, counterVars, historyVars>>

ReadField(t, from, to, after, value, exitCase) ==
    /\ stage[t] = from
    /\ stage' = [stage EXCEPT ![t] = IF exitCase THEN after ELSE to]
    /\ seen' = [seen EXCEPT ![t] = IF exitCase THEN 0 ELSE value]
    /\ UNCHANGED <<cowVars, name, duration, counter, counterVars, historyVars>>

Minimum(t) ==
    LET value == minimum[counter[t]] IN
    \/ Glance(t, "glance min", "read min", "glance max", Smaller(t, value))
    \/ ReadField(t, "read min", "cas min", "glance max", value, Smaller(t, value))

Maximum(t) ==
    LET value == maximum[counter[t]] IN
    \/ Glance(t, "glance max", "read max", "idle", Greater(t, value))
    \/ ReadField(t, "read max", "cas max", "idle", value, Greater(t, value))

\* ExchangeMinimum that does not read the field again.
ExchangeMinimumSpins(t) ==
    /\ stage[t] = "cas min"
    /\ minimum[counter[t]] = seen[t]
    /\ minimum' = [minimum EXCEPT ![counter[t]] = duration[t]]
    /\ Goes(t, "cas min", "glance max")
    /\ seen' = [seen EXCEPT ![t] = 0]
    /\ UNCHANGED <<cowVars, name, duration, counter, entries, total, maximum, historyVars>>

\* ExchangeMinimum as a plain assignment.
ExchangeMinimumAnyway(t) ==
    /\ Goes(t, "cas min", "glance max")
    /\ minimum' = [minimum EXCEPT ![counter[t]] = duration[t]]
    /\ seen' = [seen EXCEPT ![t] = 0]
    /\ UNCHANGED <<cowVars, name, duration, counter, entries, total, maximum, historyVars>>

ExchangeMinimum(t) ==
    /\ stage[t] = "cas min"
    /\ \/ /\ minimum[counter[t]] = seen[t]
          /\ minimum' = [minimum EXCEPT ![counter[t]] = duration[t]]
          /\ Goes(t, "cas min", "glance max")
       \/ /\ minimum[counter[t]] # seen[t]
          /\ Goes(t, "cas min", "read min")
          /\ UNCHANGED minimum
    /\ seen' = [seen EXCEPT ![t] = 0]
    /\ UNCHANGED <<cowVars, name, duration, counter, entries, total, maximum, historyVars>>

\* ExchangeMaximum without the loop.
ExchangeMaximumOnce(t) ==
    /\ Goes(t, "cas max", "idle")
    /\ maximum' = [maximum EXCEPT ![counter[t]] = IF @ = seen[t] THEN duration[t] ELSE @]
    /\ seen' = [seen EXCEPT ![t] = 0]
    /\ UNCHANGED <<cowVars, name, duration, counter, entries, total, minimum, historyVars>>

ExchangeMaximum(t) ==
    /\ stage[t] = "cas max"
    /\ \/ /\ maximum[counter[t]] = seen[t]
          /\ maximum' = [maximum EXCEPT ![counter[t]] = duration[t]]
          /\ Goes(t, "cas max", "idle")
       \/ /\ maximum[counter[t]] # seen[t]
          /\ Goes(t, "cas max", "read max")
          /\ UNCHANGED maximum
    /\ seen' = [seen EXCEPT ![t] = 0]
    /\ UNCHANGED <<cowVars, name, duration, counter, entries, total, minimum, historyVars>>

-----------------------------------------------------------------------------
ThreadStep(t) ==
    \/ LookupHits(t) \/ LookupMisses(t) \/ Adding(t)
    \/ Added(t) \/ NotAdded(t) \/ AddThrew(t) \/ LookupAgain(t)
    \/ AddEntry(t) \/ AddTotal(t)
    \/ Minimum(t) \/ ExchangeMinimum(t) \/ Maximum(t) \/ ExchangeMaximum(t)

Next == \E t \in Threads :
    \/ \E n \in Names, d \in Durations : Increment(t, n, d)
    \/ ThreadStep(t)

Spec == Init /\ [][Next]_vars
FairSpec == Spec /\ \A t \in Threads : WF_vars(ThreadStep(t))
-----------------------------------------------------------------------------
(* Properties *)

\* GetCounter gives every thread the counter that the dictionary has for the
\* name, so that a name is never counted in two objects.
OneCounterPerName ==
    /\ \A t \in Threads : Holding(t) => Found(name[t]) = {counter[t]}
    /\ \A i \in Items : counted[i] # {} => i \in contents[Counters]

\* "Some ugly race condition. Take a closer look at monitor class." is never
\* thrown: what ThreadSafeAdd refused is found by the second TryGetValue.
NoUglyRace == \A t \in Threads : stage[t] # "ugly"

\* Those who have not finished with counter i.
Busy(i) == {t \in Threads : Holding(t) /\ counter[t] = i}

DurationsOf(i) == {c[3] : c \in counted[i]}

\* A counter nobody works on has exact numbers: minimum and maximum survive
\* their races, and nothing is lost between entries and total.
CounterExactAtRest ==
    \A i \in Items : Busy(i) = {} =>
        /\ entries[i] = Cardinality(counted[i])
        /\ total[i] = FoldSet(LAMBDA c, sum : c[3] + sum, 0, counted[i])
        /\ counted[i] # {} =>
              /\ minimum[i] = Min(DurationsOf(i))
              /\ maximum[i] = Max(DurationsOf(i))

\* Whoever reads while others write sees a minimum and a maximum that enclose
\* the duration of every finished call, and that are durations themselves.
ExtremesEnclose ==
    \A i \in Items : \A c \in counted[i] :
        ~ (Holding(c[1]) /\ called[c[1]] = c[2]) =>
            /\ minimum[i] <= c[3] /\ c[3] <= maximum[i]
            /\ minimum[i] \in DurationsOf(i) /\ maximum[i] \in DurationsOf(i)

\* No call of Increment is lost: the test of the monitor expects as many
\* entries as there were calls.
EveryIncrementCounted ==
    (\A t \in Threads : stage[t] = "idle") =>
        \A t \in Threads : \A k \in 1..called[t] :
            \E i \in Items : \E c \in counted[i] : c[1] = t /\ c[2] = k

\* Every call of Increment ends, however often its exchanges fail.
IncrementsEnd == \A t \in Threads : stage[t] # "idle" ~> stage[t] \in {"idle", "ugly"}
=============================================================================
