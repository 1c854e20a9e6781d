------------------------------ MODULE Matching ------------------------------
(***************************************************************************)
(* How Execute finds the executor of a task and whether it is persistent:  *)
(* DarkFlow/Execution/TaskRouter.cs asks its matcher for the name of an    *)
(* executor, and the executor asks Persister.IsPersistent.  Both matchers  *)
(* are chains, of which AggregateMatcher tries one link after the other.   *)
(* DarkFlow/Bootstrap/Create.cs builds a chain from the settings; the      *)
(* others are built in code.  The namespace and the attribute matchers     *)
(* remember their answer for a type of tasks in a Dictionary, which the    *)
(* threads share as CopyOnWrite says.                                      *)
(*                                                                         *)
(* A cell is the _cache of a matcher, named by its chain and its position. *)
(***************************************************************************)
EXTENDS CopyOnWrite, Integers, Sequences

CONSTANTS
    Tasks,
    Types,
    TypeOf,     \* the type of a task
    Chains,     \* the matchers of "route" and of "persist", as configured
    FromSettings,  \* the chains of Create.BuildMatcher, not built in code
    Executors,  \* the names in _executors
    Format,     \* what the template of a ContentMatcher makes of a task
    NoName,     \* routeTo that is not set
    NoTask,
    NoAnswer

Kinds == {"namespace", "attribute", "func", "content"}
ByType == {"namespace", "attribute"}

\* "matches" is the set of tasks that a matcher matches; of a content matcher,
\* those that have the member its template names.
Settings == [kind : Kinds, matches : SUBSET Tasks, routeTo : {NoName} \cup STRING]

\* A namespace or attribute matcher decides by the type alone.  The settings
\* know no other kinds (BuildMatcher throws); in code, a matcher that has no
\* template must be given a name (its constructor throws).
ASSUME MatchingAssumption ==
    /\ Chains \in [{"route", "persist"} -> Seq(Settings)]
    /\ Chains["route"] # <<>>
    /\ FromSettings \subseteq DOMAIN Chains
    /\ \A c \in DOMAIN Chains : \A n \in DOMAIN Chains[c] :
        IF c \in FromSettings THEN Chains[c][n].kind \in ByType
        ELSE Chains[c][n].routeTo = NoName => Chains[c][n].kind = "content"
    /\ Cells = UNION {{c} \X DOMAIN Chains[c] : c \in DOMAIN Chains}
    /\ Dictionaries = Cells
    /\ TypeOf \in [Tasks -> Types]
    /\ Items = [type : Types, matched : BOOLEAN]
    /\ \A i \in Items : Key[i] = i.type
    /\ \A c \in DOMAIN Chains : \A n \in DOMAIN Chains[c] :
        Chains[c][n].kind \in ByType =>
            \A k, l \in Tasks : TypeOf[k] = TypeOf[l] =>
                (k \in Chains[c][n].matches <=> l \in Chains[c][n].matches)
    /\ NoTask \notin Tasks
    /\ NoName \notin Executors

VARIABLES
    task,    \* the argument of the Execute a thread is in
    at,      \* the matcher it is at: <<chain, position>>
    name,    \* the executor the router has found
    answer,  \* history: how the last Execute of a thread ended
    cold     \* history: the threads whose task was of a type that a cache on
             \* its way did not hold when Execute began

matchVars == <<cowVars, task, at, name, answer, cold>>

Routed(k, e, p) == [of |-> k, executor |-> e, persistent |-> p]
Threw(k, why) == [of |-> k, threw |-> why]

-----------------------------------------------------------------------------
(* The chains *)

\* The default of BuildMatcher's parameter executorName.
DefaultName == "no-matter"

\* The name that the matcher built of s answers with, in chain c.  In code it
\* is the argument of To.  BuildMatcher calls To with routeTo, or executorName
\* if that is not set; but for an attribute matcher always with executorName.
QueueName(c, s, k) ==
    IF s.kind = "content" THEN Format[k]
    ELSE IF s.routeTo = NoName \/ (s.kind = "attribute" /\ c \in FromSettings) THEN DefaultName
    ELSE s.routeTo

Matcher(t) == Chains[at[t][1]][at[t][2]]

\* A plausible mistake: a static _cache.
CacheIsStatic(t) == <<at[t][1], 1>>

\* _cache of the matcher.
Cache(t) == at[t]

\* The entries of the cache for the type of the task.
Cached(t) == {e \in contents[Cache(t)] : e.type = TypeOf[task[t]]}

\* The part of the answer that a dictionary keeps.
Probe(t) == [type |-> TypeOf[task[t]], matched |-> task[t] \in Matcher(t).matches]

\* A chain ends at the first matcher that matches or throws.
Stops(s, k) == k \in s.matches \/ s.kind = "content"

OnTheWay(c, n, k) == \A m \in 1..n-1 : ~Stops(Chains[c][m], k)

Decisive(c, k) ==
    {Chains[c][n] : n \in {n \in DOMAIN Chains[c] :
                            OnTheWay(c, n, k) /\ Stops(Chains[c][n], k)}}

\* Some cache on the way of task k does not hold its type.
Cold(k) == \E c \in Cells :
    /\ Chains[c[1]][c[2]].kind \in ByType
    /\ OnTheWay(c[1], c[2], k)
    /\ \A e \in contents[c] : e.type # TypeOf[k]

MatchingInit ==
    /\ CowInit
    /\ task = [t \in Threads |-> NoTask]
    /\ at = [t \in Threads |-> <<"route", 1>>]
    /\ name = [t \in Threads |-> NoName]
    /\ answer = [t \in Threads |-> NoAnswer]
    /\ cold = {}

\* Execute returns or throws.
Ends(t, a) ==
    /\ answer' = [answer EXCEPT ![t] = a]
    /\ task' = [task EXCEPT ![t] = NoTask]
    /\ at' = [at EXCEPT ![t] = <<"route", 1>>]
    /\ name' = [name EXCEPT ![t] = NoName]
    /\ UNCHANGED cold

\* The first matcher of the chain is tried; a chain without matchers matches
\* nothing, as NullPersister does.
Enters(t, c, e) ==
    \/ /\ Chains[c] # <<>>
       /\ at' = [at EXCEPT ![t] = <<c, 1>>]
       /\ name' = [name EXCEPT ![t] = e]
       /\ UNCHANGED <<task, answer, cold>>
    \/ Chains[c] = <<>> /\ Ends(t, Routed(task[t], e, FALSE))

\* The chain has matched: the router looks the executor up, which asks the
\* persister.
Matches(t) ==
    LET found == QueueName("route", Matcher(t), task[t]) IN
    \/ /\ at[t][1] = "route"
       /\ found \in Executors
       /\ Enters(t, "persist", found)
    \/ /\ at[t][1] = "route"
       /\ found \notin Executors
       /\ Ends(t, Threw(task[t], "not found"))
    \/ /\ at[t][1] = "persist"
       /\ Ends(t, Routed(task[t], name[t], TRUE))

\* The next matcher is tried, or none has matched.
DoesNotMatch(t) ==
    \/ /\ at[t][2] < Len(Chains[at[t][1]])
       /\ at' = [at EXCEPT ![t] = <<@[1], @[2] + 1>>]
       /\ UNCHANGED <<task, name, answer, cold>>
    \/ /\ at[t][2] = Len(Chains[at[t][1]])
       /\ Ends(t, IF at[t][1] = "route" THEN Threw(task[t], "no match")
                  ELSE Routed(task[t], name[t], FALSE))

Continues(t, matched) == IF matched THEN Matches(t) ELSE DoesNotMatch(t)

-----------------------------------------------------------------------------
(* The steps of Execute *)

Execute(t, k) ==
    /\ task[t] = NoTask
    /\ task' = [task EXCEPT ![t] = k]
    /\ answer' = [answer EXCEPT ![t] = NoAnswer]
    /\ cold' = IF Cold(k) THEN cold \cup {t} ELSE cold \ {t}
    /\ UNCHANGED <<cowVars, at, name>>

AtMatcher(t, kinds) ==
    /\ task[t] # NoTask
    /\ step[t] = "idle"
    /\ Matcher(t).kind \in kinds

\* TryGetValue finds the answer for the type.
Hit(t) ==
    /\ AtMatcher(t, ByType)
    /\ \E e \in Cached(t) : Continues(t, e.matched)
    /\ UNCHANGED cowVars

\* It does not: the matcher probes the type and calls ThreadSafeAdd.
Miss(t) ==
    /\ AtMatcher(t, ByType)
    /\ Cached(t) = {}
    /\ Call(t, "add", Cache(t), Probe(t))
    /\ UNCHANGED <<task, at, name, answer, cold>>

Adding(t) ==
    /\ CallStep(t)
    /\ UNCHANGED <<task, at, name, answer, cold>>

\* What ThreadSafeAdd answers is ignored.
Added(t) ==
    /\ step[t] \in {"true", "false"}
    /\ Continues(t, call[t].item.matched)
    /\ Return(t)

\* A plausible mistake: AddThrew that leaves the call of ThreadSafeAdd.
AddThrewStays(t) ==
    /\ step[t] = "threw"
    /\ Ends(t, Threw(task[t], "cache"))
    /\ UNCHANGED cowVars

\* What it throws leaves Execute.
AddThrew(t) ==
    /\ step[t] = "threw"
    /\ Ends(t, Threw(task[t], "cache"))
    /\ Return(t)

\* FuncMatcher asks its functions each time.
AskFunctions(t) ==
    /\ AtMatcher(t, {"func"})
    /\ Continues(t, task[t] \in Matcher(t).matches)
    /\ UNCHANGED cowVars

\* ContentMatcher always matches, or a member is missing.
FormatContent(t) ==
    /\ AtMatcher(t, {"content"})
    /\ IF task[t] \in Matcher(t).matches THEN Matches(t) ELSE Ends(t, Threw(task[t], "member"))
    /\ UNCHANGED cowVars

MatchingStep(t) ==
    \/ Hit(t) \/ Miss(t) \/ Adding(t) \/ Added(t) \/ AddThrew(t)
    \/ AskFunctions(t) \/ FormatContent(t)

MatchingNext == \E t \in Threads :
    MatchingStep(t) \/ \E k \in Tasks : Execute(t, k)

MatchingSpec == MatchingInit /\ [][MatchingNext]_matchVars

-----------------------------------------------------------------------------
(* Properties *)

\* The values of the variables; a thread has a call of ThreadSafeAdd for the
\* matcher it is at and the type it was given, and for nothing else.
MatchingTypeOK ==
    /\ CowTypeOK
    /\ task \in [Threads -> Tasks \cup {NoTask}]
    /\ cold \subseteq Threads
    /\ \A t \in Threads :
        /\ at[t] \in Cells
        /\ name[t] \in Executors <=> at[t][1] = "persist"
        /\ call[t] # NoCall =>
            /\ task[t] # NoTask
            /\ call[t].cell = at[t]
            /\ call[t].item.type = TypeOf[task[t]]

\* Where the author of s wants the tasks it matches: to the executor that he
\* names, or that the template names.
Target(s, k) ==
    IF s.kind = "content" THEN Format[k]
    ELSE IF s.routeTo = NoName THEN DefaultName ELSE s.routeTo

\* What the two chains say of task k, without caches, threads and builders: in
\* each the first matcher that matches, or throws, decides.
Reference(k) ==
    IF Decisive("route", k) = {} THEN Threw(k, "no match")
    ELSE LET s == CHOOSE s \in Decisive("route", k) : TRUE
             p == Decisive("persist", k)
         IN  IF k \notin s.matches THEN Threw(k, "member")
             ELSE IF Target(s, k) \notin Executors THEN Threw(k, "not found")
             ELSE IF \E d \in p : k \notin d.matches THEN Threw(k, "member")
             ELSE Routed(k, Target(s, k), p # {})

\* Every call of Execute is routed as the chains are configured, whatever the
\* caches hold and other threads do.  The one exception is the exception of the
\* Dictionary, which ThreadSafeAdd lets through: it can cost a call its task
\* only if the call began before the type was in all caches on its way.  So it
\* is where the routes are built in code; routes by attribute that come from
\* the settings violate it.
RoutedByFirstMatch ==
    \A t \in Threads : answer[t] # NoAnswer =>
        LET k == answer[t].of IN
            \/ answer[t] = Reference(k)
            \/ answer[t] = Threw(k, "cache") /\ t \in cold
=============================================================================
