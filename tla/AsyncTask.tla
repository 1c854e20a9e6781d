------------------------------ MODULE AsyncTask ------------------------------
(***************************************************************************)
(* DarkFlow/Async/AsyncTask.cs: a task whose result others read while a    *)
(* worker executes it.  The fields are not guarded: Execute writes the     *)
(* exception before it publishes the status with VolatileWrite, and        *)
(* EnsureRanToCompletion reads the status up to three times.  Each read is *)
(* a step (a build that reads once gives some of these behaviours), and    *)
(* reads of one thread stay in order, as on x86.                           *)
(*                                                                         *)
(* What InternalExecute does is left to the module that uses this one.     *)
(***************************************************************************)
CONSTANTS
    Tasks,      \* each is executed at most once
    Readers,    \* threads that ask for results
    NoTask

ASSUME AsyncAssumption == NoTask \notin Tasks

VARIABLES
    completionStatus,   \* NotCompleted, RanToCompletion or Failed
    exception,          \* the tasks whose _exception is set
    stage,              \* where Execute of a task is
    calledBack,         \* the tasks whose callback has been called
    reading,            \* the task each reader asks
    readStep,           \* the next step of a reader
    told                \* what it has got

executeVars == <<completionStatus, exception, stage, calledBack>>
readVars == <<reading, readStep, told>>
asyncVars == <<executeVars, readVars>>

Stages == {"new", "executing", "succeeded", "threw", "caught", "calling", "returned"}

ReadSteps ==
    {"out", "completed?", "pending?", "failed?", "result", "exception", "answered"}

Answers == {"nothing", "not completed", "result", "exception", "race condition"}

AsyncInit ==
    /\ completionStatus = [k \in Tasks |-> "NotCompleted"]
    /\ exception = {}
    /\ stage = [k \in Tasks |-> "new"]
    /\ calledBack = {}
    /\ reading = [r \in Readers |-> NoTask]
    /\ readStep = [r \in Readers |-> "out"]
    /\ told = [r \in Readers |-> "nothing"]

-----------------------------------------------------------------------------
(* Execute, on the worker that runs the task *)

Goes(k, from, to) ==
    /\ stage[k] = from
    /\ stage' = [stage EXCEPT ![k] = to]

Publish(k, status) ==
    /\ completionStatus' = [completionStatus EXCEPT ![k] = status]
    /\ UNCHANGED <<exception, calledBack>>

PublishSuccess(k) ==
    /\ Goes(k, "succeeded", "calling")
    /\ Publish(k, "RanToCompletion")

\* A plausible mistake: the status is published before the exception.
StorePublishesFirst(k) ==
    /\ Goes(k, "threw", "caught")
    /\ Publish(k, "Failed")

StoreException(k) ==
    /\ Goes(k, "threw", "caught")
    /\ exception' = exception \cup {k}
    /\ UNCHANGED <<completionStatus, calledBack>>

PublishFailure(k) ==
    /\ Goes(k, "caught", "calling")
    /\ Publish(k, "Failed")

\* _callback is not null.
CallBack(k) ==
    /\ Goes(k, "calling", "returned")
    /\ calledBack' = calledBack \cup {k}
    /\ UNCHANGED <<completionStatus, exception>>

ExecuteStep(k) ==
    /\ \/ PublishSuccess(k) \/ StoreException(k) \/ PublishFailure(k) \/ CallBack(k)
    /\ UNCHANGED readVars

-----------------------------------------------------------------------------
(* Result, on a thread that has the IAsyncResult *)

CallResult(r, k) ==
    /\ readStep[r] = "out"
    /\ readStep' = [readStep EXCEPT ![r] = "completed?"]
    /\ reading' = [reading EXCEPT ![r] = k]
    /\ UNCHANGED <<executeVars, told>>

ReadOn(r, from, to) ==
    /\ readStep[r] = from
    /\ readStep' = [readStep EXCEPT ![r] = to]
    /\ UNCHANGED <<executeVars, reading, told>>

Get(r, from, answer) ==
    /\ readStep[r] = from
    /\ readStep' = [readStep EXCEPT ![r] = "answered"]
    /\ told' = [told EXCEPT ![r] = answer]
    /\ UNCHANGED <<executeVars, reading>>

Status(r) == completionStatus[reading[r]]

EnsureRanToCompletion(r) ==
    \/ Status(r) = "RanToCompletion" /\ ReadOn(r, "completed?", "result")
    \/ Status(r) # "RanToCompletion" /\ ReadOn(r, "completed?", "pending?")
    \/ Status(r) = "NotCompleted" /\ Get(r, "pending?", "not completed")
    \/ Status(r) # "NotCompleted" /\ ReadOn(r, "pending?", "failed?")
    \/ Status(r) # "Failed" /\ ReadOn(r, "failed?", "result")
    \/ Status(r) = "Failed" /\ ReadOn(r, "failed?", "exception")
    \/ reading[r] \in exception /\ Get(r, "exception", "exception")
    \/ reading[r] \notin exception /\ Get(r, "exception", "race condition")

ResultStep(r) ==
    /\ reading[r] # NoTask
    /\ EnsureRanToCompletion(r) \/ Get(r, "result", "result")

\* The answer is used, and the reader leaves.
ReturnResult(r) ==
    /\ readStep[r] = "answered"
    /\ readStep' = [readStep EXCEPT ![r] = "out"]
    /\ reading' = [reading EXCEPT ![r] = NoTask]
    /\ told' = [told EXCEPT ![r] = "nothing"]
    /\ UNCHANGED executeVars

-----------------------------------------------------------------------------

AsyncTypeOK ==
    /\ completionStatus \in [Tasks -> {"NotCompleted", "RanToCompletion", "Failed"}]
    /\ exception \subseteq Tasks
    /\ stage \in [Tasks -> Stages]
    /\ calledBack \subseteq Tasks
    /\ reading \in [Readers -> Tasks \cup {NoTask}]
    /\ readStep \in [Readers -> ReadSteps]
    /\ told \in [Readers -> Answers]
    /\ \A r \in Readers : reading[r] = NoTask <=> readStep[r] = "out"

FutureOutcome(status) ==
    CASE status = "NotCompleted" -> "pending"
      [] status = "RanToCompletion" -> "value"
      [] status = "Failed" -> "exception"

FutureAnswer(answer) ==
    CASE answer = "not completed" -> "pending"
      [] answer = "result" -> "value"
      [] OTHER -> answer

\* The three reads of the status are as good as one: whatever Execute writes
\* between them, a reader gets what was true at one moment, is never told of
\* the "race condition" of line 79, and never sees a result of a failed task;
\* a task settles once and calls back after that.
AbstractTask == INSTANCE Future WITH
    outcome <- [k \in Tasks |-> FutureOutcome(completionStatus[k])],
    notified <- calledBack,
    asked <- reading,
    told <- [r \in Readers |-> FutureAnswer(told[r])]

ImplementsFuture == AbstractTask!Spec
=============================================================================
