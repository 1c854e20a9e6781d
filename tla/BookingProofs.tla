---------------------------- MODULE BookingProofs ----------------------------
(***************************************************************************)
(* Proofs about Booking and the AsyncTask in it, for any numbers of        *)
(* requests, rooms, threads of WCF and other holders of an IAsyncResult.   *)
(* The inductive invariant says what Execute has written when it is at a   *)
(* stage, what a reader knows after each read, and that the task that has  *)
(* found its room free is alone.                                           *)
(***************************************************************************)
EXTENDS Booking, FiniteSetTheorems, TLAPS

-----------------------------------------------------------------------------
(* AsyncTask *)

StatusOK(k) ==
    /\ completionStatus[k] = "NotCompleted" <=> stage[k] \notin {"calling", "returned"}
    /\ completionStatus[k] = "Failed" \/ stage[k] = "caught" <=> k \in exception
    /\ k \in calledBack <=> stage[k] = "returned"

\* What the reads so far have told reader r.
ReaderOK(r) ==
    /\ readStep[r] = "failed?" => Status(r) # "NotCompleted"
    /\ readStep[r] = "result" => Status(r) = "RanToCompletion"
    /\ readStep[r] = "exception" => Status(r) = "Failed"
    /\ told[r] = "nothing" <=> readStep[r] # "answered"
    /\ told[r] # "race condition"
    /\ told[r] = "result" => Status(r) = "RanToCompletion"
    /\ told[r] = "exception" => Status(r) = "Failed"
    /\ r \in Hosts => told[r] # "not completed" /\ reading[r] \in calledBack \cup {NoTask}

AsyncOK ==
    /\ AsyncTypeOK
    /\ \A k \in Tasks : StatusOK(k)
    /\ \A r \in Readers : ReaderOK(r)

\* All that a step of Booking can do to the fields of AsyncTask.
AsyncStep ==
    \/ \E k \in Tasks :
        /\ \/ Goes(k, "new", "executing")
           \/ \E to \in {"executing", "succeeded", "threw"} : Goes(k, "executing", to)
        /\ UNCHANGED <<completionStatus, exception, calledBack, readVars>>
    \/ \E k \in Tasks : ExecuteStep(k)
    \/ \E r \in Readers :
        \/ ResultStep(r)
        \/ ReturnResult(r)
        \/ \E k \in Tasks : CallResult(r, k) /\ (r \in Hosts => k \in calledBack)

LEMMA InitAsync == AsyncInit => AsyncOK
BY AsyncAssumption DEF AsyncInit, AsyncOK, AsyncTypeOK, StatusOK, ReaderOK, Stages,
   ReadSteps, Answers

LEMMA AsyncKept == AsyncOK /\ (AsyncStep \/ UNCHANGED asyncVars) => AsyncOK'
<1> SUFFICES ASSUME AsyncOK, AsyncStep \/ UNCHANGED asyncVars PROVE AsyncOK'
  OBVIOUS
<1> USE AsyncAssumption
<1>0. CASE UNCHANGED asyncVars
  BY <1>0 DEF asyncVars, executeVars, readVars, AsyncOK, AsyncTypeOK, StatusOK,
     ReaderOK, Status
<1>1. ASSUME NEW k \in Tasks, UNCHANGED readVars,
             \/ /\ \/ Goes(k, "new", "executing")
                   \/ \E to \in {"executing", "succeeded", "threw"} : Goes(k, "executing", to)
                /\ UNCHANGED <<completionStatus, exception, calledBack>>
             \/ ExecuteStep(k)
      PROVE  AsyncOK'
  <2>1. AsyncTypeOK'
    BY <1>1 DEF AsyncOK, AsyncTypeOK, ExecuteStep, PublishSuccess, StoreException,
       PublishFailure, CallBack, Goes, Publish, Stages, readVars
  <2>2. \A l \in Tasks : l # k => /\ completionStatus'[l] = completionStatus[l]
                                  /\ stage'[l] = stage[l]
                                  /\ l \in exception' <=> l \in exception
                                  /\ l \in calledBack' <=> l \in calledBack
    BY <1>1 DEF AsyncOK, AsyncTypeOK, ExecuteStep, PublishSuccess, StoreException,
       PublishFailure, CallBack, Goes, Publish
  <2>3. StatusOK(k) /\ StatusOK(k)'
    BY <1>1 DEF AsyncOK, AsyncTypeOK, StatusOK, ExecuteStep, PublishSuccess,
       StoreException, PublishFailure, CallBack, Goes, Publish
  <2>4. \A l \in Tasks : StatusOK(l)'
    BY <2>2, <2>3 DEF AsyncOK, StatusOK
  <2>5. calledBack \subseteq calledBack'
    BY <1>1 DEF ExecuteStep, PublishSuccess, StoreException, PublishFailure, CallBack, Publish
  <2>6. completionStatus[k] = "NotCompleted" \/ completionStatus'[k] = completionStatus[k]
    BY <1>1, <2>3 DEF AsyncOK, AsyncTypeOK, StatusOK, ExecuteStep, PublishSuccess,
       StoreException, PublishFailure, CallBack, Goes, Publish
  <2>7. ASSUME NEW r \in Readers PROVE ReaderOK(r)'
    <3>1. reading'[r] = reading[r] /\ readStep'[r] = readStep[r] /\ told'[r] = told[r]
      BY <1>1 DEF readVars
    <3>2. reading[r] \in Tasks \cup {NoTask} /\ (reading[r] = NoTask <=> readStep[r] = "out")
      BY DEF AsyncOK, AsyncTypeOK
    <3>3. ReaderOK(r)
      BY DEF AsyncOK
    <3>4. Status(r)' = Status(r) \/ Status(r) = "NotCompleted" \/ reading[r] = NoTask
      BY <2>2, <2>6, <3>1, <3>2 DEF Status
    <3> QED  BY <2>5, <3>1, <3>2, <3>3, <3>4 DEF ReaderOK
  <2> QED  BY <2>1, <2>4, <2>7 DEF AsyncOK
<1>2. ASSUME NEW r \in Readers, UNCHANGED executeVars,
             \/ ResultStep(r)
             \/ ReturnResult(r)
             \/ \E k \in Tasks : CallResult(r, k) /\ (r \in Hosts => k \in calledBack)
      PROVE  AsyncOK'
  <2>0. completionStatus' = completionStatus /\ exception' = exception
        /\ stage' = stage /\ calledBack' = calledBack
    BY <1>2 DEF executeVars
  <2>1. AsyncTypeOK'
    <3>1. CASE ResultStep(r)
      BY <2>0, <3>1 DEF AsyncOK, AsyncTypeOK, ResultStep, EnsureRanToCompletion, ReadOn,
         Get, ReadSteps, Answers
    <3>2. CASE ReturnResult(r)
      BY <2>0, <3>2 DEF AsyncOK, AsyncTypeOK, ReturnResult, ReadSteps, Answers
    <3>3. ASSUME NEW k \in Tasks, CallResult(r, k) PROVE AsyncTypeOK'
      <4>1. k # NoTask
        OBVIOUS
      <4>2. /\ reading' = [reading EXCEPT ![r] = k]
            /\ readStep' = [readStep EXCEPT ![r] = "completed?"]
            /\ told' = told
        BY <3>3 DEF CallResult
      <4> QED  BY <2>0, <4>1, <4>2 DEF AsyncOK, AsyncTypeOK, ReadSteps
    <3> QED  BY <1>2, <3>1, <3>2, <3>3
  <2>2. \A k \in Tasks : StatusOK(k)'
    BY <1>2 DEF AsyncOK, StatusOK, executeVars
  <2>3. \A s \in Readers : s # r => /\ reading'[s] = reading[s]
                                    /\ readStep'[s] = readStep[s]
                                    /\ told'[s] = told[s]
    BY <1>2 DEF AsyncOK, AsyncTypeOK, ResultStep, EnsureRanToCompletion, ReadOn, Get,
       ReturnResult, CallResult
  <2>4. ReaderOK(r)'
    <3>1. ReaderOK(r) /\ reading \in [Readers -> Tasks \cup {NoTask}]
          /\ readStep \in [Readers -> ReadSteps] /\ told \in [Readers -> Answers]
          /\ (reading[r] = NoTask <=> readStep[r] = "out")
      BY DEF AsyncOK, AsyncTypeOK
    <3>2. reading[r] # NoTask => reading[r] \in Tasks /\ StatusOK(reading[r])
      BY <3>1 DEF AsyncOK
    <3>3. CASE ReturnResult(r)
      BY <2>0, <3>1, <3>3 DEF ReturnResult, ReaderOK
    <3>4. ASSUME NEW k \in Tasks, CallResult(r, k), r \in Hosts => k \in calledBack
          PROVE  ReaderOK(r)'
      <4>1. reading'[r] = k /\ readStep'[r] = "completed?" /\ told'[r] = "nothing"
        BY <3>1, <3>4 DEF CallResult, ReaderOK
      <4> QED  BY <2>0, <3>4, <4>1 DEF ReaderOK
    <3>5. CASE ResultStep(r)
      <4>1. /\ reading[r] # NoTask /\ StatusOK(reading[r])
            /\ reading'[r] = reading[r] /\ Status(r)' = Status(r)
        BY <2>0, <3>2, <3>5 DEF ResultStep, EnsureRanToCompletion, ReadOn, Get, Status
      <4>2. Status(r) = "Failed" => reading[r] \in exception
        BY <4>1 DEF StatusOK, Status
      <4>3. reading[r] \in calledBack => Status(r) # "NotCompleted"
        BY <4>1 DEF StatusOK, Status
      <4>4. CASE \/ Status(r) = "RanToCompletion" /\ ReadOn(r, "completed?", "result")
                 \/ Status(r) # "RanToCompletion" /\ ReadOn(r, "completed?", "pending?")
                 \/ Status(r) # "NotCompleted" /\ ReadOn(r, "pending?", "failed?")
                 \/ Status(r) # "Failed" /\ ReadOn(r, "failed?", "result")
                 \/ Status(r) = "Failed" /\ ReadOn(r, "failed?", "exception")
        <5>1. Status(r) \in {"NotCompleted", "RanToCompletion", "Failed"}
          BY <3>2, <4>1 DEF AsyncOK, AsyncTypeOK, Status
        <5>2. /\ told'[r] = told[r] /\ readStep[r] # "answered"
              /\ readStep'[r] \in {"result", "pending?", "failed?", "exception"}
              /\ readStep'[r] = "result" => Status(r) = "RanToCompletion"
              /\ readStep'[r] = "failed?" => Status(r) # "NotCompleted"
              /\ readStep'[r] = "exception" => Status(r) = "Failed"
          BY <3>1, <4>4, <5>1 DEF ReadOn, ReaderOK
        <5> QED  BY <2>0, <3>1, <4>1, <5>2 DEF ReaderOK
      <4>5. CASE Get(r, "result", "result")
        BY <2>0, <3>1, <4>1, <4>5 DEF Get, ReaderOK
      <4>6. CASE Status(r) = "NotCompleted" /\ Get(r, "pending?", "not completed")
        BY <2>0, <3>1, <4>1, <4>3, <4>6 DEF Get, ReaderOK
      <4>7. CASE reading[r] \in exception /\ Get(r, "exception", "exception")
        BY <2>0, <3>1, <4>1, <4>7 DEF Get, ReaderOK
      <4>8. CASE reading[r] \notin exception /\ Get(r, "exception", "race condition")
        BY <3>1, <4>2, <4>8 DEF Get, ReaderOK
      <4> QED  BY <3>5, <4>4, <4>5, <4>6, <4>7, <4>8
                  DEF ResultStep, EnsureRanToCompletion, ReadSteps
    <3> QED  BY <1>2, <3>3, <3>4, <3>5
  <2>5. \A s \in Readers : s # r => ReaderOK(s)'
    <3> TAKE s \in Readers
    <3> HAVE s # r
    <3>1. ReaderOK(s) /\ Status(s)' = Status(s)
      BY <2>0, <2>3 DEF AsyncOK, Status
    <3> QED  BY <2>0, <2>3, <3>1 DEF ReaderOK
  <2> QED  BY <2>1, <2>2, <2>4, <2>5 DEF AsyncOK
<1>3. ASSUME AsyncStep PROVE AsyncOK'
  <2>1. CASE \E k \in Tasks :
               /\ \/ Goes(k, "new", "executing")
                  \/ \E to \in {"executing", "succeeded", "threw"} : Goes(k, "executing", to)
               /\ UNCHANGED <<completionStatus, exception, calledBack, readVars>>
    BY <1>1, <2>1
  <2>2. CASE \E k \in Tasks : ExecuteStep(k)
    BY <1>1, <2>2 DEF ExecuteStep
  <2>3. CASE \E r \in Readers :
               \/ ResultStep(r)
               \/ ReturnResult(r)
               \/ \E k \in Tasks : CallResult(r, k) /\ (r \in Hosts => k \in calledBack)
    BY <1>2, <2>3 DEF ResultStep, EnsureRanToCompletion, ReadOn, Get, ReturnResult, CallResult
  <2> QED  BY <1>3, <2>1, <2>2, <2>3 DEF AsyncStep
<1> QED  BY <1>0, <1>3
-----------------------------------------------------------------------------
(* AsyncTask implements Future *)

LEMMA InitIsFuture == AsyncInit => AbstractTask!Init
BY DEF AsyncInit, AbstractTask!Init, FutureOutcome, FutureAnswer

LEMMA StepIsFuture ==
    ASSUME AsyncOK, AsyncOK', AsyncStep \/ UNCHANGED asyncVars
    PROVE  [AbstractTask!Next]_(AbstractTask!futureVars)
<1> DEFINE outcome == [k \in Tasks |-> FutureOutcome(completionStatus[k])]
           answer == [r \in Readers |-> FutureAnswer(told[r])]
<1>0. /\ completionStatus \in [Tasks -> {"NotCompleted", "RanToCompletion", "Failed"}]
      /\ reading \in [Readers -> Tasks \cup {NoTask}]
      /\ told \in [Readers -> Answers]
  BY DEF AsyncOK, AsyncTypeOK
<1>1. CASE UNCHANGED <<completionStatus, calledBack, reading, told>>
  BY <1>1 DEF AbstractTask!futureVars
<1>2. ASSUME NEW k \in Tasks, PublishSuccess(k) \/ PublishFailure(k), UNCHANGED readVars
      PROVE  AbstractTask!Settle(k)
  <2>1. completionStatus[k] = "NotCompleted"
    BY <1>2 DEF AsyncOK, StatusOK, PublishSuccess, PublishFailure, Goes
  <2>2. PICK status \in {"RanToCompletion", "Failed"} :
            completionStatus' = [completionStatus EXCEPT ![k] = status]
    BY <1>2 DEF PublishSuccess, PublishFailure, Publish
  <2>3. FutureOutcome(status) \in {"value", "exception"} /\ outcome[k] = "pending"
    BY <2>1 DEF FutureOutcome
  <2>4. outcome' = [outcome EXCEPT ![k] = FutureOutcome(status)]
    BY <1>0, <2>2
  <2>5. UNCHANGED <<calledBack, reading, told>>
    BY <1>2 DEF PublishSuccess, PublishFailure, Publish, readVars
  <2> QED  BY <2>3, <2>4, <2>5 DEF AbstractTask!Settle
<1>3. ASSUME NEW k \in Tasks, CallBack(k), UNCHANGED readVars
      PROVE  AbstractTask!Notify(k)
  <2>1. completionStatus[k] \in {"RanToCompletion", "Failed"} /\ k \notin calledBack
    BY <1>0, <1>3 DEF AsyncOK, StatusOK, CallBack, Goes
  <2>2. outcome[k] # "pending"
    BY <2>1 DEF FutureOutcome
  <2> QED  BY <1>3, <2>1, <2>2 DEF AbstractTask!Notify, CallBack, readVars
<1>4. ASSUME NEW r \in Readers, ResultStep(r)
      PROVE  AbstractTask!Tell(r) \/ UNCHANGED <<completionStatus, calledBack, reading, told>>
  <2>1. ReaderOK(r) /\ ReaderOK(r)' /\ reading[r] \in Tasks /\ reading[r] # NoTask
    BY <1>0, <1>4 DEF AsyncOK, ResultStep
  <2>2. UNCHANGED <<completionStatus, calledBack, reading>>
    BY <1>4 DEF ResultStep, EnsureRanToCompletion, ReadOn, Get, executeVars
  <2>3. CASE \E from \in {"pending?", "exception", "result"}, a \in Answers : Get(r, from, a)
    <3>1. PICK a \in Answers, from \in {"pending?", "exception", "result"} : Get(r, from, a)
      BY <2>3
    <3>2. told[r] = "nothing" /\ told' = [told EXCEPT ![r] = a] /\ told'[r] = a
      BY <1>0, <2>1, <3>1 DEF Get, ReaderOK
    <3>3. a # "not completed" => a \in {"result", "exception"}
      <4>1. readStep'[r] = "answered"
        BY <3>1 DEF Get, AsyncOK, AsyncTypeOK
      <4> QED  BY <2>1, <3>2, <4>1 DEF ReaderOK, Answers
    <3>4. a = "not completed" => Status(r) = "NotCompleted"
      BY <1>4, <3>1, <3>2, <1>0 DEF ResultStep, EnsureRanToCompletion, ReadOn, Get
    <3>5. a = "result" => Status(r) = "RanToCompletion"
      BY <2>1, <2>2, <3>2 DEF ReaderOK, Status
    <3>6. a = "exception" => Status(r) = "Failed"
      BY <2>1, <2>2, <3>2 DEF ReaderOK, Status
    <3>7. FutureAnswer(a) = outcome[reading[r]]
      BY <2>1, <3>3, <3>4, <3>5, <3>6 DEF FutureAnswer, FutureOutcome, Status
    <3>8. answer' = [answer EXCEPT ![r] = outcome[reading[r]]]
      BY <1>0, <3>2, <3>7
    <3>9. answer[r] = "nothing"
      BY <3>2 DEF FutureAnswer
    <3> QED  BY <2>1, <2>2, <3>8, <3>9 DEF AbstractTask!Tell
  <2>4. CASE \E from, to \in ReadSteps : ReadOn(r, from, to)
    BY <2>2, <2>4 DEF ReadOn
  <2> QED  BY <1>4, <2>3, <2>4 DEF ResultStep, EnsureRanToCompletion, Answers, ReadSteps
<1>5. ASSUME NEW r \in Readers, ReturnResult(r)
      PROVE  AbstractTask!Leave(r)
  <2>1. told[r] \in Answers \ {"nothing", "race condition"}
    BY <1>0, <1>5 DEF AsyncOK, ReaderOK, ReturnResult
  <2>2. answer[r] # "nothing"
    BY <2>1 DEF FutureAnswer, Answers
  <2>3. answer' = [answer EXCEPT ![r] = "nothing"]
    BY <1>0, <1>5 DEF ReturnResult, FutureAnswer
  <2>4. reading' = [reading EXCEPT ![r] = NoTask] /\ UNCHANGED <<completionStatus, calledBack>>
    BY <1>5 DEF ReturnResult, executeVars
  <2> QED  BY <2>2, <2>3, <2>4 DEF AbstractTask!Leave
<1>6. ASSUME NEW r \in Readers, NEW k \in Tasks, CallResult(r, k)
      PROVE  AbstractTask!Ask(r, k)
  <2>1. reading[r] = NoTask
    BY <1>6 DEF CallResult, AsyncOK, AsyncTypeOK
  <2> QED  BY <1>6, <2>1 DEF AbstractTask!Ask, CallResult, executeVars
<1>7. CASE \E k \in Tasks : ExecuteStep(k)
  <2>1. PICK k \in Tasks : ExecuteStep(k)
    BY <1>7
  <2>2. CASE StoreException(k)
    BY <1>1, <2>1, <2>2 DEF ExecuteStep, StoreException, readVars
  <2> QED  BY <1>2, <1>3, <2>1, <2>2 DEF ExecuteStep, AbstractTask!Next
<1>8. CASE \E r \in Readers :
            \/ ResultStep(r)
            \/ ReturnResult(r)
            \/ \E k \in Tasks : CallResult(r, k)
  BY <1>1, <1>4, <1>5, <1>6, <1>8 DEF AbstractTask!Next
<1>9. CASE \/ UNCHANGED asyncVars
           \/ UNCHANGED <<completionStatus, exception, calledBack, readVars>>
  BY <1>1, <1>9 DEF asyncVars, executeVars, readVars
<1> QED  BY <1>7, <1>8, <1>9 DEF AsyncStep
-----------------------------------------------------------------------------
(* The executor runs one task at a time *)

BookedIn(room) == {bookings[room][n] : n \in DOMAIN bookings[room]}

\* Where the tasks are: of those taken there is one at most.
PoolOK ==
    /\ waiting \in [{"default"} -> Seq(Tasks)]
    /\ IsFiniteSet(taken)
    /\ taken \subseteq Tasks
    /\ \A k, l \in taken : k = l
    /\ \A k \in Tasks : stage[k] \notin {"new", "returned"} => k \in taken
    /\ \A k \in Tasks : stage[k] # "new" => k \in taken \cup finished

\* What is known of the booking of task k: it fails only without a request,
\* it is booked when it has been accepted, and its room is free when it found
\* it free.
BookOK(k) ==
    /\ completionStatus[k] = "Failed" \/ stage[k] \in {"threw", "caught"} =>
            request[k] = NullRequest
    /\ k \in free =>
        /\ stage[k] = "executing" /\ k \in taken
        /\ request[k] # NullRequest /\ request[k].room \in Rooms
        /\ ~Find(k)
    /\ k \in accepted =>
        /\ stage[k] \notin {"new", "executing"}
        /\ request[k] # NullRequest
    /\ k \in accepted <=> \E room \in Rooms : k \in BookedIn(room)
    /\ reply[k] # "none" => k \in calledBack /\ (reply[k] = "Approved" <=> k \in accepted)

RoomsOK ==
    /\ request \in [Tasks -> Requests \cup {NullRequest}]
    /\ bookings \in [Rooms -> Seq(Tasks)]
    /\ reply \in [Tasks -> {"none", "Approved", "Rejected", "fault"}]
    /\ free \subseteq Tasks
    /\ accepted \subseteq Tasks
    /\ rejected \subseteq Tasks

BookingInv ==
    /\ AsyncOK /\ PoolOK /\ RoomsOK
    /\ \A k \in Tasks : BookOK(k)
    /\ OverlapOnlyInside

LEMMA InitBooking == BookingInit => BookingInv
<1> SUFFICES ASSUME BookingInit PROVE BookingInv
  OBVIOUS
<1>1. AsyncOK
  BY InitAsync DEF BookingInit
<1>2. PoolOK
  BY FS_EmptySet DEF BookingInit, AsyncInit, Pool!Init, PoolOK
<1>3. RoomsOK
  BY DEF BookingInit, RoomsOK
<1>4. \A k \in Tasks : BookOK(k)
  <2>1. \A room \in Rooms : BookedIn(room) = {}
    BY DEF BookingInit, BookedIn
  <2>2. accepted = {} /\ free = {}
    BY DEF BookingInit
  <2>3. \A k \in Tasks : /\ completionStatus[k] = "NotCompleted"
                         /\ stage[k] = "new" /\ reply[k] = "none"
    BY DEF BookingInit, AsyncInit
  <2> QED  BY <2>1, <2>2, <2>3 DEF BookOK
<1>5. OverlapOnlyInside
  BY DEF BookingInit, OverlapOnlyInside
<1> QED  BY <1>1, <1>2, <1>3, <1>4, <1>5 DEF BookingInv

\* To AsyncTask, a step of Booking is one of its own.
LEMMA BookingUsesAsync ==
    ASSUME PoolOK, [BookingNext]_bookingVars
    PROVE  AsyncStep \/ UNCHANGED asyncVars
<1>1. CASE UNCHANGED bookingVars
  BY <1>1 DEF bookingVars
<1>2. CASE Take
  <2>1. Head(waiting["default"]) \in Tasks
    BY <1>2 DEF Take, Pool!TakeFrom, PoolOK
  <2> QED  BY <1>2, <2>1 DEF Take, AsyncStep
<1>3. ASSUME NEW k \in Tasks, Complete(k) \/ \E q \in Requests : BeginBook(k, q)
      PROVE  UNCHANGED asyncVars
  BY <1>3 DEF Complete, BeginBook
<1>4. ASSUME NEW k \in Tasks, BookStep(k)
      PROVE  AsyncStep
  <2>1. CASE ExecuteStep(k)
    BY <2>1 DEF AsyncStep
  <2>2. CASE BookNothing(k) \/ RejectBooking(k) \/ FindFree(k) \/ AddBooking(k)
    BY <2>2 DEF AsyncStep, BookNothing, RejectBooking, FindFree, AddBooking, Books
  <2> QED  BY <1>4, <2>1, <2>2 DEF BookStep
<1>5. ASSUME NEW r \in Readers,
             \/ EndBook(r) \/ PollEnds(r) \/ ReadStep(r)
             \/ \E k \in Tasks : BeginEndBook(r, k) \/ Poll(r, k)
      PROVE  AsyncStep
  BY <1>5 DEF AsyncStep, EndBook, PollEnds, ReadStep, BeginEndBook, Poll
<1> QED  BY <1>1, <1>2, <1>3, <1>4, <1>5 DEF BookingNext

LEMMA SameCardinality == \A S : Pool!Cardinality(S) = Cardinality(S)
BY Zenon DEF Pool!Cardinality, Cardinality

LEMMA PoolKept ==
    ASSUME AsyncTypeOK, PoolOK, [BookingNext]_bookingVars
    PROVE  PoolOK'
<1>1. CASE UNCHANGED <<poolVars, stage>>
  BY <1>1 DEF poolVars, PoolOK
<1>2. ASSUME NEW k \in Tasks, NEW q \in Requests, BeginBook(k, q)
      PROVE  PoolOK'
  <2>1. /\ waiting' = [waiting EXCEPT !["default"] = Append(@, k)]
        /\ UNCHANGED <<taken, finished, stage>>
    BY <1>2 DEF BeginBook, Pool!Accept, asyncVars, executeVars
  <2>2. Append(waiting["default"], k) \in Seq(Tasks)
    BY DEF PoolOK
  <2>3. waiting' \in [{"default"} -> Seq(Tasks)]
    BY <2>1, <2>2 DEF PoolOK
  <2> QED  BY <2>1, <2>3 DEF PoolOK
<1>3. CASE Take
  <2>0. waiting["default"] \in Seq(Tasks)
    BY DEF PoolOK
  <2>1. /\ waiting["default"] # <<>>
        /\ Cardinality(taken) < 1
        /\ taken' = taken \cup {Head(waiting["default"])}
        /\ waiting' = [waiting EXCEPT !["default"] = Tail(@)]
        /\ finished' = finished
        /\ stage' = [stage EXCEPT ![Head(waiting["default"])] = "executing"]
    <3>1. Pool!TakeFrom("default") /\ Goes(Head(waiting["default"]), "new", "executing")
      BY <1>3 DEF Take
    <3>2. /\ waiting["default"] # <<>>
          /\ Cardinality(taken) < 1
          /\ finished' = finished
      BY <3>1, SameCardinality DEF Pool!TakeFrom
    <3>3. taken' = taken \cup {Head(waiting["default"])}
      BY <3>1 DEF Pool!TakeFrom
    <3>4. waiting' = [waiting EXCEPT !["default"] = Tail(@)]
      BY <3>1 DEF Pool!TakeFrom
    <3>5. stage' = [stage EXCEPT ![Head(waiting["default"])] = "executing"]
      BY <3>1 DEF Goes
    <3> QED  BY <3>2, <3>3, <3>4, <3>5
  <2>2. PICK k \in Tasks : k = Head(waiting["default"])
    BY <2>0, <2>1
  <2>3. taken = {}
    <3>1. Cardinality(taken) = 0
      BY <2>1, FS_CardinalityType DEF PoolOK
    <3> QED  BY <3>1, FS_EmptySet DEF PoolOK
  <2>4. taken' = {k} /\ IsFiniteSet({k})
    BY <2>1, <2>2, <2>3, FS_Singleton
  <2>5. Tail(waiting["default"]) \in Seq(Tasks)
    BY <2>0, <2>1
  <2>6. waiting' \in [{"default"} -> Seq(Tasks)]
    BY <2>1, <2>5 DEF PoolOK
  <2>7. \A l \in Tasks : l # k => stage'[l] = stage[l]
    BY <2>1, <2>2 DEF AsyncTypeOK
  <2> QED  BY <2>1, <2>3, <2>4, <2>6, <2>7 DEF PoolOK
<1>4. ASSUME NEW k \in Tasks, Complete(k)
      PROVE  PoolOK'
  <2>1. /\ stage[k] = "returned" /\ stage' = stage
        /\ taken' = taken \ {k} /\ finished' = finished \cup {k} /\ waiting' = waiting
    BY <1>4 DEF Complete, Pool!Finish, asyncVars, executeVars
  <2>2. IsFiniteSet(taken')
    BY <2>1, FS_RemoveElement DEF PoolOK
  <2> QED  BY <2>1, <2>2 DEF PoolOK
<1>5. ASSUME NEW k \in Tasks, BookStep(k)
      PROVE  PoolOK'
  <2>1. UNCHANGED <<waiting, taken, finished>>
    BY <1>5 DEF BookStep, BookNothing, RejectBooking, FindFree, AddBooking, Books, poolVars
  <2>2. stage[k] \notin {"new", "returned"} /\ \A l \in Tasks : l # k => stage'[l] = stage[l]
    BY <1>5 DEF BookStep, BookNothing, RejectBooking, FindFree, AddBooking, Books,
       ExecuteStep, PublishSuccess, StoreException, PublishFailure, CallBack, Goes, AsyncTypeOK
  <2> QED  BY <2>1, <2>2 DEF PoolOK
<1>6. ASSUME NEW r \in Readers,
             \/ EndBook(r) \/ PollEnds(r) \/ ReadStep(r)
             \/ \E k \in Tasks : BeginEndBook(r, k) \/ Poll(r, k)
      PROVE  UNCHANGED <<poolVars, stage>>
  BY <1>6 DEF EndBook, PollEnds, ReadStep, BeginEndBook, Poll, ResultStep,
     EnsureRanToCompletion, ReadOn, Get, ReturnResult, CallResult, executeVars
<1> QED  BY <1>1, <1>2, <1>3, <1>4, <1>5, <1>6 DEF BookingNext, bookingVars, asyncVars, executeVars

-----------------------------------------------------------------------------
(* Bookings *)

LEMMA RoomsKept ==
    ASSUME RoomsOK, [BookingNext]_bookingVars
    PROVE  RoomsOK'
<1>1. CASE UNCHANGED bookingVars
  BY <1>1 DEF bookingVars, roomVars, RoomsOK
<1>2. CASE Take \/ \E k \in Tasks : Complete(k)
  BY <1>2 DEF Take, Complete, roomVars, RoomsOK
<1>3. ASSUME NEW k \in Tasks, NEW q \in Requests, BeginBook(k, q)
      PROVE  RoomsOK'
  BY <1>3 DEF BeginBook, roomVars, RoomsOK
<1>4. ASSUME NEW k \in Tasks, BookStep(k)
      PROVE  RoomsOK'
  <2>1. CASE ExecuteStep(k) /\ UNCHANGED <<poolVars, roomVars, request, reply>>
    BY <2>1 DEF roomVars, RoomsOK
  <2>2. CASE BookNothing(k) \/ RejectBooking(k) \/ FindFree(k)
    BY <2>2 DEF BookNothing, RejectBooking, FindFree, Books, roomVars, RoomsOK
  <2>3. CASE AddBooking(k)
    <3> DEFINE room == request[k].room
    <3>1. /\ bookings' = [bookings EXCEPT ![room] = Append(@, k)]
          /\ free' = free \ {k} /\ request' = request /\ reply' = reply
          /\ accepted' = accepted \cup {k} /\ rejected' = rejected \cup {k}
      BY <2>3 DEF AddBooking, Books
    <3>2. room \in Rooms => Append(bookings[room], k) \in Seq(Tasks)
      BY DEF RoomsOK
    <3>3. bookings' \in [Rooms -> Seq(Tasks)]
      <4> HIDE DEF room
      <4> QED  BY <3>1, <3>2 DEF RoomsOK
    <3> QED  BY <3>1, <3>3 DEF RoomsOK
  <2> QED  BY <1>4, <2>1, <2>2, <2>3 DEF BookStep
<1>5. ASSUME NEW r \in Readers, EndBook(r)
      PROVE  RoomsOK'
  BY <1>5 DEF EndBook, roomVars, RoomsOK
<1>6. ASSUME NEW r \in Readers,
             \/ PollEnds(r) \/ ReadStep(r)
             \/ \E k \in Tasks : BeginEndBook(r, k) \/ Poll(r, k)
      PROVE  RoomsOK'
  BY <1>6 DEF PollEnds, ReadStep, BeginEndBook, Poll, roomVars, RoomsOK
<1> QED  BY <1>1, <1>2, <1>3, <1>4, <1>5, <1>6 DEF BookingNext

\* The bookings that Find looks at are those of other tasks, whose requests
\* do not change any more.
LEMMA FindSame ==
    ASSUME RoomsOK, \A m \in Tasks : BookOK(m), NEW l \in free,
           bookings' = bookings, request'[l] = request[l],
           \A m \in accepted : request'[m] = request[m]
    PROVE  Find(l)' <=> Find(l)
<1>1. request[l].room \in Rooms /\ l \in Tasks
  BY DEF RoomsOK, BookOK
<1>2. PICK b \in Seq(Tasks) : b = bookings[request[l].room]
  BY <1>1 DEF RoomsOK
<1>3. \A n \in DOMAIN b : b[n] \in Tasks /\ b[n] \in accepted
  <2> TAKE n \in DOMAIN b
  <2>1. b[n] \in Tasks /\ b[n] \in BookedIn(request[l].room)
    BY <1>2 DEF BookedIn
  <2> QED  BY <1>1, <2>1 DEF BookOK
<1>4. \A n \in DOMAIN b : Period(b[n])' = Period(b[n])
  BY <1>3 DEF Period
<1>5. Period(l)' = Period(l)
  BY DEF Period
<1>6. Find(l) <=> \E n \in DOMAIN b : Intersects(Period(b[n]), Period(l))
  BY <1>2 DEF Find
<1>7. Find(l)' <=> \E n \in DOMAIN b : Intersects(Period(b[n])', Period(l)')
  BY <1>2 DEF Find, Intersects
<1> QED  BY <1>4, <1>5, <1>6, <1>7

\* A step that leaves the bookings alone keeps what is known of task l, if
\* the stage, the request and the reply of l do.
LEMMA BookSame ==
    ASSUME BookingInv, NEW l \in Tasks,
           bookings' = bookings, accepted' = accepted,
           \A m \in accepted : request'[m] = request[m],
           request'[l] = request[l], reply'[l] = reply[l],
           completionStatus'[l] = completionStatus[l], stage'[l] = stage[l],
           calledBack \subseteq calledBack',
           l \in free' => l \in free,
           l \in taken' \/ l \notin taken \/ l \notin free
    PROVE  BookOK(l)'
<1>1. BookOK(l)
  BY DEF BookingInv
<1>2. l \in free => (Find(l)' <=> Find(l))
  BY FindSame DEF BookingInv
<1>3. \A room : BookedIn(room)' = BookedIn(room)
  BY DEF BookedIn
<1> QED  BY <1>1, <1>2, <1>3 DEF BookOK

LEMMA BookKept ==
    ASSUME BookingInv, [BookingNext]_bookingVars, NEW l \in Tasks
    PROVE  BookOK(l)'
<1> USE DEF BookingInv
<1>0. BookOK(l) /\ StatusOK(l)
  BY DEF AsyncOK
<1>1. CASE UNCHANGED bookingVars
  BY <1>1, BookSame DEF bookingVars, asyncVars, executeVars, poolVars, roomVars
<1>2. ASSUME NEW k \in Tasks, NEW q \in Requests, BeginBook(k, q)
      PROVE  BookOK(l)'
  <2>1. /\ UNCHANGED <<completionStatus, stage, calledBack, bookings, accepted, free, taken, reply>>
        /\ request' = [request EXCEPT ![k] = q]
    BY <1>2 DEF BeginBook, Pool!Accept, asyncVars, executeVars, roomVars
  <2>2. stage[k] = "new"
    BY <1>2 DEF BeginBook, Begun, Pool!TakenFrom, PoolOK
  <2>3. StatusOK(k) /\ BookOK(k)
    BY DEF AsyncOK
  <2>4. k \notin accepted /\ k \notin free /\ completionStatus[k] = "NotCompleted"
    BY <2>2, <2>3 DEF StatusOK, BookOK
  <2>5. CASE l # k
    BY <2>1, <2>4, <2>5, BookSame DEF RoomsOK
  <2>6. CASE l = k
    <3>1. \A room : BookedIn(room)' = BookedIn(room)
      BY <2>1 DEF BookedIn
    <3> QED  BY <2>1, <2>2, <2>3, <2>4, <2>6, <3>1 DEF BookOK
  <2> QED  BY <2>5, <2>6
<1>3. CASE Take
  <2>1. PICK k \in Tasks : Goes(k, "new", "executing") /\ taken' = taken \cup {k}
    BY <1>3 DEF Take, Pool!TakeFrom, PoolOK
  <2>2. UNCHANGED <<completionStatus, calledBack, bookings, accepted, free, request, reply>>
    BY <1>3 DEF Take, roomVars
  <2>3. CASE l # k
    <3>1. stage'[l] = stage[l]
      BY <2>1, <2>3 DEF Goes, AsyncOK, AsyncTypeOK
    <3> QED  BY <2>1, <2>2, <3>1, BookSame
  <2>4. CASE l = k
    <3>1. stage[l] = "new" /\ stage'[l] = "executing"
      BY <2>1, <2>4 DEF Goes, AsyncOK, AsyncTypeOK
    <3>2. \A room : BookedIn(room)' = BookedIn(room)
      BY <2>2 DEF BookedIn
    <3> QED  BY <1>0, <2>2, <3>1, <3>2 DEF BookOK, StatusOK
  <2> QED  BY <2>3, <2>4
<1>4. ASSUME NEW k \in Tasks, Complete(k)
      PROVE  BookOK(l)'
  <2>1. /\ UNCHANGED <<completionStatus, stage, calledBack, bookings, accepted, free, request, reply>>
        /\ taken' = taken \ {k} /\ stage[k] = "returned"
    BY <1>4 DEF Complete, Pool!Finish, asyncVars, executeVars, roomVars
  <2>2. l = k => l \notin free
    BY <1>0, <2>1 DEF BookOK
  <2> QED  BY <2>1, <2>2, BookSame
<1>5. ASSUME NEW k \in Tasks, BookStep(k)
      PROVE  BookOK(l)'
  <2>0. BookOK(k) /\ StatusOK(k)
    BY DEF AsyncOK
  <2>1. CASE ExecuteStep(k) /\ UNCHANGED <<poolVars, roomVars, request, reply>>
    <3>1. UNCHANGED <<taken, bookings, accepted, free, request, reply>>
      BY <2>1 DEF poolVars, roomVars
    <3>2. calledBack \subseteq calledBack'
      BY <2>1 DEF ExecuteStep, PublishSuccess, StoreException, PublishFailure, CallBack, Publish
    <3>3. CASE l # k
      <4>1. completionStatus'[l] = completionStatus[l] /\ stage'[l] = stage[l]
        BY <2>1, <3>3 DEF ExecuteStep, PublishSuccess, StoreException, PublishFailure,
           CallBack, Goes, Publish, AsyncOK, AsyncTypeOK
      <4> QED  BY <3>1, <3>2, <4>1, BookSame
    <3>4. CASE l = k
      <4>1. stage[k] \notin {"new", "executing"} /\ stage'[k] \notin {"new", "executing"}
        BY <2>1 DEF ExecuteStep, PublishSuccess, StoreException, PublishFailure,
           CallBack, Goes, AsyncOK, AsyncTypeOK
      <4>2. completionStatus'[k] = "Failed" \/ stage'[k] \in {"threw", "caught"} =>
              completionStatus[k] = "Failed" \/ stage[k] \in {"threw", "caught"}
        BY <2>1 DEF ExecuteStep, PublishSuccess, StoreException, PublishFailure,
           CallBack, Goes, Publish, AsyncOK, AsyncTypeOK
      <4>3. \A room : BookedIn(room)' = BookedIn(room)
        BY <3>1 DEF BookedIn
      <4> QED  BY <2>0, <3>1, <3>2, <3>4, <4>1, <4>2, <4>3 DEF BookOK
    <3> QED  BY <3>3, <3>4
  <2>2. CASE BookNothing(k) \/ RejectBooking(k) \/ FindFree(k)
    <3>1. /\ UNCHANGED <<taken, bookings, accepted, request, reply, completionStatus, calledBack>>
          /\ free \subseteq free' /\ free' \subseteq free \cup {k}
          /\ stage[k] = "executing"
      BY <2>2 DEF BookNothing, RejectBooking, FindFree, Books, Goes, poolVars, roomVars
    <3>2. CASE l # k
      <4>1. stage'[l] = stage[l]
        BY <2>2, <3>2 DEF BookNothing, RejectBooking, FindFree, Books, Goes, AsyncOK, AsyncTypeOK
      <4> QED  BY <3>1, <3>2, <4>1, BookSame
    <3>3. CASE l = k
      <4>1. completionStatus[k] = "NotCompleted" /\ k \notin accepted /\ reply[k] = "none"
        BY <2>0, <3>1 DEF BookOK, StatusOK
      <4>2. \A room : BookedIn(room)' = BookedIn(room)
        BY <3>1 DEF BookedIn
      <4>3. CASE BookNothing(k)
        <5>1. request[k] = NullRequest /\ free' = free
          BY <4>3 DEF BookNothing, roomVars
        <5> QED  BY <2>0, <3>1, <3>3, <4>1, <4>2, <5>1 DEF BookOK
      <4>4. CASE RejectBooking(k)
        <5>1. k \notin free' /\ stage'[k] = "succeeded"
          BY <4>4 DEF RejectBooking, Books, Goes, AsyncOK, AsyncTypeOK
        <5> QED  BY <2>0, <3>1, <3>3, <4>1, <4>2, <5>1 DEF BookOK
      <4>5. CASE FindFree(k)
        <5>1. /\ request[k] # NullRequest /\ request[k].room \in Rooms
              /\ ~Find(k) /\ stage'[k] = "executing"
          BY <4>5 DEF FindFree, Books, Goes, AsyncOK, AsyncTypeOK
        <5>2. Find(k)' <=> Find(k)
          BY <3>1 DEF Find, Period, Intersects
        <5>3. k \in taken
          BY <3>1 DEF PoolOK
        <5> QED  BY <2>0, <3>1, <3>3, <4>1, <4>2, <5>1, <5>2, <5>3 DEF BookOK
      <4> QED  BY <2>2, <4>3, <4>4, <4>5
    <3> QED  BY <3>2, <3>3
  <2>3. CASE AddBooking(k)
    <3>1. /\ k \in free /\ free' = free \ {k}
          /\ accepted' = accepted \cup {k}
          /\ stage'[k] = "succeeded"
          /\ l # k => stage'[l] = stage[l]
          /\ UNCHANGED <<taken, request, reply, completionStatus, calledBack>>
      BY <2>3 DEF AddBooking, Books, Goes, poolVars, AsyncOK, AsyncTypeOK
    <3>2. /\ request[k].room \in Rooms /\ request[k] # NullRequest /\ k \in taken
          /\ stage[k] = "executing" /\ completionStatus[k] = "NotCompleted" /\ reply[k] = "none"
      BY <2>0, <3>1 DEF BookOK, StatusOK
    <3>3. l # k => l \notin free
      BY <1>0, <3>2 DEF BookOK, PoolOK
    <3>4. \A room \in Rooms : BookedIn(room)' =
              IF room = request[k].room THEN BookedIn(room) \cup {k} ELSE BookedIn(room)
      <4> TAKE room \in Rooms
      <4>1. bookings' = [bookings EXCEPT ![request[k].room] = Append(@, k)]
        BY <2>3 DEF AddBooking
      <4>2. PICK b \in Seq(Tasks) : b = bookings[room]
        BY DEF RoomsOK
      <4>3. CASE room # request[k].room
        BY <4>1, <4>3 DEF BookedIn, RoomsOK
      <4>4. CASE room = request[k].room
        <5>1. bookings'[room] = Append(b, k)
          BY <3>2, <4>1, <4>2, <4>4 DEF RoomsOK
        <5>2. BookedIn(room)' = {Append(b, k)[n] : n \in DOMAIN Append(b, k)}
          BY <5>1 DEF BookedIn
        <5>3. BookedIn(room) = {b[n] : n \in DOMAIN b}
          BY <4>2 DEF BookedIn
        <5>4. {Append(b, k)[n] : n \in DOMAIN Append(b, k)}
                  = {b[n] : n \in DOMAIN b} \cup {k}
          <6>1. /\ DOMAIN Append(b, k) = 1..(Len(b) + 1)
                /\ DOMAIN b = 1..Len(b)
                /\ Len(b) \in Nat
                /\ \A n \in 1..Len(b) : Append(b, k)[n] = b[n]
                /\ Append(b, k)[Len(b) + 1] = k
            BY <4>2
          <6> QED  BY <6>1
        <5>5. BookedIn(room)' = BookedIn(room) \cup {k}
          BY <5>2, <5>3, <5>4
        <5> HIDE DEF BookedIn
        <5> QED  BY <4>4, <5>5
      <4> QED  BY <4>3, <4>4
    <3>5. l \in accepted' <=> \E room \in Rooms : l \in BookedIn(room)'
      BY <1>0, <3>1, <3>2, <3>4 DEF BookOK
    <3> QED  BY <1>0, <3>1, <3>2, <3>3, <3>5 DEF BookOK
  <2> QED  BY <1>5, <2>1, <2>2, <2>3 DEF BookStep
<1>6. ASSUME NEW h \in Readers, EndBook(h)
      PROVE  BookOK(l)'
  <2>1. /\ UNCHANGED <<completionStatus, stage, calledBack, bookings, accepted, free, request, taken>>
        /\ readStep[h] = "answered" /\ h \in Hosts
    BY <1>6 DEF EndBook, ReturnResult, executeVars, roomVars, poolVars
  <2>2. ReaderOK(h) /\ reading[h] # NoTask /\ told[h] \in Answers
    BY <2>1 DEF AsyncOK, AsyncTypeOK
  <2>3. /\ reading[h] \in calledBack /\ told[h] \in {"result", "exception"}
        /\ told[h] = "exception" => Status(h) = "Failed"
    BY <2>1, <2>2 DEF ReaderOK, Answers
  <2>4. CASE l # reading[h]
    <3>1. reply'[l] = reply[l]
      BY <1>6, <2>4 DEF EndBook, RoomsOK
    <3> QED  BY <2>1, <3>1, BookSame
  <2>5. CASE l = reading[h]
    <3>1. reply'[l] = IF told[h] # "result" THEN "fault"
                      ELSE IF l \in accepted THEN "Approved" ELSE "Rejected"
      BY <1>6, <2>5 DEF EndBook, RoomsOK
    <3>2. told[h] = "exception" => l \notin accepted
      BY <1>0, <2>3, <2>5 DEF BookOK, Status
    <3>3. reply'[l] = "Approved" <=> l \in accepted
      BY <2>3, <3>1, <3>2
    <3>4. \A room : BookedIn(room)' = BookedIn(room)
      BY <2>1 DEF BookedIn
    <3>5. l \in free => (Find(l)' <=> Find(l))
      BY <2>1, FindSame
    <3> QED  BY <1>0, <2>1, <2>3, <2>5, <3>3, <3>4, <3>5 DEF BookOK
  <2> QED  BY <2>4, <2>5
<1>7. ASSUME NEW r \in Readers,
             \/ PollEnds(r) \/ ReadStep(r)
             \/ \E k \in Tasks : BeginEndBook(r, k) \/ Poll(r, k)
      PROVE  BookOK(l)'
  <2>1. UNCHANGED <<executeVars, poolVars, roomVars, request, reply>>
    BY <1>7 DEF PollEnds, ReadStep, BeginEndBook, Poll, ResultStep,
       EnsureRanToCompletion, ReadOn, Get, ReturnResult, CallResult
  <2> QED  BY <2>1, BookSame DEF executeVars, poolVars, roomVars
<1> QED  BY <1>1, <1>2, <1>3, <1>4, <1>5, <1>6, <1>7 DEF BookingNext

LEMMA OverlapKept ==
    ASSUME BookingInv, [BookingNext]_bookingVars
    PROVE  OverlapOnlyInside'
<1> USE DEF BookingInv
<1>1. ASSUME bookings' = bookings, \A m \in accepted : request'[m] = request[m]
      PROVE  OverlapOnlyInside'
  <2>1. ASSUME NEW room \in Rooms, NEW n \in DOMAIN bookings[room]
        PROVE  Period(bookings[room][n])' = Period(bookings[room][n])
    <3>1. bookings[room] \in Seq(Tasks)
      BY DEF RoomsOK
    <3>2. bookings[room][n] \in accepted
      BY <3>1 DEF BookOK, BookedIn
    <3> QED  BY <1>1, <3>2 DEF Period
  <2> QED  BY <1>1, <2>1 DEF OverlapOnlyInside, Overlap
<1>2. ASSUME NEW k \in Tasks, AddBooking(k)
      PROVE  OverlapOnlyInside'
  <2> DEFINE here == request[k].room
  <2>1. /\ k \in free /\ bookings' = [bookings EXCEPT ![here] = Append(@, k)]
        /\ request' = request
    BY <1>2 DEF AddBooking, Books
  <2>2. /\ here \in Rooms /\ ~Find(k)
        /\ request[k].begin \in Int /\ request[k].end \in Int
    BY <2>1, BookingAssumption DEF BookOK, RoomsOK
  <2>3. PICK b \in Seq(Tasks) : b = bookings[here]
    BY <2>2 DEF RoomsOK
  <2>4. \A room \in Rooms : room # here => bookings'[room] = bookings[room]
    <3> HIDE DEF here
    <3> QED  BY <2>1 DEF RoomsOK
  <2>5. bookings'[here] = Append(b, k)
    BY <2>1, <2>2, <2>3 DEF RoomsOK
  <2>6. \A m \in Tasks : Period(m)' = Period(m)
    BY <2>1 DEF Period
  <2>7. ASSUME NEW m \in DOMAIN b, Overlap(Period(b[m]), Period(k))
        PROVE  Period(b[m]).begin < Period(k).begin /\ Period(k).end < Period(b[m]).end
    <3>1. b[m] \in Tasks /\ b[m] \in BookedIn(here)
      BY <2>3 DEF BookedIn
    <3>2. request[b[m]] # NullRequest
      BY <2>2, <3>1 DEF BookOK
    <3>3. request[b[m]].begin \in Int /\ request[b[m]].end \in Int
      BY <3>1, <3>2, BookingAssumption DEF RoomsOK
    <3>4. ~Intersects(Period(b[m]), Period(k))
      BY <2>2, <2>3 DEF Find
    <3> QED  BY <2>2, <2>7, <3>3, <3>4 DEF Intersects, Overlap, Period
  <2>8. ASSUME NEW room \in Rooms, NEW m \in DOMAIN bookings'[room],
               NEW n \in DOMAIN bookings'[room], m < n,
               Overlap(Period(bookings'[room][m]), Period(bookings'[room][n]))
        PROVE  /\ Period(bookings'[room][m]).begin < Period(bookings'[room][n]).begin
               /\ Period(bookings'[room][n]).end < Period(bookings'[room][m]).end
    <3>1. CASE room # here
      BY <2>4, <2>8, <3>1 DEF OverlapOnlyInside
    <3>2. CASE room = here /\ n \in DOMAIN b
      <4>1. m \in DOMAIN b /\ Append(b, k)[m] = b[m] /\ Append(b, k)[n] = b[n]
        BY <2>5, <2>8, <3>2
      <4> QED  BY <2>2, <2>3, <2>5, <2>8, <3>2, <4>1 DEF OverlapOnlyInside
    <3>3. CASE room = here /\ n \notin DOMAIN b
      <4>1. m \in DOMAIN b /\ Append(b, k)[m] = b[m] /\ Append(b, k)[n] = k
        BY <2>5, <2>8, <3>3
      <4> QED  BY <2>5, <2>7, <2>8, <3>3, <4>1
    <3> QED  BY <3>1, <3>2, <3>3
  <2>9. bookings' \in [Rooms -> Seq(Tasks)]
    BY RoomsKept, <1>2 DEF BookingNext, BookStep, RoomsOK
  <2>10. \A room \in Rooms : \A n \in DOMAIN bookings'[room] :
            Period(bookings[room][n])' = Period(bookings'[room][n])
    BY <2>6, <2>9
  <2> QED  BY <2>8, <2>10 DEF OverlapOnlyInside, Overlap
<1>3. ASSUME NEW k \in Tasks, NEW q \in Requests, BeginBook(k, q)
      PROVE  OverlapOnlyInside'
  <2>1. /\ bookings' = bookings /\ request' = [request EXCEPT ![k] = q]
        /\ stage[k] = "new"
    BY <1>3 DEF BeginBook, Begun, Pool!TakenFrom, PoolOK, roomVars
  <2>2. k \notin accepted
    BY <2>1 DEF BookOK
  <2> QED  BY <1>1, <2>1, <2>2 DEF RoomsOK
<1>4. CASE UNCHANGED <<bookings, request>>
  BY <1>1, <1>4
<1>5. ASSUME NEW k \in Tasks, BookStep(k), ~AddBooking(k)
      PROVE  UNCHANGED <<bookings, request>>
  BY <1>5 DEF BookStep, BookNothing, RejectBooking, FindFree, Books, roomVars
<1>6. CASE \/ UNCHANGED bookingVars
           \/ Take \/ \E k \in Tasks : Complete(k)
           \/ \E r \in Readers :
                \/ EndBook(r) \/ PollEnds(r) \/ ReadStep(r)
                \/ \E k \in Tasks : BeginEndBook(r, k) \/ Poll(r, k)
  BY <1>4, <1>6 DEF bookingVars, Take, Complete, EndBook, PollEnds, ReadStep, BeginEndBook,
     Poll, roomVars
<1> QED  BY <1>2, <1>3, <1>4, <1>5, <1>6 DEF BookingNext

LEMMA BookingKept == BookingInv /\ [BookingNext]_bookingVars => BookingInv'
<1> SUFFICES ASSUME BookingInv, [BookingNext]_bookingVars PROVE BookingInv'
  OBVIOUS
<1>1. AsyncOK'
  BY AsyncKept, BookingUsesAsync DEF BookingInv
<1>2. PoolOK'
  BY PoolKept DEF BookingInv, AsyncOK
<1>3. RoomsOK'
  BY RoomsKept DEF BookingInv
<1>4. \A k \in Tasks : BookOK(k)'
  BY BookKept
<1>5. OverlapOnlyInside'
  BY OverlapKept
<1> QED  BY <1>1, <1>2, <1>3, <1>4, <1>5 DEF BookingInv

-----------------------------------------------------------------------------
(* Theorems *)

\* Only a task that the executor has taken is executed.
THEOREM BookingTypeCorrect == BookingSpec => []BookingTypeOK
<1>1. BookingInv => BookingTypeOK
  BY DEF BookingInv, AsyncOK, PoolOK, RoomsOK, BookOK, BookingTypeOK
<1> QED  BY InitBooking, BookingKept, <1>1, PTL DEF BookingSpec

\* However many bookings and readers there are, asking for a result is atomic
\* and never meets the race that EnsureRanToCompletion looks for.
THEOREM AsyncTaskIsFuture == BookingSpec => ImplementsFuture
<1>1. BookingInit => AbstractTask!Init
  BY InitIsFuture DEF BookingInit
<1>2. BookingInv /\ BookingInv' /\ [BookingNext]_bookingVars
      => [AbstractTask!Next]_(AbstractTask!futureVars)
  BY BookingUsesAsync, StepIsFuture DEF BookingInv
<1> QED  BY InitBooking, BookingKept, <1>1, <1>2, PTL
            DEF BookingSpec, ImplementsFuture, AbstractTask!Spec

\* Of any number of bookings of a room, two overlap only as Intersects allows.
THEOREM OverlapCorrect == BookingSpec => []OverlapOnlyInside
<1>1. BookingInv => OverlapOnlyInside
  BY DEF BookingInv
<1> QED  BY InitBooking, BookingKept, <1>1, PTL DEF BookingSpec

\* The reply of EndBook tells what the register has.
THEOREM ApprovedCorrect == BookingSpec => []ApprovedIsBooked
<1>1. BookingInv => ApprovedIsBooked
  BY DEF BookingInv, BookOK, BookedIn, ApprovedIsBooked
<1> QED  BY InitBooking, BookingKept, <1>1, PTL DEF BookingSpec

=============================================================================
