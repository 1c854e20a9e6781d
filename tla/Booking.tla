------------------------------- MODULE Booking -------------------------------
(***************************************************************************)
(* src/Sample/BookingService: a WCF service whose requests are tasks of    *)
(* DarkFlow.  BeginBook wraps a BookTask into an AsyncTaskWrap and passes  *)
(* it to an executor of one queue, "default", which Program.cs limits to   *)
(* one task at a time; when the task calls back, WCF calls EndBook for the *)
(* reply.  The register of bookings is not guarded: it relies on the       *)
(* executor, of which this module knows what TaskPool promises.  The       *)
(* program never disposes the executor.                                    *)
(***************************************************************************)
EXTENDS AsyncTask, Integers, Sequences, FiniteSets

CONSTANTS
    Hosts,      \* the readers that are threads of WCF; the others only ask
    Rooms,      \* the keys of _rooms
    Requests,   \* the requests that clients send
    NullRequest

\* BookPeriod has dates, and begin may lie after end: nobody checks.
ASSUME BookingAssumption ==
    /\ Hosts \subseteq Readers
    /\ \A q \in Requests \ {NullRequest} : q.begin \in Int /\ q.end \in Int

VARIABLES
    waiting, taken, finished, dropped,  \* the executor
    request,    \* the request of a BookTask
    bookings,   \* _bookings of each room, a sequence of tasks
    free,       \* the tasks whose Find has found no booking, before their Add
    accepted,   \* the tasks whose booking was accepted
    rejected,   \* those whose booking was rejected; they can be both
    reply       \* what EndBook returns to the client

poolVars == <<waiting, taken, finished, dropped>>
roomVars == <<bookings, free, accepted, rejected>>
bookingVars == <<asyncVars, poolVars, roomVars, request, reply>>

\* MaxConcurrency(1), and MaxConcurrency = 1 of the queue.
Pool == INSTANCE TaskPool WITH
    Queues <- {"default"},
    Home <- [k \in Tasks |-> "default"],
    Width <- [default |-> 1],
    PoolWidth <- 1

BookingInit ==
    /\ AsyncInit
    /\ Pool!Init
    /\ request = [k \in Tasks |-> NullRequest]
    /\ bookings = [room \in Rooms |-> <<>>]
    /\ free = {}
    /\ accepted = {}
    /\ rejected = {}
    /\ reply = [k \in Tasks |-> "none"]

Period(k) == [begin |-> request[k].begin, end |-> request[k].end]

\* A plausible mistake: strict comparisons.
IntersectsStrictly(p, other) ==
    \/ other.begin < p.begin /\ p.begin < other.end
    \/ other.begin < p.end /\ p.end < other.end

\* p.Intersects(other)
Intersects(p, other) ==
    \/ other.begin <= p.begin /\ p.begin < other.end
    \/ other.begin < p.end /\ p.end <= other.end

\* TryBook's _bookings.Find
Find(k) ==
    \E n \in DOMAIN bookings[request[k].room] :
        Intersects(Period(bookings[request[k].room][n]), Period(k))

-----------------------------------------------------------------------------
(* The service and the executor *)

Begun == Pool!TakenFrom("default") \cup finished
            \cup {waiting["default"][n] : n \in DOMAIN waiting["default"]}

BeginBook(k, q) ==
    /\ k \notin Begun
    /\ Pool!Accept(k)
    /\ request' = [request EXCEPT ![k] = q]
    /\ UNCHANGED <<asyncVars, roomVars, reply>>

\* The executor takes a task and calls its Execute.
Take ==
    /\ Pool!TakeFrom("default")
    /\ Goes(Head(waiting["default"]), "new", "executing")
    /\ UNCHANGED <<completionStatus, exception, calledBack, readVars>>
    /\ UNCHANGED <<roomVars, request, reply>>

\* A plausible mistake: the executor takes the next task while the callback
\* of this one is still to come.
CompleteBeforeCallback(k) ==
    /\ stage[k] = "calling"
    /\ Pool!Finish(k)
    /\ UNCHANGED <<asyncVars, roomVars, request, reply>>

Complete(k) ==
    /\ stage[k] = "returned"
    /\ Pool!Finish(k)
    /\ UNCHANGED <<asyncVars, roomVars, request, reply>>

-----------------------------------------------------------------------------
(* BookTask.Execute *)

Books(k, to) ==
    /\ Goes(k, "executing", to)
    /\ UNCHANGED <<completionStatus, exception, calledBack, readVars>>
    /\ UNCHANGED <<poolVars, request, reply>>

\* WCF can pass a null: NullReferenceException.
BookNothing(k) ==
    /\ request[k] = NullRequest
    /\ Books(k, "threw")
    /\ UNCHANGED roomVars

\* No such room, or the room is taken.
RejectBooking(k) ==
    /\ request[k] # NullRequest
    /\ k \notin free
    /\ request[k].room \in Rooms => Find(k)
    /\ rejected' = rejected \cup {k}
    /\ Books(k, "succeeded")
    /\ UNCHANGED <<bookings, free, accepted>>

FindFree(k) ==
    /\ request[k] # NullRequest
    /\ k \notin free
    /\ request[k].room \in Rooms
    /\ ~Find(k)
    /\ free' = free \cup {k}
    /\ Books(k, "executing")
    /\ UNCHANGED <<bookings, accepted, rejected>>

\* Add and Accept, and then Reject: TryBook has no return.
AddBooking(k) ==
    /\ k \in free
    /\ bookings' = [bookings EXCEPT ![request[k].room] = Append(@, k)]
    /\ free' = free \ {k}
    /\ accepted' = accepted \cup {k}
    /\ rejected' = rejected \cup {k}
    /\ Books(k, "succeeded")

BookStep(k) ==
    \/ BookNothing(k) \/ RejectBooking(k) \/ FindFree(k) \/ AddBooking(k)
    \/ ExecuteStep(k) /\ UNCHANGED <<poolVars, roomVars, request, reply>>

-----------------------------------------------------------------------------
(* EndBook *)

\* WCF calls it once, when the task has called back.
BeginEndBook(h, k) ==
    /\ h \in Hosts
    /\ k \in calledBack
    /\ reply[k] = "none"
    /\ \A other \in Hosts : reading[other] # k
    /\ CallResult(h, k)
    /\ UNCHANGED <<poolVars, roomVars, request, reply>>

\* A plausible mistake: EndBook that asks Rejected instead of Accepted.
EndBookByRejected(h) ==
    /\ h \in Hosts
    /\ ReturnResult(h)
    /\ reply' = [reply EXCEPT ![reading[h]] =
                    IF told[h] # "result" THEN "fault"
                    ELSE IF reading[h] \in rejected THEN "Rejected" ELSE "Approved"]
    /\ UNCHANGED <<poolVars, roomVars, request>>

\* EndBook reads Result twice; the status of a task that has called back does
\* not change, and one read stands for both.
EndBook(h) ==
    /\ h \in Hosts
    /\ ReturnResult(h)
    /\ reply' = [reply EXCEPT ![reading[h]] =
                    IF told[h] # "result" THEN "fault"
                    ELSE IF reading[h] \in accepted THEN "Approved" ELSE "Rejected"]
    /\ UNCHANGED <<poolVars, roomVars, request>>

\* Anybody who has the IAsyncResult may ask for the result, at any time.
Poll(r, k) ==
    /\ r \notin Hosts
    /\ k \in Begun
    /\ CallResult(r, k)
    /\ UNCHANGED <<poolVars, roomVars, request, reply>>

PollEnds(r) ==
    /\ r \notin Hosts
    /\ ReturnResult(r)
    /\ UNCHANGED <<poolVars, roomVars, request, reply>>

ReadStep(r) ==
    /\ ResultStep(r)
    /\ UNCHANGED <<poolVars, roomVars, request, reply>>

-----------------------------------------------------------------------------

BookingNext ==
    \/ Take
    \/ \E k \in Tasks :
        \/ Complete(k) \/ BookStep(k)
        \/ \E q \in Requests : BeginBook(k, q)
    \/ \E r \in Readers :
        \/ EndBook(r) \/ PollEnds(r) \/ ReadStep(r)
        \/ \E k \in Tasks : BeginEndBook(r, k) \/ Poll(r, k)

BookingSpec == BookingInit /\ [][BookingNext]_bookingVars

-----------------------------------------------------------------------------
(* Properties *)

\* The values of the variables; only a task that the executor has taken and
\* not finished is anywhere in Execute.
BookingTypeOK ==
    /\ AsyncTypeOK
    /\ request \in [Tasks -> Requests \cup {NullRequest}]
    /\ free \subseteq taken
    /\ accepted \cup rejected \subseteq Tasks
    /\ \A k \in Tasks :
        /\ stage[k] \notin {"new", "returned"} => k \in taken
        /\ reply[k] # "none" => k \in calledBack

\* The periods share a day; a period that ends before it begins has none.
Overlap(p, q) ==
    /\ p.begin < p.end /\ q.begin < q.end
    /\ p.begin < q.end /\ q.begin < p.end

\* Two bookings of a room overlap only if the later one lies strictly inside
\* the earlier one, which Intersects overlooks.  No two requests, however they
\* come together, book a room from the same state of its bookings.
OverlapOnlyInside ==
    \A room \in Rooms : \A m, n \in DOMAIN bookings[room] :
        LET first == Period(bookings[room][m])
            later == Period(bookings[room][n])
        IN  m < n /\ Overlap(first, later) =>
                first.begin < later.begin /\ later.end < first.end

\* The status of a reply is Approved if and only if the booking is in the
\* room's list, although TryBook rejects every booking in the end.  Of the
\* Message that goes with it nothing is said: it is the one of that rejection,
\* whatever the status is.
ApprovedIsBooked ==
    \A k \in Tasks : reply[k] # "none" =>
        (reply[k] = "Approved" <=>
            \E room \in Rooms : \E n \in DOMAIN bookings[room] : bookings[room][n] = k)
=============================================================================
