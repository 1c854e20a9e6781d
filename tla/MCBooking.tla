------------------------------ MODULE MCBooking ------------------------------
(* Booking with two requests for any periods of four days, or none, in the *)
(* one room there is or in another one, a thread of WCF and a client that  *)
(* asks early.                                                             *)
EXTENDS Booking

CONSTANTS k1, k2, host, client

MCTasks == {k1, k2}
MCReaders == {host, client}
Days == 1..4
MCRequests ==
    [room : {1}, begin : Days, end : Days]
        \cup [room : {2}, begin : {1}, end : {2}] \cup {NullRequest}
=============================================================================
