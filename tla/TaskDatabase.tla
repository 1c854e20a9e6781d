---------------------------- MODULE TaskDatabase ----------------------------
(***************************************************************************)
(* What a task database promises its users (DarkFlow/Database/IDatabase.cs *)
(* and PersisterBase.LoadAll above it): a set of rows keyed by             *)
(* identifiers, and enumerations of the rows of one region that run while  *)
(* others persist and remove.  Its map names the lines of                  *)
(* DarkFlow/Database/InMemoryDatabase.cs, which does the same with Spoils  *)
(* empty, but for one thing: the enumerator of a ConcurrentDictionary that *)
(* has been resized meanwhile may return a row that was removed.           *)
(*                                                                         *)
(* An enumeration is lazy: GetAll and LoadAll only build it, and each of   *)
(* its steps looks at the rows of that moment.                             *)
(***************************************************************************)
CONSTANTS
    Regions,      \* the regions the executors persist to
    Identifiers,  \* records of a region and a guid
    Readers,      \* the enumerations
    Spoils,       \* <<i, r>>: a row i may end an enumeration of region r
    NoRegion

VARIABLES
    rows,    \* the identifiers of the rows
    issued,  \* history: the identifiers NewIdentifier has made
    asked,   \* the region each enumeration is about
    phase,   \* how far it is
    given,   \* the identifiers it has returned
    due      \* the rows it has still to return, as far as they stay

dataVars == <<rows, issued>>
readerVars == <<asked, phase, given, due>>
vars == <<dataVars, readerVars>>

RowsOf(region) == {i \in rows : i.region = region}

Init ==
    /\ rows = {}
    /\ issued = {}
    /\ asked = [r \in Readers |-> NoRegion]
    /\ phase = [r \in Readers |-> "idle"]
    /\ given = [r \in Readers |-> {}]
    /\ due = [r \in Readers |-> {}]

\* A new identifier gets a row.
Persist(i) ==
    /\ i \notin issued
    /\ issued' = issued \cup {i}
    /\ rows' = rows \cup {i}
    /\ UNCHANGED readerVars

\* Removing what is not there is no error.
Remove(i) ==
    /\ rows' = rows \ {i}
    /\ due' = [r \in Readers |-> due[r] \ {i}]
    /\ UNCHANGED <<issued, asked, phase, given>>

Begin(r, region) ==
    /\ phase[r] # "reading"
    /\ asked' = [asked EXCEPT ![r] = region]
    /\ phase' = [phase EXCEPT ![r] = "reading"]
    /\ given' = [given EXCEPT ![r] = {}]
    /\ due' = [due EXCEPT ![r] = RowsOf(region)]
    /\ UNCHANGED dataVars

\* A row of the region, which may be younger than the enumeration.
Return(r, i) ==
    /\ phase[r] = "reading"
    /\ i \in RowsOf(asked[r]) \ given[r]
    /\ given' = [given EXCEPT ![r] = @ \cup {i}]
    /\ due' = [due EXCEPT ![r] = @ \ {i}]
    /\ UNCHANGED <<dataVars, asked, phase>>

\* Nothing is missing: what was there all the time has been returned.
End(r) ==
    /\ phase[r] = "reading"
    /\ due[r] = {}
    /\ phase' = [phase EXCEPT ![r] = "done"]
    /\ UNCHANGED <<dataVars, asked, given, due>>

Fail(r) ==
    /\ phase[r] = "reading"
    /\ \E i \in rows : <<i, asked[r]>> \in Spoils
    /\ phase' = [phase EXCEPT ![r] = "failed"]
    /\ due' = [due EXCEPT ![r] = {}]
    /\ UNCHANGED <<dataVars, asked, given>>

Next ==
    \/ \E i \in Identifiers : Persist(i) \/ Remove(i)
    \/ \E r \in Readers :
        \/ \E region \in Regions : Begin(r, region)
        \/ \E i \in Identifiers : Return(r, i)
        \/ End(r) \/ Fail(r)

Spec == Init /\ [][Next]_vars
=============================================================================
