---------------------------- MODULE EsentDatabase ----------------------------
(***************************************************************************)
(* DarkFlow/Database/ManagedEsentDatabase.cs: rows in a persistent         *)
(* dictionary whose keys are texts, `region.guid' as Identifier.ToString   *)
(* writes it.  GetAll walks over all rows, parses each key to find the     *)
(* identifier, and skips those of other regions; PersisterBase.LoadAll     *)
(* deserialises each row that comes out.                                   *)
(*                                                                         *)
(* A text is the sequence of its segments between dots.  A name of a       *)
(* region is any text, so it can have dots of its own.  One step of a      *)
(* reader is one row of the walk.                                          *)
(***************************************************************************)
EXTENDS Integers, Sequences

CONSTANTS
    Segments,    \* what stands between dots in the names of regions
    Guids,
    Regions,     \* the names of the regions in use
    Unloadable,  \* the identifiers of rows that Deserialize rejects
    Readers,     \* the threads that enumerate
    NoRegion

Identifiers == [region : Regions, guid : Guids]

\* No segment of a name reads as a guid.
ASSUME DatabaseAssumption ==
    /\ Regions \subseteq Seq(Segments) \ {<<>>}
    /\ Segments \cap Guids = {}
    /\ Unloadable \subseteq Identifiers
    /\ NoRegion \notin Regions

VARIABLES
    table,    \* the keys of the PersistentDictionary
    issued,   \* history: the identifiers NewIdentifier has made
    asked,    \* the region of each reader's enumeration
    phase,    \* idle, reading, done or failed
    initial,  \* history: the keys that were there when the reader began
    visited,  \* the keys the reader's walk has passed
    given     \* the identifiers the reader has got

vars == <<table, issued, asked, phase, initial, visited, given>>

-----------------------------------------------------------------------------
(* Identifier *)

\* string.Concat(_region.Name, ".", _id)
TextOf(i) == Append(i.region, i.guid)

\* Split, and Guid.Parse of the second token, which may throw.
Parses(text) == text[2] \in Guids

\* A plausible mistake: the same token twice.
ParseOneToken(text) == [region |-> <<text[1]>>, guid |-> text[1]]

Parse(text) == [region |-> <<text[1]>>, guid |-> text[2]]

Init ==
    /\ table = {}
    /\ issued = {}
    /\ asked = [r \in Readers |-> NoRegion]
    /\ phase = [r \in Readers |-> "idle"]
    /\ initial = [r \in Readers |-> {}]
    /\ visited = [r \in Readers |-> {}]
    /\ given = [r \in Readers |-> {}]

\* The walk of reader r is over, and its cursor disposed.
Leaves(r, outcome) ==
    /\ phase' = [phase EXCEPT ![r] = outcome]
    /\ initial' = [initial EXCEPT ![r] = {}]
    /\ visited' = [visited EXCEPT ![r] = {}]

-----------------------------------------------------------------------------
(* Plausible mistakes: each stands for the definition it begins with. *)

\* Visit without the comparison of the regions.
VisitEveryRegion(r, text) ==
    /\ phase[r] = "reading"
    /\ text \in table \ visited[r]
    /\ \/ /\ Parses(text) => Parse(text) \in Unloadable
          /\ Leaves(r, "failed")
          /\ UNCHANGED given
       \/ /\ Parses(text) /\ Parse(text) \notin Unloadable
          /\ visited' = [visited EXCEPT ![r] = @ \cup {text}]
          /\ given' = [given EXCEPT ![r] = @ \cup {Parse(text)}]
          /\ UNCHANGED <<phase, initial>>
    /\ UNCHANGED <<table, issued, asked>>

\* End as soon as the reader has got something.
EndEarly(r) ==
    /\ phase[r] = "reading"
    /\ initial[r] \cap table \subseteq visited[r] \/ given[r] # {}
    /\ Leaves(r, "done")
    /\ UNCHANGED <<table, issued, asked, given>>

-----------------------------------------------------------------------------
(* Persist and Remove *)

Persist(i) ==
    /\ i \notin issued
    /\ issued' = issued \cup {i}
    /\ table' = table \cup {TextOf(i)}
    /\ UNCHANGED <<asked, phase, initial, visited, given>>

Remove(i) ==
    /\ table' = table \ {TextOf(i)}
    /\ UNCHANGED <<issued, asked, phase, initial, visited, given>>

-----------------------------------------------------------------------------
(* GetAll and LoadAll *)

\* The first MoveNext begins the walk.
Begin(r, region) ==
    /\ phase[r] # "reading"
    /\ asked' = [asked EXCEPT ![r] = region]
    /\ phase' = [phase EXCEPT ![r] = "reading"]
    /\ initial' = [initial EXCEPT ![r] = table]
    /\ visited' = [visited EXCEPT ![r] = {}]
    /\ given' = [given EXCEPT ![r] = {}]
    /\ UNCHANGED <<table, issued>>

\* The next row ends the walk by an exception of Parse or of Deserialize, or
\* it is skipped or returned.
Visit(r, text) ==
    /\ phase[r] = "reading"
    /\ text \in table \ visited[r]
    /\ \/ /\ Parses(text) => Parse(text).region = asked[r] /\ Parse(text) \in Unloadable
          /\ Leaves(r, "failed")
          /\ UNCHANGED given
       \/ /\ Parses(text)
          /\ Parse(text).region = asked[r] => Parse(text) \notin Unloadable
          /\ visited' = [visited EXCEPT ![r] = @ \cup {text}]
          /\ given' = [given EXCEPT ![r] =
                          IF Parse(text).region = asked[r] THEN @ \cup {Parse(text)} ELSE @]
          /\ UNCHANGED <<phase, initial>>
    /\ UNCHANGED <<table, issued, asked>>

\* The walk is at its end when it has passed every key that has been there
\* all the time; of younger ones it may have missed some.
End(r) ==
    /\ phase[r] = "reading"
    /\ initial[r] \cap table \subseteq visited[r]
    /\ Leaves(r, "done")
    /\ UNCHANGED <<table, issued, asked, given>>

-----------------------------------------------------------------------------

Next ==
    \/ \E i \in Identifiers : Persist(i) \/ Remove(i)
    \/ \E r \in Readers :
        \/ \E region \in Regions : Begin(r, region)
        \/ \E text \in table : Visit(r, text)
        \/ End(r)

Spec == Init /\ [][Next]_vars

-----------------------------------------------------------------------------
(* Properties *)

Keys == {TextOf(i) : i \in issued}

\* The values the dictionary and the local variables of GetAll can have; a
\* reader never gets an identifier that nobody has made.
EsentTypeOK ==
    /\ table \subseteq Keys
    /\ issued \subseteq Identifiers
    /\ asked \in [Readers -> Regions \cup {NoRegion}]
    /\ phase \in [Readers -> {"idle", "reading", "done", "failed"}]
    /\ initial \in [Readers -> SUBSET Keys]
    /\ visited \in [Readers -> SUBSET Keys]
    /\ given \in [Readers -> SUBSET issued]

\* "Get_all_returns_task_from_specified_region_only" (DatabaseTests.cs, line
\* 63), while other threads persist and remove: when LoadAll comes to its end
\* it has returned every task of the region that was stored all the time, and
\* none of another region.
LoadIsExact ==
    [][\A r \in Readers : phase[r] = "reading" /\ phase'[r] = "done" =>
        /\ {i \in Identifiers : i.region = asked[r] /\ TextOf(i) \in initial[r] \cap table}
               \subseteq given[r]
        /\ \A i \in given[r] : i.region = asked[r]]_vars

\* The name of a region of more than one segment.
Dotted(region) == Len(region) > 1

\* Keyed by texts or by identifiers is the same to every user, as long as no
\* region with a dot in its name is in use: a single row of such a region
\* ends every enumeration, of any region, by an exception, as a row that
\* cannot be deserialised does for its own region.
Database == INSTANCE TaskDatabase WITH
    Spoils <- {w \in Identifiers \X Regions :
                  Dotted(w[1].region) \/ (w[1] \in Unloadable /\ w[1].region = w[2])},
    rows <- {i \in Identifiers : TextOf(i) \in table},
    due <- [r \in Readers |->
               {i \in Identifiers :
                   /\ i.region = asked[r]
                   /\ TextOf(i) \in (initial[r] \cap table) \ visited[r]}]
ImplementsDatabase == Database!Spec
=============================================================================
