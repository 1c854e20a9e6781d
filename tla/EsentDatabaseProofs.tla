------------------------ MODULE EsentDatabaseProofs ------------------------
(***************************************************************************)
(* Proofs about EsentDatabase, for every set of regions and readers: what  *)
(* the texts of identifiers tell, the type invariant, that LoadAll is      *)
(* exact, and that the database implements TaskDatabase.                   *)
(***************************************************************************)
EXTENDS EsentDatabase, SequenceTheorems, TLAPS

USE DatabaseAssumption

-----------------------------------------------------------------------------
(* Texts *)

\* A name and a guid can be told from the text that joins them.
LEMMA JoinInjective ==
    ASSUME NEW s \in Seq(Segments), NEW t \in Seq(Segments),
           NEW g \in Guids, NEW h \in Guids, Append(s, g) = Append(t, h)
    PROVE  s = t /\ g = h
<1>1. PICK S : S = Segments \cup Guids OBVIOUS
<1>2. s \in Seq(S) /\ t \in Seq(S) /\ g \in S /\ h \in S BY <1>1
<1> QED BY ONLY <1>2, Append(s, g) = Append(t, h), AppendInjective

LEMMA OnlyOne == ASSUME NEW n \in Nat \ {0}, ~(n > 1) PROVE n = 1
OBVIOUS

\* The first two tokens of a text that joins a name and a guid.
LEMMA Tokens ==
    ASSUME NEW s \in Seq(Segments) \ {<<>>}, NEW g \in Guids
    PROVE  /\ Len(s) > 1 => Append(s, g)[2] \in Segments
           /\ ~(Len(s) > 1) => s = <<Append(s, g)[1]>> /\ Append(s, g)[2] = g
<1>1. PICK S : S = Segments \cup Guids OBVIOUS
<1>2. s \in Seq(S) /\ g \in S BY <1>1
<1>3. /\ \A k \in 1..Len(s) : Append(s, g)[k] = s[k]
      /\ Append(s, g)[Len(s) + 1] = g
  BY <1>2, AppendProperties
<1>4. Len(s) \in Nat \ {0} BY ONLY s \in Seq(Segments) \ {<<>>}, EmptySeq
<1>5. CASE Len(s) > 1
  <2>1. 2 \in 1..Len(s) BY ONLY <1>4, <1>5
  <2> QED BY <2>1, <1>3, <1>5, ElementOfSeq
<1>6. CASE ~(Len(s) > 1)
  <2>1. Len(s) = 1 BY ONLY <1>4, <1>6, OnlyOne
  <2>2. s[1] \in Segments BY <2>1, ElementOfSeq
  <2>3. s = <<s[1]>>
    <3>1. <<s[1]>> \in Seq(Segments) /\ Len(<<s[1]>>) = 1 BY <2>2
    <3>2. \A k \in 1..Len(s) : s[k] = <<s[1]>>[k] BY <2>1
    <3> QED BY <2>1, <3>1, <3>2, SeqEqual
  <2> QED BY <2>1, <2>3, <1>3, <1>6
<1> QED BY <1>5, <1>6

\* Different identifiers have different texts.
LEMMA TextInjective ==
    ASSUME NEW i \in Identifiers, NEW j \in Identifiers, TextOf(i) = TextOf(j)
    PROVE  i = j
<1>1. /\ i.region \in Seq(Segments) /\ j.region \in Seq(Segments)
      /\ i.guid \in Guids /\ j.guid \in Guids
  BY DEF Identifiers
<1>2. Append(i.region, i.guid) = Append(j.region, j.guid) BY DEF TextOf
<1>3. i.region = j.region /\ i.guid = j.guid 
  <2>1. PICK s, t, g, h : s = i.region /\ t = j.region /\ g = i.guid /\ h = j.guid
    OBVIOUS
  <2>2. s \in Seq(Segments) /\ t \in Seq(Segments) /\ g \in Guids /\ h \in Guids
    BY ONLY <2>1, <1>1
  <2>3. Append(s, g) = Append(t, h) BY ONLY <2>1, <1>2
  <2>4. s = t /\ g = h BY ONLY <2>2, <2>3, JoinInjective
  <2> QED BY ONLY <2>1, <2>4
<1> QED BY <1>3 DEF Identifiers

\* Identifier.Parse reads the text of an identifier if and only if the name
\* of its region has no dot, and then it finds the identifier.
LEMMA TextParses ==
    ASSUME NEW i \in Identifiers
    PROVE  /\ Parses(TextOf(i)) <=> ~Dotted(i.region)
           /\ ~Dotted(i.region) => Parse(TextOf(i)) = i
<1>1. i.region \in Seq(Segments) \ {<<>>} /\ i.guid \in Guids BY DEF Identifiers
<1>2. /\ Dotted(i.region) => TextOf(i)[2] \in Segments
      /\ ~Dotted(i.region) => i.region = <<TextOf(i)[1]>> /\ TextOf(i)[2] = i.guid
  BY <1>1, Tokens DEF TextOf, Dotted
<1>3. i = [region |-> i.region, guid |-> i.guid] BY DEF Identifiers
<1> QED BY <1>1, <1>2, <1>3 DEF Parses, Parse

-----------------------------------------------------------------------------
(* The inductive invariant *)

\* What a reader has got is of its region, and it has got the rows of its
\* region that its walk has passed.
GivenOK ==
    \A r \in Readers : phase[r] = "reading" =>
        /\ asked[r] \in Regions
        /\ \A i \in given[r] : i.region = asked[r] /\ TextOf(i) \in visited[r]
        /\ \A i \in Identifiers :
              i.region = asked[r] /\ TextOf(i) \in visited[r] => i \in given[r]

DatabaseInv == EsentTypeOK /\ GivenOK

LEMMA InvInit == Init => DatabaseInv
BY DEF Init, DatabaseInv, EsentTypeOK, GivenOK

\* What Visit finds: the row of an identifier, which it returns only if the
\* region is the right one.
LEMMA RowFound ==
    ASSUME EsentTypeOK, NEW text \in table
    PROVE  /\ text \in Keys
           /\ Parses(text) => Parse(text) \in issued /\ TextOf(Parse(text)) = text
           /\ \A i \in Identifiers : TextOf(i) = text =>
                 (Parses(text) <=> ~Dotted(i.region)) /\ (Parses(text) => Parse(text) = i)
<1>1. PICK i \in issued : text = TextOf(i) BY DEF EsentTypeOK, Keys
<1>2. i \in Identifiers BY <1>1 DEF EsentTypeOK
<1>3. \A j \in Identifiers : TextOf(j) = text => j = i BY <1>1, <1>2, TextInjective
<1> QED BY <1>1, <1>2, <1>3, TextParses DEF Keys

LEMMA InvStep == DatabaseInv /\ [Next]_vars => DatabaseInv'
<1> SUFFICES ASSUME DatabaseInv, [Next]_vars PROVE DatabaseInv' OBVIOUS
<1>1. ASSUME NEW i \in Identifiers, Persist(i) PROVE DatabaseInv'
  <2>1. Keys \subseteq Keys' /\ TextOf(i) \in Keys'
    BY <1>1 DEF Persist, Keys, TextOf
  <2> QED BY <1>1, <2>1 DEF Persist, DatabaseInv, EsentTypeOK, GivenOK
<1>2. ASSUME NEW i \in Identifiers, Remove(i) PROVE DatabaseInv'
  BY <1>2 DEF Remove, Keys, TextOf, DatabaseInv, EsentTypeOK, GivenOK
<1>3. ASSUME NEW r \in Readers, NEW region \in Regions, Begin(r, region) PROVE DatabaseInv'
  <2>1. table \subseteq Keys BY DEF DatabaseInv, EsentTypeOK
  <2> QED BY <1>3, <2>1 DEF Begin, Keys, TextOf, DatabaseInv, EsentTypeOK, GivenOK
<1>4. ASSUME NEW r \in Readers, NEW text \in table, Visit(r, text) PROVE DatabaseInv'
  <2>1. /\ text \in Keys
        /\ Parses(text) => Parse(text) \in issued /\ TextOf(Parse(text)) = text
    BY RowFound DEF DatabaseInv
  <2>2. Keys' = Keys /\ issued' = issued /\ table' = table /\ asked' = asked
    BY <1>4 DEF Visit, Keys, TextOf
  <2>3. CASE Leaves(r, "failed") /\ UNCHANGED given
    BY <2>2, <2>3 DEF Leaves, DatabaseInv, EsentTypeOK, GivenOK, TextOf
  <2>4. CASE /\ Parses(text)
             /\ visited' = [visited EXCEPT ![r] = @ \cup {text}]
             /\ given' = [given EXCEPT ![r] =
                             IF Parse(text).region = asked[r] THEN @ \cup {Parse(text)} ELSE @]
             /\ UNCHANGED <<phase, initial>>
    <3>1. PICK i : i = Parse(text) OBVIOUS
    <3>2. i \in issued /\ TextOf(i) = text BY <2>1, <2>4, <3>1
    <3>3. given' = [given EXCEPT ![r] = IF i.region = asked[r] THEN @ \cup {i} ELSE @]
      BY <2>4, <3>1
    <3>4. EsentTypeOK'
      BY ONLY <2>1, <2>2, <2>4, <3>2, <3>3, DatabaseInv DEF DatabaseInv, EsentTypeOK
    <3>5. i \in Identifiers /\ \A j \in Identifiers : TextOf(j) = text => j = i
      BY <3>2, TextInjective DEF DatabaseInv, EsentTypeOK
    <3>6. /\ visited'[r] = visited[r] \cup {text}
          /\ given'[r] = IF i.region = asked[r] THEN given[r] \cup {i} ELSE given[r]
          /\ \A q \in Readers : q # r => visited'[q] = visited[q] /\ given'[q] = given[q]
      BY <2>4, <3>3 DEF DatabaseInv, EsentTypeOK
    <3>7. asked' = asked /\ phase' = phase BY <2>2, <2>4
    <3>8. ASSUME NEW q \in Readers, phase[q] = "reading"
          PROVE  /\ asked[q] \in Regions
                 /\ \A j \in given'[q] : j.region = asked[q] /\ TextOf(j) \in visited'[q]
                 /\ \A j \in Identifiers :
                       j.region = asked[q] /\ TextOf(j) \in visited'[q] => j \in given'[q]
      BY <3>2, <3>5, <3>6, <3>8 DEF DatabaseInv, GivenOK
    <3>9. GivenOK' BY <3>7, <3>8 DEF GivenOK, TextOf
    <3> QED BY <3>4, <3>9 DEF DatabaseInv
  <2> QED BY <1>4, <2>3, <2>4 DEF Visit
<1>5. ASSUME NEW r \in Readers, End(r) PROVE DatabaseInv'
  BY <1>5 DEF End, Leaves, Keys, TextOf, DatabaseInv, EsentTypeOK, GivenOK
<1>6. CASE UNCHANGED vars
  BY <1>6 DEF vars, Keys, TextOf, DatabaseInv, EsentTypeOK, GivenOK
<1> QED BY <1>1, <1>2, <1>3, <1>4, <1>5, <1>6 DEF Next

LEMMA InvHolds == Spec => []DatabaseInv
BY InvInit, InvStep, PTL DEF Spec

\* The dictionary holds only texts of identifiers that were made, and no
\* reader ever gets another one (ManagedEsentDatabase.GetAll).
THEOREM EsentTypeCorrect == Spec => []EsentTypeOK
<1>1. DatabaseInv => EsentTypeOK BY DEF DatabaseInv
<1> QED BY <1>1, InvHolds, PTL

-----------------------------------------------------------------------------
(* Refinement *)

LEMMA InitIsAbstract == Init => Database!Init
BY DEF Init, Database!Init

LEMMA StepIsAbstract == DatabaseInv /\ [Next]_vars => [Database!Next]_Database!vars
<1> SUFFICES ASSUME DatabaseInv, [Next]_vars PROVE [Database!Next]_Database!vars OBVIOUS
<1> USE DEF DatabaseInv
<1>1. ASSUME NEW i \in Identifiers, Persist(i) PROVE Database!Persist(i)
  <2>1. \A j \in Identifiers : TextOf(j) = TextOf(i) <=> j = i BY TextInjective
  <2>2. TextOf(i) \notin Keys
    BY <1>1, TextInjective DEF Persist, Keys, EsentTypeOK
  <2>3. \A r \in Readers : TextOf(i) \notin initial[r] BY <2>2 DEF EsentTypeOK
  <2>4. \A j \in Identifiers : TextOf(j)' = TextOf(j) BY DEF TextOf
  <2>5. {j \in Identifiers : TextOf(j) \in table'} = {j \in Identifiers : TextOf(j) \in table} \cup {i}
    BY <1>1, <2>1 DEF Persist
  <2>6. \A r \in Readers : (initial[r] \cap table') \ visited[r] = (initial[r] \cap table) \ visited[r]
    BY <1>1, <2>3 DEF Persist
  <2> QED BY <1>1, <2>5, <2>6 DEF Persist, Database!Persist, Database!readerVars, TextOf
<1>2. ASSUME NEW i \in Identifiers, Remove(i) PROVE Database!Remove(i)
  <2>1. \A j \in Identifiers : TextOf(j) = TextOf(i) <=> j = i BY TextInjective
  <2> QED BY <1>2, <2>1 DEF Remove, Database!Remove, TextOf
<1>3. ASSUME NEW r \in Readers, NEW region \in Regions, Begin(r, region)
      PROVE  Database!Begin(r, region)
  BY <1>3 DEF Begin, Database!Begin, Database!RowsOf, Database!dataVars, EsentTypeOK, TextOf
<1>4. ASSUME NEW r \in Readers, NEW text \in table, Visit(r, text)
      PROVE  [Database!Next]_Database!vars
  <2>1. PICK i \in Identifiers : i \in issued /\ TextOf(i) = text
    BY DEF EsentTypeOK, Keys
  <2>2. \A j \in Identifiers : TextOf(j) = text <=> j = i BY <2>1, TextInjective
  <2>3. (Parses(text) <=> ~Dotted(i.region)) /\ (Parses(text) => Parse(text) = i)
    BY <2>1, RowFound
  <2>4. i.region \in Regions /\ asked[r] \in Regions \cup {NoRegion} BY DEF Identifiers, EsentTypeOK
  <2>5. CASE /\ Parses(text) => Parse(text).region = asked[r] /\ Parse(text) \in Unloadable
             /\ Leaves(r, "failed")
             /\ UNCHANGED given
    <3>1. phase[r] = "reading" /\ asked[r] \in Regions BY <1>4 DEF Visit, GivenOK
    <3>2. Dotted(i.region) \/ (i \in Unloadable /\ i.region = asked[r]) BY <2>3, <2>5
    <3>3. <<i, asked[r]>> \in {w \in Identifiers \X Regions :
                  Dotted(w[1].region) \/ (w[1] \in Unloadable /\ w[1].region = w[2])}
      BY <3>1, <3>2
    <3>4. i \in {j \in Identifiers : TextOf(j) \in table} BY <2>1
    <3>5. /\ phase' = [phase EXCEPT ![r] = "failed"]
          /\ initial' = [initial EXCEPT ![r] = {}] /\ visited' = [visited EXCEPT ![r] = {}]
          /\ UNCHANGED <<table, issued, asked, given>>
      BY <1>4, <2>5 DEF Visit, Leaves
    <3>6. Database!Fail(r)
      BY <3>1, <3>3, <3>4, <3>5 DEF Database!Fail, Database!dataVars, EsentTypeOK, TextOf
    <3> QED BY <3>6 DEF Database!Next
  <2>6. CASE /\ Parses(text)
             /\ visited' = [visited EXCEPT ![r] = @ \cup {text}]
             /\ given' = [given EXCEPT ![r] =
                             IF Parse(text).region = asked[r] THEN @ \cup {Parse(text)} ELSE @]
             /\ UNCHANGED <<phase, initial>>
    <3>0. phase[r] = "reading" /\ text \notin visited[r] /\ UNCHANGED <<table, issued, asked>>
      BY <1>4 DEF Visit
    <3>1. CASE i.region = asked[r]
      <4>1. given' = [given EXCEPT ![r] = @ \cup {i}] BY <2>3, <2>6, <3>1
      <4>2. i \notin given[r] BY <2>1, <3>0 DEF GivenOK
      <4>3. i \in Database!RowsOf(asked[r]) BY <2>1, <3>1 DEF Database!RowsOf
      <4>4. visited'[r] = visited[r] \cup {text} /\ \A q \in Readers : q # r => visited'[q] = visited[q]
        BY <2>6 DEF EsentTypeOK
      <4>5. \A q \in Readers : (initial[q] \cap table) \ visited'[q] =
               IF q = r THEN ((initial[q] \cap table) \ visited[q]) \ {text}
                        ELSE (initial[q] \cap table) \ visited[q]
        BY <4>4
      <4>6. UNCHANGED <<table, issued, asked, phase, initial>> BY <2>6, <3>0
      <4> DEFINE due == [q \in Readers |->
                            {j \in Identifiers :
                                /\ j.region = asked[q]
                                /\ TextOf(j) \in (initial[q] \cap table) \ visited[q]}]
      <4>7. \A q \in Readers : due'[q] = IF q = r THEN due[q] \ {i} ELSE due[q]
        BY <2>2, <4>5, <4>6 DEF TextOf
      <4>8. due' = [due EXCEPT ![r] = @ \ {i}]
        <5>1. due = [q \in Readers |-> due[q]] /\ due' = [q \in Readers |-> due'[q]]
          OBVIOUS
        <5> HIDE DEF due
        <5> QED BY <4>7, <5>1
      <4>9. UNCHANGED Database!dataVars BY <4>6 DEF Database!dataVars, TextOf
      <4>10. Database!Return(r, i)
        BY <3>0, <4>1, <4>2, <4>3, <4>6, <4>8, <4>9 DEF Database!Return
      <4> QED BY <4>10 DEF Database!Next
    <3>2. CASE i.region # asked[r]
      <4>1. given' = given BY <2>3, <2>6, <3>2 DEF EsentTypeOK
      <4>2. UNCHANGED <<table, issued, asked, phase, initial>> BY <2>6, <3>0
      <4>3. \A q \in Readers : \A j \in Identifiers :
                j.region = asked[q] => (TextOf(j) \in (initial[q] \cap table) \ visited'[q]
                                        <=> TextOf(j) \in (initial[q] \cap table) \ visited[q])
        BY <2>2, <2>6, <3>2 DEF EsentTypeOK
      <4> QED
        BY <4>1, <4>2, <4>3 DEF Database!vars, Database!dataVars, Database!readerVars, TextOf
    <3> QED BY <3>1, <3>2
  <2> QED BY <1>4, <2>5, <2>6 DEF Visit
<1>5. ASSUME NEW r \in Readers, End(r) PROVE Database!End(r)
  BY <1>5 DEF End, Leaves, Database!End, Database!dataVars, EsentTypeOK, TextOf
<1>6. CASE UNCHANGED vars
  BY <1>6 DEF vars, Database!vars, Database!dataVars, Database!readerVars
<1> QED BY <1>1, <1>2, <1>3, <1>4, <1>5, <1>6 DEF Next, Database!Next

\* Every step of the dictionary and its readers is a step of a database
\* keyed by identifiers, or changes nothing that its users can tell, for every
\* set of regions, with or without dots in their names.
THEOREM EsentImplementsDatabase == Spec => ImplementsDatabase
<1>1. Init => Database!Init BY InitIsAbstract
<1>2. DatabaseInv /\ [Next]_vars => [Database!Next]_Database!vars BY StepIsAbstract
<1> QED BY <1>1, <1>2, InvHolds, PTL DEF Spec, ImplementsDatabase, Database!Spec

\* An enumeration that comes to its end has returned every row of its region
\* that was there all the time, and no row of another region
\* (ManagedEsentDatabase.GetAll).
THEOREM LoadIsExactCorrect == Spec => LoadIsExact
<1>1. DatabaseInv /\ [Next]_vars =>
        [\A r \in Readers : phase[r] = "reading" /\ phase'[r] = "done" =>
            /\ {i \in Identifiers : i.region = asked[r] /\ TextOf(i) \in initial[r] \cap table}
                   \subseteq given[r]
            /\ \A i \in given[r] : i.region = asked[r]]_vars
  <2> SUFFICES ASSUME DatabaseInv, Next, NEW r \in Readers,
                      phase[r] = "reading", phase'[r] = "done"
               PROVE  /\ {i \in Identifiers :
                             i.region = asked[r] /\ TextOf(i) \in initial[r] \cap table}
                             \subseteq given[r]
                      /\ \A i \in given[r] : i.region = asked[r]
    OBVIOUS
  <2>1. initial[r] \cap table \subseteq visited[r]
    BY DEF Next, Persist, Remove, Begin, Visit, Leaves, End, DatabaseInv, EsentTypeOK
  <2> QED BY <2>1 DEF DatabaseInv, GivenOK
<1> QED BY <1>1, InvHolds, PTL DEF Spec, LoadIsExact
=============================================================================
