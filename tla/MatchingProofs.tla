--------------------------- MODULE MatchingProofs ---------------------------
(***************************************************************************)
(* Proofs about Matching.  A thread that is at a matcher has passed those  *)
(* before it, and what a cache holds is what its matcher would say; so a   *)
(* chain ends where its matchers say, whoever filled the caches.  That is  *)
(* where the chain as configured says, but for attribute matchers that     *)
(* come from the settings.                                                 *)
(***************************************************************************)
EXTENDS Matching, CopyOnWriteProofs

Paths == {"route", "persist"}

\* What the matchers as they have been built say of task k.
AsBuilt(k) ==
    IF Decisive("route", k) = {} THEN Threw(k, "no match")
    ELSE LET s == CHOOSE s \in Decisive("route", k) : TRUE
             p == Decisive("persist", k)
         IN  IF k \notin s.matches THEN Threw(k, "member")
             ELSE IF QueueName("route", s, k) \notin Executors THEN Threw(k, "not found")
             ELSE IF \E d \in p : k \notin d.matches THEN Threw(k, "member")
             ELSE Routed(k, QueueName("route", s, k), p # {})

\* What a cache holds of a type is what its matcher says of each task of it.
CacheOK ==
    \A c \in Cells : \A e \in contents[c] :
        /\ Chains[c[1]][c[2]].kind \in ByType
        /\ \A k \in Tasks : TypeOf[k] = e.type => (e.matched <=> k \in Chains[c[1]][c[2]].matches)

\* The call of ThreadSafeAdd is for the matcher and the task the thread has,
\* whose type was not in the cache.
CallOK(t) ==
    call[t] # NoCall =>
        /\ task[t] # NoTask
        /\ Chains[at[t][1]][at[t][2]].kind \in ByType
        /\ t \in cold
        /\ call[t].op = "add"
        /\ call[t].cell = at[t]
        /\ call[t].item.type = TypeOf[task[t]]
        /\ call[t].item.matched = (task[t] \in Chains[at[t][1]][at[t][2]].matches)

\* The thread has passed the matchers before the one it is at.
WayOK(t) ==
    /\ at[t] \in Cells
    /\ name[t] \in Executors <=> at[t][1] = "persist"
    /\ task[t] = NoTask => at[t] = <<"route", 1>>
    /\ task[t] # NoTask => OnTheWay(at[t][1], at[t][2], task[t])
    /\ at[t][1] = "persist" =>
        \E n \in DOMAIN Chains["route"] :
            /\ OnTheWay("route", n, task[t])
            /\ task[t] \in Chains["route"][n].matches
            /\ name[t] = QueueName("route", Chains["route"][n], task[t])

WarmOK(t) == task[t] # NoTask /\ t \notin cold => ~Cold(task[t])

AnswerOK(t) ==
    answer[t] # NoAnswer =>
        \/ answer[t] = AsBuilt(answer[t].of)
        \/ answer[t] = Threw(answer[t].of, "cache") /\ t \in cold

FrameOK ==
    /\ task \in [Threads -> Tasks \cup {NoTask}]
    /\ at \in [Threads -> Cells]
    /\ name = [t \in Threads |-> name[t]]
    /\ answer = [t \in Threads |-> answer[t]]
    /\ cold \subseteq Threads

ThreadOK(t) == CallOK(t) /\ WayOK(t) /\ WarmOK(t) /\ AnswerOK(t)

MatchingInv == CowInv /\ FrameOK /\ CacheOK /\ \A t \in Threads : ThreadOK(t)

-----------------------------------------------------------------------------
(* The chains *)

\* A cell is a chain and a position in it.
LEMMA CellIsMatcher ==
    ASSUME NEW c \in Paths, NEW n \in DOMAIN Chains[c]
    PROVE  /\ <<c, n>> \in Cells
           /\ n \in Nat \ {0} /\ n <= Len(Chains[c])
           /\ Chains[c][n] \in Settings
BY MatchingAssumption DEF Paths

LEMMA MatcherOfCell ==
    ASSUME NEW a \in Cells
    PROVE  /\ a[1] \in Paths /\ a[2] \in DOMAIN Chains[a[1]]
           /\ a = <<a[1], a[2]>>
BY MatchingAssumption DEF Paths

\* A chain is left at one matcher only.
LEMMA DecisiveOne ==
    ASSUME NEW c \in Paths, NEW n \in DOMAIN Chains[c], NEW k,
           OnTheWay(c, n, k), Stops(Chains[c][n], k)
    PROVE  Decisive(c, k) = {Chains[c][n]}
<1>1. ASSUME NEW m \in DOMAIN Chains[c], OnTheWay(c, m, k), Stops(Chains[c][m], k)
      PROVE  m = n
  <2>1. m \in Nat \ {0} /\ n \in Nat \ {0} BY CellIsMatcher
  <2>2. ~ (m < n) BY <1>1, <2>1 DEF OnTheWay
  <2>3. ~ (n < m) BY <1>1, <2>1 DEF OnTheWay
  <2> QED BY <2>1, <2>2, <2>3
<1> QED BY <1>1 DEF Decisive

LEMMA DecisiveNone ==
    ASSUME NEW c \in Paths, NEW k \in Tasks,
           \A n \in DOMAIN Chains[c] : ~ Stops(Chains[c][n], k)
    PROVE  Decisive(c, k) = {}
BY DEF Decisive

\* The last matcher has not matched.
LEMMA ChainPassed ==
    ASSUME NEW c \in Paths, NEW k \in Tasks, NEW n \in DOMAIN Chains[c],
           OnTheWay(c, n, k), ~ Stops(Chains[c][n], k), n = Len(Chains[c])
    PROVE  Decisive(c, k) = {}
<1>1. ASSUME NEW m \in DOMAIN Chains[c] PROVE ~ Stops(Chains[c][m], k)
  <2>1. m \in Nat \ {0} /\ m <= n BY CellIsMatcher
  <2>2. m = n \/ m \in 1..n-1 BY <2>1, CellIsMatcher
  <2> QED BY <2>2 DEF OnTheWay
<1> QED BY <1>1, DecisiveNone

\* What the built chains say, by the matcher that decides the route.
LEMMA AsBuiltWith ==
    ASSUME NEW k, NEW n \in DOMAIN Chains["route"],
           OnTheWay("route", n, k), Stops(Chains["route"][n], k)
    PROVE  LET s == Chains["route"][n]
               p == Decisive("persist", k) IN
           /\ k \notin s.matches => AsBuilt(k) = Threw(k, "member")
           /\ k \in s.matches /\ QueueName("route", s, k) \notin Executors =>
                AsBuilt(k) = Threw(k, "not found")
           /\ k \in s.matches /\ QueueName("route", s, k) \in Executors =>
                AsBuilt(k) = IF \E d \in p : k \notin d.matches THEN Threw(k, "member")
                               ELSE Routed(k, QueueName("route", s, k), p # {})
<1> DEFINE s == Chains["route"][n]
<1>1. Decisive("route", k) = {s} BY DecisiveOne DEF Paths
<1>2. (CHOOSE d \in Decisive("route", k) : TRUE) = s BY <1>1
<1> HIDE DEF s
<1>3. Decisive("route", k) # {} BY <1>1
<1> QED BY <1>2, <1>3 DEF AsBuilt, s

-----------------------------------------------------------------------------
(* The caches *)

\* A step of Execute is a step of the caches or leaves them alone.
LEMMA StepIsCacheStep ==
    ASSUME MatchingInv, [MatchingNext]_matchVars
    PROVE  [CowNext]_cowVars
<1>1. CASE UNCHANGED matchVars
  BY <1>1 DEF matchVars
<1>2. ASSUME NEW t \in Threads, NEW k \in Tasks, Execute(t, k)
      PROVE  UNCHANGED cowVars
  BY <1>2 DEF Execute, cowVars
<1>3. ASSUME NEW t \in Threads, MatchingStep(t)
      PROVE  [CowNext]_cowVars
  <2>1. CASE Miss(t)
    <3>1. at[t] \in Cells /\ task[t] \in Tasks
      BY <2>1 DEF Miss, AtMatcher, MatchingInv, FrameOK
    <3>2. Probe(t) \in Items
      BY <3>1, MatchingAssumption DEF Probe
    <3> QED  BY <2>1, <3>1, <3>2 DEF Miss, Cache, CowNext
  <2>2. CASE Adding(t) \/ Added(t) \/ AddThrew(t)
    BY <2>2 DEF Adding, Added, AddThrew, CowNext
  <2>3. CASE Hit(t) \/ AskFunctions(t) \/ FormatContent(t)
    BY <2>3 DEF Hit, AskFunctions, FormatContent
  <2> QED  BY <1>3, <2>1, <2>2, <2>3 DEF MatchingStep
<1> QED  BY <1>1, <1>2, <1>3 DEF MatchingNext

\* Caches only grow, by what a thread has asked ThreadSafeAdd to add.
LEMMA CachesGrow ==
    ASSUME MatchingInv, [MatchingNext]_matchVars, NEW c \in Cells
    PROVE  /\ contents[c] \subseteq contents'[c]
           /\ \A e \in contents'[c] \ contents[c] : \E t \in Threads :
                call[t] # NoCall /\ call[t].cell = c /\ call[t].item = e
<1>1. ASSUME NEW t \in Threads, Installed(t)
      PROVE  /\ contents[c] \subseteq contents'[c]
             /\ \A e \in contents'[c] \ contents[c] :
                  call[t] # NoCall /\ call[t].cell = c /\ call[t].item = e
  <2>1. step[t] = "cas" /\ Prepared(t)
    BY <1>1 DEF Installed, Moves, MatchingInv, CowInv, PlanOK
  <2>2. call[t] # NoCall
    BY <2>1 DEF MatchingInv, CowInv, CowTypeOK
  <2>3. call[t].op = "add" /\ call[t].cell = at[t] /\ at[t] \in Cells
    BY <2>2 DEF MatchingInv, ThreadOK, CallOK, WayOK
  <2>4. copy[t] = contents[call[t].cell] \cup {call[t].item}
    BY <2>1, <2>3 DEF Prepared, Field
  <2>5. contents' = [contents EXCEPT ![call[t].cell] = copy[t]]
    BY <1>1 DEF Installed
  <2>6. contents \in [Cells -> SUBSET Items]
    BY DEF MatchingInv, CowInv, CowTypeOK
  <2>7. CASE c = call[t].cell
    <3>1. contents'[c] = copy[t]
      BY <2>5, <2>6, <2>7
    <3> QED  BY <2>2, <2>4, <2>7, <3>1
  <2>8. CASE c # call[t].cell
    <3>1. contents'[c] = contents[c]
      BY <2>5, <2>6, <2>8
    <3> QED  BY <3>1
  <2> QED  BY <2>7, <2>8
<1>2. UNCHANGED contents \/ \E t \in Threads : Installed(t)
  BY StepIsCacheStep DEF CowNext, CallStep, Call, Return, ReadBefore, Refused, Accepted,
     CopyToAdd, CopyThrows, CopyToRemove, Overwritten, cowVars
<1> QED  BY <1>1, <1>2

LEMMA StepKeepsCaches ==
    ASSUME MatchingInv, [MatchingNext]_matchVars
    PROVE  CacheOK'
<1> SUFFICES ASSUME NEW c \in Cells, NEW e \in contents'[c]
             PROVE  /\ Chains[c[1]][c[2]].kind \in ByType
                    /\ \A k \in Tasks : TypeOf[k] = e.type =>
                          (e.matched <=> k \in Chains[c[1]][c[2]].matches)
  BY DEF CacheOK
<1>1. CASE e \in contents[c]
  BY <1>1 DEF MatchingInv, CacheOK
<1>2. CASE e \notin contents[c]
  <2>1. PICK t \in Threads : call[t] # NoCall /\ call[t].cell = c /\ call[t].item = e
    BY <1>2, CachesGrow
  <2>2. CallOK(t) /\ task[t] \in Tasks \cup {NoTask}
    BY DEF MatchingInv, ThreadOK, FrameOK
  <2>3. /\ at[t] = c /\ task[t] \in Tasks
        /\ Chains[c[1]][c[2]].kind \in ByType
        /\ e.type = TypeOf[task[t]]
        /\ e.matched = (task[t] \in Chains[c[1]][c[2]].matches)
    BY <2>1, <2>2 DEF CallOK
  <2>4. c[1] \in Paths /\ c[2] \in DOMAIN Chains[c[1]]
    BY MatcherOfCell
  <2>5. ASSUME NEW k \in Tasks, TypeOf[k] = e.type
        PROVE  e.matched <=> k \in Chains[c[1]][c[2]].matches
    <3>1. task[t] \in Chains[c[1]][c[2]].matches <=> k \in Chains[c[1]][c[2]].matches
      BY <2>3, <2>4, <2>5, MatchingAssumption DEF Paths
    <3> QED  BY <2>3, <3>1
  <2> QED  BY <2>3, <2>5
<1> QED  BY <1>1, <1>2

\* What is cached stays cached.
LEMMA ColdBefore ==
    ASSUME MatchingInv, [MatchingNext]_matchVars, NEW k, Cold(k)'
    PROVE  Cold(k)
<1>1. PICK c \in Cells :
        /\ Chains[c[1]][c[2]].kind \in ByType
        /\ OnTheWay(c[1], c[2], k)
        /\ \A e \in contents'[c] : e.type # TypeOf[k]
  BY DEF Cold, OnTheWay, Stops
<1>2. contents[c] \subseteq contents'[c]
  BY CachesGrow
<1> QED  BY <1>1, <1>2 DEF Cold

-----------------------------------------------------------------------------
(* The steps of one thread *)

\* The others do not touch what belongs to a thread.
LEMMA OthersKeepThread ==
    ASSUME MatchingInv, [MatchingNext]_matchVars, NEW t \in Threads,
           task'[t] = task[t], at'[t] = at[t], name'[t] = name[t], answer'[t] = answer[t],
           t \in cold' <=> t \in cold, call'[t] = call[t]
    PROVE  ThreadOK(t)'
<1>1. ThreadOK(t)
  BY DEF MatchingInv
<1>2. CallOK(t)'
  BY <1>1 DEF ThreadOK, CallOK
<1>3. WayOK(t)'
  BY <1>1 DEF ThreadOK, WayOK, OnTheWay, Stops, QueueName
<1>4. WarmOK(t)'
  <2>1. \A k : Cold(k)' => Cold(k)
    BY ColdBefore
  <2>2. task[t] # NoTask /\ t \notin cold => ~ Cold(task[t])
    BY <1>1 DEF ThreadOK, WarmOK
  <2> QED  BY <2>1, <2>2 DEF WarmOK, Cold
<1>5. AnswerOK(t)'
  BY <1>1 DEF ThreadOK, AnswerOK, Threw
<1> QED  BY <1>2, <1>3, <1>4, <1>5 DEF ThreadOK

\* Execute ends with what the reference says, or with the exception of a
\* cache that was cold.
LEMMA EndsKeepsThread ==
    ASSUME MatchingInv, NEW t \in Threads, task[t] \in Tasks, NEW a, Ends(t, a),
           a.of = task[t],
           a = AsBuilt(task[t]) \/ (a = Threw(task[t], "cache") /\ t \in cold),
           call'[t] = NoCall
    PROVE  ThreadOK(t)'
<1>1. /\ task'[t] = NoTask /\ at'[t] = <<"route", 1>> /\ name'[t] = NoName
      /\ answer'[t] = a /\ cold' = cold
  BY CellIsMatcher DEF Ends, MatchingInv, FrameOK
<1>2. WayOK(t)'
  <2>1. 1 \in DOMAIN Chains["route"]
    BY MatchingAssumption
  <2>2. <<"route", 1>> \in Cells
    BY <2>1, CellIsMatcher DEF Paths
  <2>3. NoName \notin Executors
    BY MatchingAssumption
  <2> QED  BY <1>1, <2>2, <2>3 DEF WayOK
<1> QED  BY <1>1, <1>2 DEF ThreadOK, CallOK, WarmOK, AnswerOK

\* The chain stops at the matcher of the thread because it matches.
LEMMA MatchesKeepsThread ==
    ASSUME MatchingInv, MatchingNext, NEW t \in Threads, task[t] \in Tasks,
           task[t] \in Matcher(t).matches, Matches(t), call'[t] = NoCall
    PROVE  ThreadOK(t)'
<1>1. PICK k \in Tasks : k = task[t]
  OBVIOUS
<1>2. at[t] \in Cells /\ WayOK(t) /\ ThreadOK(t) /\ answer[t] = answer[t]
  BY DEF MatchingInv, ThreadOK, WayOK
<1>3. PICK c \in Paths : c = at[t][1]
  BY <1>2, MatcherOfCell
<1>4. PICK n \in DOMAIN Chains[c] : n = at[t][2]
  BY <1>2, <1>3, MatcherOfCell
<1>5. k # NoTask /\ OnTheWay(c, n, k) /\ k \in Chains[c][n].matches
  BY <1>1, <1>2, <1>3, <1>4, MatchingAssumption DEF WayOK, Matcher
<1>6. Stops(Chains[c][n], k)
  BY <1>5 DEF Stops
<1>7. CASE c = "route"
  <2> DEFINE found == QueueName("route", Chains[c][n], k)
  <2>1. CASE found \notin Executors /\ Ends(t, Threw(k, "not found"))
    <3>1. AsBuilt(k) = Threw(k, "not found")
      BY <1>5, <1>6, <1>7, <2>1, AsBuiltWith
    <3>2. Threw(k, "not found").of = k
      BY DEF Threw
    <3> QED  BY <1>1, <2>1, <3>1, <3>2, EndsKeepsThread
  <2>2. CASE found \in Executors /\ Chains["persist"] = <<>> /\ Ends(t, Routed(k, found, FALSE))
    <3>1. Decisive("persist", k) = {}
      BY <2>2, DecisiveNone DEF Paths
    <3>2. AsBuilt(k) = Routed(k, found, FALSE)
      BY <1>5, <1>6, <1>7, <2>2, <3>1, AsBuiltWith
    <3>3. Routed(k, found, FALSE).of = k
      BY DEF Routed
    <3> QED  BY <1>1, <2>2, <3>2, <3>3, EndsKeepsThread
  <2>3. CASE /\ found \in Executors
             /\ Chains["persist"] # <<>>
             /\ at' = [at EXCEPT ![t] = <<"persist", 1>>]
             /\ name' = [name EXCEPT ![t] = found]
             /\ UNCHANGED <<task, answer, cold>>
    <3>1. at'[t] = <<"persist", 1>> /\ name'[t] = found /\ task'[t] = k
          /\ answer' = answer /\ cold' = cold
      BY <1>1, <2>3 DEF MatchingInv, FrameOK
    <3>2. <<"persist", 1>> \in Cells
      <4>1. 1 \in DOMAIN Chains["persist"]
        BY <2>3, MatchingAssumption
      <4> QED  BY <4>1, CellIsMatcher DEF Paths
    <3>3. WayOK(t)'
      <4>1. OnTheWay("persist", 1, k)
        BY DEF OnTheWay
      <4>2. /\ n \in DOMAIN Chains["route"] /\ OnTheWay("route", n, k)
            /\ k \in Chains["route"][n].matches
            /\ found = QueueName("route", Chains["route"][n], k)
        BY <1>5, <1>7
      <4> HIDE DEF found
      <4> QED  BY <1>5, <2>3, <3>1, <3>2, <4>1, <4>2 DEF WayOK
    <3>4. WarmOK(t)'
      <4>1. Cold(k)' => Cold(k)
        BY ColdBefore
      <4>2. t \notin cold => ~ Cold(k)
        BY <1>1, <1>2, <1>5 DEF ThreadOK, WarmOK
      <4> QED  BY <3>1, <4>1, <4>2 DEF WarmOK, Cold
    <3> QED  BY <1>2, <3>1, <3>3, <3>4 DEF ThreadOK, CallOK, AnswerOK
  <2>4. QueueName("route", Matcher(t), task[t]) = found
    BY <1>1, <1>3, <1>4 DEF Matcher
  <2> QED  BY <1>1, <1>3, <1>7, <2>1, <2>2, <2>3, <2>4 DEF Matches, Enters
<1>8. CASE c = "persist"
  <2>1. Ends(t, Routed(k, name[t], TRUE))
    BY <1>1, <1>3, <1>8 DEF Matches
  <2>2. PICK m \in DOMAIN Chains["route"] :
            /\ OnTheWay("route", m, k)
            /\ k \in Chains["route"][m].matches
            /\ name[t] = QueueName("route", Chains["route"][m], k)
    BY <1>1, <1>2, <1>3, <1>8 DEF WayOK
  <2>3. name[t] \in Executors
    BY <1>2, <1>3, <1>8 DEF WayOK
  <2>4. Decisive("persist", k) = {Chains["persist"][n]}
    BY <1>5, <1>6, <1>8, DecisiveOne
  <2>5. Stops(Chains["route"][m], k)
    BY <2>2 DEF Stops
  <2>6. AsBuilt(k) = Routed(k, name[t], TRUE)
    <3>1. ~ \E d \in Decisive("persist", k) : k \notin d.matches
      BY <1>5, <1>8, <2>4
    <3>2. (Decisive("persist", k) # {}) = TRUE
      BY <2>4
    <3> QED  BY <2>2, <2>3, <2>5, <3>1, <3>2, AsBuiltWith
  <2>7. Routed(k, name[t], TRUE).of = k
    BY DEF Routed
  <2> QED  BY <1>1, <2>1, <2>6, <2>7, EndsKeepsThread
<1> QED  BY <1>7, <1>8 DEF Paths

\* The matcher does not match: the next one is asked, or the chain has ended.
LEMMA DoesNotMatchKeepsThread ==
    ASSUME MatchingInv, MatchingNext, NEW t \in Threads, task[t] \in Tasks,
           ~ Stops(Matcher(t), task[t]), DoesNotMatch(t), call'[t] = NoCall
    PROVE  ThreadOK(t)'
<1>1. PICK k \in Tasks : k = task[t]
  OBVIOUS
<1>2. at[t] \in Cells /\ WayOK(t) /\ ThreadOK(t)
  BY DEF MatchingInv, ThreadOK, WayOK
<1>3. PICK c \in Paths : c = at[t][1]
  BY <1>2, MatcherOfCell
<1>4. PICK n \in DOMAIN Chains[c] : n = at[t][2]
  BY <1>2, <1>3, MatcherOfCell
<1>5. k # NoTask /\ OnTheWay(c, n, k) /\ ~ Stops(Chains[c][n], k)
  BY <1>1, <1>2, <1>3, <1>4, MatchingAssumption DEF WayOK, Matcher
<1>6. n \in Nat \ {0} /\ Chains[c] \in Seq(Settings)
  BY CellIsMatcher, MatchingAssumption DEF Paths
<1>7. CASE /\ n < Len(Chains[c])
           /\ at' = [at EXCEPT ![t] = <<c, n + 1>>]
           /\ UNCHANGED <<task, name, answer, cold>>
  <2>1. n + 1 \in DOMAIN Chains[c]
    BY <1>6, <1>7
  <2>2. <<c, n + 1>> \in Cells
    BY <2>1, CellIsMatcher
  <2>3. at'[t] = <<c, n + 1>> /\ task'[t] = k /\ name' = name /\ answer' = answer /\ cold' = cold
    BY <1>1, <1>7 DEF MatchingInv, FrameOK
  <2>4. OnTheWay(c, n + 1, k)
    <3>1. \A m \in 1..n : m = n \/ m \in 1..n-1
      BY <1>6
    <3>2. (n + 1) - 1 = n
      BY <1>6
    <3> QED  BY <1>5, <3>1, <3>2 DEF OnTheWay
  <2>5. WayOK(t)'
    BY <1>1, <1>2, <1>3, <1>5, <2>2, <2>3, <2>4 DEF WayOK
  <2>6. WarmOK(t)'
    <3>1. Cold(k)' => Cold(k)
      BY ColdBefore
    <3>2. t \notin cold => ~ Cold(k)
      BY <1>1, <1>2, <1>5 DEF ThreadOK, WarmOK
    <3> QED  BY <2>3, <3>1, <3>2 DEF WarmOK, Cold
  <2> QED  BY <1>2, <2>3, <2>5, <2>6 DEF ThreadOK, CallOK, AnswerOK
<1>8. CASE n = Len(Chains[c]) /\ c = "route" /\ Ends(t, Threw(k, "no match"))
  <2>1. Decisive("route", k) = {}
    BY <1>5, <1>8, ChainPassed
  <2>2. AsBuilt(k) = Threw(k, "no match")
    BY <2>1 DEF AsBuilt
  <2>3. Threw(k, "no match").of = k
    BY DEF Threw
  <2> QED  BY <1>1, <1>8, <2>2, <2>3, EndsKeepsThread
<1>9. CASE n = Len(Chains[c]) /\ c = "persist" /\ Ends(t, Routed(k, name[t], FALSE))
  <2>1. PICK m \in DOMAIN Chains["route"] :
            /\ OnTheWay("route", m, k)
            /\ k \in Chains["route"][m].matches
            /\ name[t] = QueueName("route", Chains["route"][m], k)
    BY <1>1, <1>2, <1>3, <1>9 DEF WayOK
  <2>2. name[t] \in Executors
    BY <1>2, <1>3, <1>9 DEF WayOK
  <2>3. Decisive("persist", k) = {}
    BY <1>5, <1>9, ChainPassed
  <2>4. Stops(Chains["route"][m], k)
    BY <2>1 DEF Stops
  <2>5. AsBuilt(k) = Routed(k, name[t], FALSE)
    BY <2>1, <2>2, <2>3, <2>4, AsBuiltWith
  <2>6. Routed(k, name[t], FALSE).of = k
    BY DEF Routed
  <2> QED  BY <1>1, <1>9, <2>5, <2>6, EndsKeepsThread
<1> QED  BY <1>1, <1>3, <1>4, <1>7, <1>8, <1>9 DEF DoesNotMatch, Paths

\* The chain goes on as the matcher says.
LEMMA ContinuesKeepsThread ==
    ASSUME MatchingInv, MatchingNext, NEW t \in Threads, task[t] \in Tasks,
           NEW m, m <=> task[t] \in Matcher(t).matches, Continues(t, m),
           Matcher(t).kind # "content", call'[t] = NoCall
    PROVE  ThreadOK(t)'
<1>1. CASE m
  <2>1. Matches(t)
    BY <1>1 DEF Continues
  <2> QED  BY <1>1, <2>1, MatchesKeepsThread
<1>2. CASE ~ m
  <2>1. DoesNotMatch(t)
    BY <1>2 DEF Continues
  <2>2. ~ Stops(Matcher(t), task[t])
    BY <1>2 DEF Stops
  <2> QED  BY <2>1, <2>2, DoesNotMatchKeepsThread
<1> QED  BY <1>1, <1>2

LEMMA ExecuteKeepsThread ==
    ASSUME MatchingInv, MatchingNext, NEW t \in Threads, NEW k \in Tasks, Execute(t, k)
    PROVE  ThreadOK(t)'
<1>1. /\ task'[t] = k /\ answer'[t] = NoAnswer /\ at' = at /\ name' = name /\ call' = call
      /\ t \notin cold' => ~ Cold(k)
  BY DEF Execute, MatchingInv, FrameOK, cowVars
<1>2. task[t] = NoTask /\ k # NoTask /\ WayOK(t) /\ call[t] = NoCall
  BY MatchingAssumption DEF Execute, MatchingInv, ThreadOK, CallOK
<1>3. at[t] = <<"route", 1>>
  BY <1>2 DEF WayOK
<1>4. WayOK(t)'
  <2>1. OnTheWay("route", 1, k)
    BY DEF OnTheWay
  <2> QED  BY <1>1, <1>2, <1>3, <2>1 DEF WayOK
<1>5. WarmOK(t)'
  <2>1. Cold(k)' => Cold(k)
    BY ColdBefore
  <2> QED  BY <1>1, <2>1 DEF WarmOK, Cold
<1> QED  BY <1>1, <1>2, <1>4, <1>5 DEF ThreadOK, CallOK, AnswerOK

LEMMA OwnStepKeepsThread ==
    ASSUME MatchingInv, MatchingNext, NEW t \in Threads, MatchingStep(t)
    PROVE  ThreadOK(t)'
<1>1. /\ CallOK(t) /\ WayOK(t) /\ WarmOK(t) /\ AnswerOK(t)
      /\ task[t] \in Tasks \cup {NoTask} /\ at[t] \in Cells
      /\ call[t] = NoCall <=> step[t] = "idle"
  BY DEF MatchingInv, ThreadOK, FrameOK, CowInv, CowTypeOK
<1>2. step \in [Threads -> Steps] /\ call \in [Threads -> Calls \cup {NoCall}]
  BY DEF MatchingInv, CowInv, CowTypeOK
<1>3. Matcher(t) = Chains[at[t][1]][at[t][2]]
  BY DEF Matcher
<1>4. CASE Hit(t)
  <2>1. PICK e \in Cached(t) : Continues(t, e.matched)
    BY <1>4 DEF Hit
  <2>2. task[t] \in Tasks /\ Matcher(t).kind \in ByType /\ call'[t] = NoCall
    BY <1>1, <1>4 DEF Hit, AtMatcher, cowVars
  <2>3. e.matched <=> task[t] \in Matcher(t).matches
    BY <1>1, <1>3, <2>2 DEF Cached, Cache, MatchingInv, CacheOK
  <2>4. Matcher(t).kind # "content"
    BY <2>2 DEF ByType
  <2> QED  BY <2>1, <2>2, <2>3, <2>4, ContinuesKeepsThread
<1>5. CASE Miss(t)
  <2>1. /\ task[t] \in Tasks /\ task[t] # NoTask /\ Matcher(t).kind \in ByType /\ Cached(t) = {}
        /\ call'[t] = [op |-> "add", cell |-> at[t], item |-> Probe(t)]
        /\ UNCHANGED <<task, at, name, answer, cold>>
    BY <1>1, <1>2, <1>5 DEF Miss, AtMatcher, Call, Cache
  <2>2. Cold(task[t])
    <3>1. \A e \in contents[at[t]] : e.type # TypeOf[task[t]]
      BY <2>1 DEF Cached, Cache
    <3>2. OnTheWay(at[t][1], at[t][2], task[t])
      BY <1>1, <2>1 DEF WayOK
    <3> QED  BY <1>1, <1>3, <2>1, <3>1, <3>2 DEF Cold
  <2>3. t \in cold
    BY <1>1, <2>1, <2>2 DEF WarmOK
  <2>4. CallOK(t)'
    <3>1. /\ call'[t].op = "add" /\ call'[t].cell = at[t]
          /\ call'[t].item.type = TypeOf[task[t]]
          /\ call'[t].item.matched = (task[t] \in Chains[at[t][1]][at[t][2]].matches)
      BY <1>3, <2>1 DEF Probe
    <3> QED  BY <1>3, <2>1, <2>3, <3>1 DEF CallOK
  <2>5. WayOK(t)'
    BY <1>1, <2>1 DEF WayOK
  <2> QED  BY <1>1, <2>1, <2>3, <2>4, <2>5 DEF ThreadOK, WarmOK, AnswerOK
<1>6. CASE Adding(t)
  <2>1. call' = call /\ UNCHANGED <<task, at, name, answer, cold>>
    BY <1>6 DEF Adding, CallStep, ReadBefore, Refused, Accepted, CopyToAdd, CopyThrows,
       CopyToRemove, Installed, Overwritten
  <2> QED  BY <2>1, OthersKeepThread
<1>7. CASE Added(t)
  <2>1. call[t] # NoCall /\ Continues(t, call[t].item.matched) /\ call'[t] = NoCall
    BY <1>1, <1>2, <1>7 DEF Added, Return
  <2>2. /\ task[t] \in Tasks /\ Matcher(t).kind \in ByType
        /\ call[t].item.matched = (task[t] \in Matcher(t).matches)
    BY <1>1, <1>3, <2>1 DEF CallOK
  <2>3. Matcher(t).kind # "content"
    BY <2>2 DEF ByType
  <2> QED  BY <2>1, <2>2, <2>3, ContinuesKeepsThread
<1>8. CASE AddThrew(t)
  <2>1. call[t] # NoCall /\ Ends(t, Threw(task[t], "cache")) /\ call'[t] = NoCall
    BY <1>1, <1>2, <1>8 DEF AddThrew, Return
  <2>2. task[t] \in Tasks /\ t \in cold
    BY <1>1, <2>1 DEF CallOK
  <2>3. Threw(task[t], "cache").of = task[t]
    BY DEF Threw
  <2> QED  BY <2>1, <2>2, <2>3, EndsKeepsThread
<1>9. CASE AskFunctions(t)
  <2>1. /\ task[t] \in Tasks /\ Matcher(t).kind = "func" /\ call'[t] = NoCall
        /\ Continues(t, task[t] \in Matcher(t).matches)
    BY <1>1, <1>9 DEF AskFunctions, AtMatcher, cowVars
  <2> QED  BY <2>1, ContinuesKeepsThread
<1>10. CASE FormatContent(t)
  <2>1. task[t] \in Tasks /\ task[t] # NoTask /\ Matcher(t).kind = "content" /\ call'[t] = NoCall
    BY <1>1, <1>10 DEF FormatContent, AtMatcher, cowVars
  <2>2. CASE task[t] \in Matcher(t).matches
    <3>1. Matches(t)
      BY <1>10, <2>2 DEF FormatContent
    <3> QED  BY <2>1, <2>2, <3>1, MatchesKeepsThread
  <2>3. CASE task[t] \notin Matcher(t).matches
    <3>1. Ends(t, Threw(task[t], "member"))
      BY <1>10, <2>3 DEF FormatContent
    <3>2. PICK k \in Tasks : k = task[t]
      BY <2>1
    <3>3. PICK c \in Paths : c = at[t][1]
      BY <1>1, MatcherOfCell
    <3>4. PICK n \in DOMAIN Chains[c] : n = at[t][2]
      BY <1>1, <3>3, MatcherOfCell
    <3>5. /\ OnTheWay(c, n, k) /\ k \notin Chains[c][n].matches
          /\ Stops(Chains[c][n], k)
      BY <1>1, <1>3, <2>1, <2>3, <3>2, <3>3, <3>4 DEF WayOK, Stops
    <3>6. AsBuilt(k) = Threw(k, "member")
      <4>1. CASE c = "route"
        BY <3>5, <4>1, AsBuiltWith
      <4>2. CASE c = "persist"
        <5>1. PICK m \in DOMAIN Chains["route"] :
                  /\ OnTheWay("route", m, k)
                  /\ k \in Chains["route"][m].matches
                  /\ name[t] = QueueName("route", Chains["route"][m], k)
          BY <1>1, <3>2, <3>3, <4>2 DEF WayOK
        <5>2. name[t] \in Executors
          BY <1>1, <3>3, <4>2 DEF WayOK
        <5>3. Decisive("persist", k) = {Chains["persist"][n]}
          BY <3>5, <4>2, DecisiveOne
        <5>4. \E d \in Decisive("persist", k) : k \notin d.matches
          BY <3>5, <4>2, <5>3
        <5>5. Stops(Chains["route"][m], k)
          BY <5>1 DEF Stops
        <5> QED  BY <5>1, <5>2, <5>4, <5>5, AsBuiltWith
      <4> QED  BY <4>1, <4>2 DEF Paths
    <3>7. Threw(k, "member").of = k
      BY DEF Threw
    <3> QED  BY <2>1, <3>1, <3>2, <3>6, <3>7, EndsKeepsThread
  <2> QED  BY <2>2, <2>3
<1> QED  BY <1>4, <1>5, <1>6, <1>7, <1>8, <1>9, <1>10 DEF MatchingStep

-----------------------------------------------------------------------------
(* The theorems *)

\* A step writes the variables of its thread only.
LEMMA StepIsOwn ==
    ASSUME MatchingInv, NEW t \in Threads, MatchingStep(t) \/ \E k \in Tasks : Execute(t, k)
    PROVE  \A u \in Threads \ {t} :
                /\ task'[u] = task[u] /\ at'[u] = at[u] /\ name'[u] = name[u]
                /\ answer'[u] = answer[u] /\ (u \in cold' <=> u \in cold) /\ call'[u] = call[u]
<1>1. CASE Hit(t) \/ AskFunctions(t) \/ FormatContent(t)
  BY <1>1 DEF Hit, AskFunctions, FormatContent, Continues, Matches, DoesNotMatch, Enters, Ends,
     cowVars, MatchingInv, FrameOK
<1>2. CASE Added(t) \/ AddThrew(t)
  BY <1>2 DEF Added, AddThrew, Return, Continues, Matches, DoesNotMatch, Enters, Ends,
     MatchingInv, FrameOK, CowInv, CowTypeOK
<1>3. CASE Miss(t)
  BY <1>3 DEF Miss, Call, MatchingInv, CowInv, CowTypeOK
<1>4. CASE Adding(t)
  BY <1>4 DEF Adding, CallStep, ReadBefore, Refused, Accepted, CopyToAdd, CopyThrows,
     CopyToRemove, Installed, Overwritten
<1>5. ASSUME NEW k \in Tasks, Execute(t, k)
      PROVE  \A u \in Threads \ {t} :
                /\ task'[u] = task[u] /\ at'[u] = at[u] /\ name'[u] = name[u]
                /\ answer'[u] = answer[u] /\ (u \in cold' <=> u \in cold) /\ call'[u] = call[u]
  BY <1>5 DEF Execute, cowVars, MatchingInv, FrameOK
<1> QED  BY <1>1, <1>2, <1>3, <1>4, <1>5 DEF MatchingStep

\* The values of the variables, as far as they do not depend on each other.
LEMMA StepKeepsFrame ==
    ASSUME MatchingInv, NEW t \in Threads, MatchingStep(t) \/ \E k \in Tasks : Execute(t, k),
           ThreadOK(t)'
    PROVE  FrameOK'
<1>1. FrameOK /\ at'[t] \in Cells
  BY DEF MatchingInv, ThreadOK, WayOK
<1>2. /\ task' = task \/ (\E k \in Tasks \cup {NoTask} : task' = [task EXCEPT ![t] = k])
      /\ at' = at \/ (\E c : at' = [at EXCEPT ![t] = c])
      /\ name' = name \/ (\E n : name' = [name EXCEPT ![t] = n])
      /\ answer' = answer \/ (\E a : answer' = [answer EXCEPT ![t] = a])
      /\ cold' \in {cold, cold \cup {t}, cold \ {t}}
  <2>1. CASE \E a : Ends(t, a)
    BY <2>1 DEF Ends
  <2>2. CASE Enters(t, "persist", QueueName("route", Matcher(t), task[t]))
    BY <2>1, <2>2 DEF Enters
  <2>3. CASE DoesNotMatch(t)
    BY <2>1, <2>3 DEF DoesNotMatch
  <2>4. CASE \E m : Continues(t, m)
    BY <2>1, <2>2, <2>3, <2>4 DEF Continues, Matches
  <2>5. CASE Matches(t)
    BY <2>1, <2>2, <2>5 DEF Matches
  <2>6. CASE UNCHANGED <<task, at, name, answer, cold>>
    BY <2>6
  <2>7. ASSUME NEW k \in Tasks, Execute(t, k)
        PROVE  /\ task' = [task EXCEPT ![t] = k] /\ at' = at /\ name' = name
               /\ answer' = [answer EXCEPT ![t] = NoAnswer]
               /\ cold' \in {cold, cold \cup {t}, cold \ {t}}
    BY <2>7 DEF Execute
  <2> QED  BY <2>1, <2>4, <2>5, <2>6, <2>7 DEF MatchingStep, Hit, Miss, Adding, Added,
              AddThrew, AskFunctions, FormatContent
<1>3. task' \in [Threads -> Tasks \cup {NoTask}]
  BY <1>1, <1>2 DEF FrameOK
<1>4. at' \in [Threads -> Cells]
  BY <1>1, <1>2 DEF FrameOK
<1>5. name' = [u \in Threads |-> name'[u]]
  BY <1>1, <1>2 DEF FrameOK
<1>6. answer' = [u \in Threads |-> answer'[u]]
  BY <1>1, <1>2 DEF FrameOK
<1> QED  BY <1>1, <1>2, <1>3, <1>4, <1>5, <1>6 DEF FrameOK

LEMMA MatchingInvInit == MatchingInit => MatchingInv
<1> SUFFICES ASSUME MatchingInit PROVE MatchingInv
  OBVIOUS
<1>1. <<"route", 1>> \in Cells
  <2>1. 1 \in DOMAIN Chains["route"]
    BY MatchingAssumption
  <2> QED  BY <2>1, CellIsMatcher DEF Paths
<1>2. CowInv
  BY InitInv DEF MatchingInit
<1>3. FrameOK
  BY <1>1 DEF MatchingInit, FrameOK
<1>4. CacheOK
  BY DEF MatchingInit, CowInit, CacheOK
<1>5. ASSUME NEW t \in Threads PROVE ThreadOK(t)
  <2>1. /\ task[t] = NoTask /\ at[t] = <<"route", 1>> /\ name[t] = NoName
        /\ answer[t] = NoAnswer /\ call[t] = NoCall
    BY DEF MatchingInit, CowInit
  <2>2. NoName \notin Executors
    BY MatchingAssumption
  <2> QED  BY <1>1, <2>1, <2>2 DEF ThreadOK, CallOK, WayOK, WarmOK, AnswerOK
<1> QED  BY <1>2, <1>3, <1>4, <1>5 DEF MatchingInv

LEMMA MatchingInvStep == MatchingInv /\ [MatchingNext]_matchVars => MatchingInv'
<1> SUFFICES ASSUME MatchingInv, [MatchingNext]_matchVars PROVE MatchingInv'
  OBVIOUS
<1>1. CowInv'
  BY StepIsCacheStep, StepInv DEF MatchingInv
<1>2. CacheOK'
  BY StepKeepsCaches
<1>3. CASE UNCHANGED matchVars
  <2>1. FrameOK'
    BY <1>3 DEF matchVars, MatchingInv, FrameOK
  <2>2. ASSUME NEW t \in Threads PROVE ThreadOK(t)'
    BY <1>3, OthersKeepThread DEF matchVars, cowVars
  <2> QED  BY <1>1, <1>2, <2>1, <2>2 DEF MatchingInv
<1>4. CASE MatchingNext
  <2>1. PICK t \in Threads : MatchingStep(t) \/ \E k \in Tasks : Execute(t, k)
    BY <1>4 DEF MatchingNext
  <2>2. ThreadOK(t)'
    BY <1>4, <2>1, OwnStepKeepsThread, ExecuteKeepsThread
  <2>3. ASSUME NEW u \in Threads, u # t PROVE ThreadOK(u)'
    BY <2>1, <2>3, StepIsOwn, OthersKeepThread
  <2>4. FrameOK'
    BY <2>1, <2>2, StepKeepsFrame
  <2> QED  BY <1>1, <1>2, <2>2, <2>3, <2>4 DEF MatchingInv
<1> QED  BY <1>3, <1>4

LEMMA MatchingInvHolds == MatchingSpec => []MatchingInv
BY MatchingInvInit, MatchingInvStep, PTL DEF MatchingSpec

\* The variables keep their types, and a thread calls ThreadSafeAdd for the
\* matcher it is at and for the type it was given, with any chains.
THEOREM MatchingTypeCorrect == MatchingSpec => []MatchingTypeOK
<1>1. MatchingInv => MatchingTypeOK
  BY DEF MatchingInv, CowInv, FrameOK, ThreadOK, CallOK, WayOK, MatchingTypeOK
<1> QED  BY <1>1, MatchingInvHolds, PTL

\* No route by attribute that comes from the settings names an executor of its
\* own.  It holds of every chain that is built in code.
AttributeRoutesAreDefault ==
    "route" \in FromSettings => \A n \in DOMAIN Chains["route"] :
        Chains["route"][n].kind = "attribute" =>
            Chains["route"][n].routeTo \in {NoName, DefaultName}

\* An attribute matcher that comes from the settings decides about task k.
ByAttributeOfSettings(k) ==
    "route" \in FromSettings /\ \E s \in Decisive("route", k) : s.kind = "attribute"

\* Other matchers than these answer with the name they were given.
LEMMA BuiltAsConfigured ==
    ASSUME NEW k,
           \A s \in Decisive("route", k) :
               "route" \in FromSettings /\ s.kind = "attribute" =>
                   s.routeTo \in {NoName, DefaultName}
    PROVE  AsBuilt(k) = Reference(k)
<1>1. CASE Decisive("route", k) = {}
  BY <1>1 DEF AsBuilt, Reference
<1>2. CASE Decisive("route", k) # {}
  <2> DEFINE s == CHOOSE s \in Decisive("route", k) : TRUE
  <2>1. s \in Decisive("route", k)
    BY <1>2
  <2>2. QueueName("route", s, k) = Target(s, k)
    <3> HIDE DEF s
    <3> QED  BY <2>1 DEF QueueName, Target
  <2> QED  BY <1>2, <2>2 DEF AsBuilt, Reference
<1> QED  BY <1>1, <1>2

\* Every task is routed to the executor that the first matcher that matches it
\* is configured with, and persistent if a matcher of the persister matches, for
\* any threads and tasks and any chains but those with a route by attribute in
\* the settings; only a call that met a cold cache can end with the exception
\* of the Dictionary.
THEOREM RoutedCorrect ==
    AttributeRoutesAreDefault => (MatchingSpec => []RoutedByFirstMatch)
<1> SUFFICES ASSUME AttributeRoutesAreDefault
             PROVE  MatchingSpec => []RoutedByFirstMatch
  OBVIOUS
<1>1. ASSUME NEW k
      PROVE  AsBuilt(k) = Reference(k)
  <2>1. ASSUME NEW s \in Decisive("route", k), "route" \in FromSettings, s.kind = "attribute"
        PROVE  s.routeTo \in {NoName, DefaultName}
    BY <2>1 DEF Decisive, AttributeRoutesAreDefault
  <2> QED  BY <2>1, BuiltAsConfigured
<1>2. MatchingInv => RoutedByFirstMatch
  BY <1>1 DEF MatchingInv, ThreadOK, AnswerOK, RoutedByFirstMatch
<1> QED  BY <1>2, MatchingInvHolds, PTL

\* What becomes of every call with any chains: one that an attribute matcher of
\* the settings decides about is refused unless some executor has the default
\* name, whatever routeTo says; the others are routed as the chains are configured.
OnlyAttributeRoutesFail ==
    \A t \in Threads : answer[t] # NoAnswer =>
        LET k == answer[t].of IN
            \/ answer[t] = Threw(k, "cache") /\ t \in cold
            \/ ~ ByAttributeOfSettings(k) /\ answer[t] = Reference(k)
            \/ /\ ByAttributeOfSettings(k)
               /\ DefaultName \notin Executors => answer[t] = Threw(k, "not found")

\* The routes by attribute of the settings are all that goes wrong in routing,
\* and they go wrong always, for any chains, threads and tasks.
THEOREM AttributeRoutesCorrect == MatchingSpec => []OnlyAttributeRoutesFail
<1>1. ASSUME NEW k, ~ ByAttributeOfSettings(k)
      PROVE  AsBuilt(k) = Reference(k)
  BY <1>1, BuiltAsConfigured DEF ByAttributeOfSettings
<1>2. ASSUME NEW k, ByAttributeOfSettings(k), DefaultName \notin Executors
      PROVE  AsBuilt(k) = Threw(k, "not found")
  <2>1. PICK n \in DOMAIN Chains["route"] :
            /\ OnTheWay("route", n, k) /\ Stops(Chains["route"][n], k)
            /\ Chains["route"][n].kind = "attribute"
    BY <1>2 DEF ByAttributeOfSettings, Decisive
  <2>2. k \in Chains["route"][n].matches
    BY <2>1 DEF Stops
  <2>3. QueueName("route", Chains["route"][n], k) = DefaultName
    BY <1>2, <2>1 DEF QueueName, ByAttributeOfSettings
  <2> QED  BY <1>2, <2>1, <2>2, <2>3, AsBuiltWith
<1>3. MatchingInv => OnlyAttributeRoutesFail
  <2> SUFFICES ASSUME MatchingInv, NEW t \in Threads, answer[t] # NoAnswer, NEW k, k = answer[t].of
               PROVE  \/ answer[t] = Threw(k, "cache") /\ t \in cold
                      \/ ~ ByAttributeOfSettings(k) /\ answer[t] = Reference(k)
                      \/ /\ ByAttributeOfSettings(k)
                         /\ DefaultName \notin Executors => answer[t] = Threw(k, "not found")
    BY DEF OnlyAttributeRoutesFail
  <2>1. answer[t] = AsBuilt(k) \/ (answer[t] = Threw(k, "cache") /\ t \in cold)
    BY DEF MatchingInv, ThreadOK, AnswerOK
  <2> QED  BY <1>1, <1>2, <2>1
<1> QED  BY <1>3, MatchingInvHolds, PTL
=============================================================================
