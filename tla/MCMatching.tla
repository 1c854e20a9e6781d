----------------------------- MODULE MCMatching -----------------------------
(* Matching with two threads, in two instances.  One has chains that are   *)
(* built in code, with a matcher of each kind and tasks of one type that   *)
(* differ for the func and content matchers: odd and marked are of type y, *)
(* stray and bare of type z.  No executor is called "absent", and bare has *)
(* not the member that the content template names.  The other has the      *)
(* chains of Tests/App.config, a task of the namespace, one that is marked *)
(* only and one that is neither.                                           *)
EXTENDS Matching, TLC

CONSTANTS t1, t2, x, y, z, plain, marked, odd, stray, bare

MCThreads == {t1, t2}
MCTypes == {x, y, z}

Setting(kind, matches, routeTo) ==
    [kind |-> kind, matches |-> matches, routeTo |-> routeTo]

\* Built in code
MCTasks == {plain, marked, odd, stray, bare}
MCTypeOf == plain :> x @@ marked :> y @@ odd :> y @@ stray :> z @@ bare :> z
MCChains == [
    route |-> <<Setting("namespace", {plain}, "absent"),
                Setting("func", {odd}, "special"),
                Setting("attribute", {marked, odd}, "pipeline"),
                Setting("content", {stray}, NoName)>>,
    persist |-> <<Setting("namespace", {marked, odd}, "xx")>>]
MCExecutors == {"pipeline", "special"}
MCFormat == [k \in MCTasks |-> "special"]

\* Tests/App.config
AppTasks == {plain, marked, stray}
AppTypeOf == plain :> x @@ marked :> y @@ stray :> z
AppChains == [
    route |-> <<Setting("namespace", {plain}, "pipeline"),
                Setting("attribute", {marked}, "pipeline")>>,
    persist |-> <<Setting("namespace", {plain}, NoName),
                  Setting("attribute", {marked}, NoName)>>]
AppExecutors == {"pipeline"}

MCCells == UNION {{c} \X DOMAIN Chains[c] : c \in DOMAIN Chains}
MCItems == [type : MCTypes, matched : BOOLEAN]
MCKey == [i \in MCItems |-> i.type]
=============================================================================
