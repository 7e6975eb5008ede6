--------------------------- MODULE Services_proofs ---------------------------
(***************************************************************************)
(* The planner's graph, for any places, requests, quotes of the provider   *)
(* and answers of a model; and at the end the parts around the task        *)
(* service together, which keep their types because each part does.        *)
(*                                                                         *)
(* A plan is judged at the end of the graph by what it was made from, so   *)
(* GraphInv carries that along: from the optimizer on the itinerary is the *)
(* draft of the places, whose first and whose avoided places are settled   *)
(* (Wished); from the budget node on the budget is that of the itinerary   *)
(* and the routes; the warnings hold each tool that fell back and, from    *)
(* the checks on, each check that fails.  A warning is never dropped, so a *)
(* plan that is given them all tells them.                                 *)
(***************************************************************************)
EXTENDS MCServices, EventBus_proofs, Access_proofs, Replies_proofs, SequenceTheorems,
        FiniteSetTheorems, TLAPS

-----------------------------------------------------------------------------
(* What the tools return                                                   *)

\* A cost as a tool makes it.
Quoted(cost) ==
    /\ cost \in Costs
    /\ \/ cost.status = "available" /\ cost.amount # NoAmount /\ cost.included
       \/ cost.status = "unavailable" /\ cost.amount = NoAmount /\ ~cost.included
       \/ cost.status = "not_applicable" /\ cost.amount = 0 /\ ~cost.included

\* Places and legs as the tools find them.
PricedPOIs == {p \in POIs : Quoted(p.cost) /\ (legacyCost(p.cost) >= 0 => p.estimate >= 0)}
PricedLegs == {l \in Legs : Quoted(l.cost)}

\* A tool's cost keeps the rules for costs unless its price is negative.
LEMMA QuotedCosts ==
    ASSUME NEW cost, Quoted(cost), NEW n \in Nat \ {0}
    PROVE  /\ cost \in Costs /\ legacyCost(cost) \in Int /\ CountedAmount(cost, n) \in Int
           /\ legacyCost(cost) >= 0 => ValidCost(cost) /\ CountedAmount(cost, n) \in Nat
<1> USE ToolsAssumption
<1>1. cost \in Costs
  BY DEF Quoted
<1>2. CASE cost.status # "available"
  <2>1. /\ ~cost.included /\ cost.status \in {"unavailable", "not_applicable"}
        /\ cost.amount = IF cost.status = "unavailable" THEN NoAmount ELSE 0
    BY <1>2 DEF Quoted
  <2>2. legacyCost(cost) \in Int
    BY <2>1 DEF legacyCost
  <2>3. CountedAmount(cost, n) = 0
    BY <1>2 DEF CountedAmount, Counted
  <2>4. ValidCost(cost)
    BY <2>1 DEF ValidCost
  <2> QED BY <1>1, <2>2, <2>3, <2>4
<1>3. CASE cost.status = "available"
  <2> DEFINE a == cost.amount
  <2>1. cost.included /\ a # NoAmount /\ a \in Int
    BY <1>1, <1>3 DEF Quoted, Costs, Amounts
  <2>2. legacyCost(cost) = a
    BY <2>1 DEF legacyCost
  <2>3. CountedAmount(cost, n) = a \/ CountedAmount(cost, n) = a * n
    BY <1>3, <2>1 DEF CountedAmount, Counted, budgetAmount
  <2>4. a >= 0 => ValidCost(cost)
    BY <1>3, <2>1 DEF ValidCost
  <2> HIDE DEF a
  <2>5. a * n \in Int /\ (a >= 0 => a * n \in Nat) /\ (a >= 0 => a \in Nat)
    BY <2>1
  <2> QED BY <1>1, <2>1, <2>2, <2>3, <2>4, <2>5
<1> QED BY <1>2, <1>3

LEMMA QuotedIsQuoted ==
    ASSUME NEW a \in Amounts, NEW u \in Units
    PROVE  Quoted(QuotedCost(a, u)) /\ Quoted(UnavailableCost(u)) /\ Quoted(NotApplicableCost(u))
<1>1. Quoted(UnavailableCost(u))
  BY DEF Quoted, UnavailableCost, Costs, Statuses, Amounts
<1>2. Quoted(NotApplicableCost(u))
  BY DEF Quoted, NotApplicableCost, Costs, Statuses, Amounts
<1>3. a # NoAmount => Quoted(AvailableCost(a, u))
  BY DEF Quoted, AvailableCost, Costs, Statuses, Amounts
<1> QED BY <1>1, <1>2, <1>3 DEF QuotedCost

\* A tool returns what the provider or the mock found.
LEMMA ResultsOf ==
    ASSUME NEW mode, NEW real, NEW mock, NEW r \in ToolResults(mode, real, mock),
           mode \in {"test", "mock", "no key", "real"}
    PROVE  r.told \in BOOLEAN /\ r.data \in real \cup mock
<1> DEFINE silent == {[data |-> m, told |-> FALSE] : m \in mock}
           told == {[data |-> m, told |-> TRUE] : m \in mock}
           found == {[data |-> x, told |-> FALSE] : x \in real}
<1>1. r \in silent \/ r \in told \/ r \in found
  BY DEF ToolResults
<1>2. ASSUME NEW x, NEW t \in BOOLEAN, r = [data |-> x, told |-> t]
      PROVE  r.told = t /\ r.data = x
  BY <1>2
<1> QED BY <1>1, <1>2

LEMMA FoundPOIs ==
    /\ RealPOIs(RealLists) \subseteq Seq(PricedPOIs) \ {<<>>}
    /\ MockPOIs \in Seq(PricedPOIs) \ {<<>>}
<1> USE ToolsAssumption, GraphAssumption
<1>1. ASSUME NEW r \in RealPOIs(RealLists) PROVE r \in Seq(PricedPOIs) \ {<<>>}
  <2> DEFINE list(ps, where, prices) ==
               [i \in DOMAIN ps |->
                    LET cost == QuotedCost(prices[ps[i]], "per_person")
                    IN POI(ps[i], where[ps[i]], cost, legacyCost(cost))]
             named == {qs \in RealLists : qs # <<>>}
  <2>0. RealPOIs(RealLists) =
          {list(ps, where, prices) : ps \in named, where \in [Places -> BOOLEAN],
             prices \in [Places -> Prices \cup {NoAmount}]}
    BY SMT DEF RealPOIs
  <2>1. PICK ps \in named, where \in [Places -> BOOLEAN],
             prices \in [Places -> Prices \cup {NoAmount}] : r = list(ps, where, prices)
    <3> HIDE DEF list, named
    <3> QED BY <1>1, <2>0
  <2>2. ps \in Seq(Places) /\ ps # <<>>
    OBVIOUS
  <2>3. ASSUME NEW i \in DOMAIN ps PROVE r[i] \in PricedPOIs
    <3> DEFINE cost == QuotedCost(prices[ps[i]], "per_person")
    <3>1. ps[i] \in Places /\ prices[ps[i]] \in Amounts
      <4>1. ps[i] \in Places
        BY <2>2
      <4>2. Prices \cup {NoAmount} \subseteq Amounts
        BY DEF Amounts
      <4> QED BY <4>1, <4>2
    <3>0. where[ps[i]] \in BOOLEAN
      BY <3>1
    <3>2. Quoted(cost)
      BY <3>1, QuotedIsQuoted DEF Units
    <3>3. r[i] = POI(ps[i], where[ps[i]], cost, legacyCost(cost))
      BY <2>1
    <3> HIDE DEF cost
    <3>4. cost \in Costs /\ legacyCost(cost) \in Int
      BY <3>2, QuotedCosts
    <3>5. r[i] = [name |-> ps[i], located |-> where[ps[i]], cost |-> cost,
                 estimate |-> legacyCost(cost)]
      BY <3>3 DEF POI
    <3>6. r[i] \in POIs
      BY <3>0, <3>1, <3>4, <3>5 DEF POIs
    <3> QED BY <3>2, <3>5, <3>6 DEF PricedPOIs
  <2>4. DOMAIN r = DOMAIN ps
    BY <2>1
  <2>5. DOMAIN r = 1 .. Len(ps) /\ Len(ps) \in Nat /\ Len(ps) # 0 /\ r = [i \in DOMAIN r |-> r[i]]
    BY <2>1, <2>2, <2>4
  <2>6. r \in Seq(PricedPOIs) /\ Len(r) = Len(ps)
    BY <2>3, <2>4, <2>5
  <2> QED BY <2>5, <2>6
<1>2. MockPOIs \in Seq(PricedPOIs) \ {<<>>}
  <2>1. ASSUME NEW i \in DOMAIN MockPlaces PROVE MockPOIs[i] \in PricedPOIs
    <3> DEFINE cost == UnavailableCost("per_person")
               e == 30 + ((i - 1) % 4) * 20
    <3>1. Quoted(cost)
      BY QuotedIsQuoted DEF Units, Amounts
    <3>2. e \in Int /\ e >= 0
      OBVIOUS
    <3>3. MockPOIs[i] = POI(MockPlaces[i], FALSE, cost, e)
      BY DEF MockPOIs
    <3> HIDE DEF cost, e
    <3>4. cost \in Costs
      BY <3>1, QuotedCosts
    <3>5. MockPOIs[i] = [name |-> MockPlaces[i], located |-> FALSE, cost |-> cost, estimate |-> e]
      BY <3>3 DEF POI
    <3>6. MockPOIs[i] \in POIs
      BY <3>2, <3>4, <3>5 DEF POIs
    <3> QED BY <3>1, <3>2, <3>5, <3>6 DEF PricedPOIs
  <2>2. DOMAIN MockPOIs = 1 .. Len(MockPlaces) /\ Len(MockPlaces) \in Nat /\ Len(MockPlaces) # 0
        /\ MockPOIs = [i \in DOMAIN MockPlaces |-> MockPOIs[i]]
    BY DEF MockPOIs
  <2>3. MockPOIs \in Seq(PricedPOIs)
    BY <2>1, <2>2
  <2> QED BY <2>2, <2>3
<1> QED BY <1>1, <1>2

LEMMA Weathers ==
    ASSUME NEW n \in Nat
    PROVE  RealWeathers(n) \cup MockWeathers(n) \subseteq Seq({"rainy", "rain", "dry"})
BY DEF RealWeathers, MockWeathers

LEMMA FoundLegs ==
    ASSUME NEW ps \in Seq(PricedPOIs), ps # <<>>, NEW mode
    PROVE  /\ MockRoutes(ps) \in Seq(PricedLegs)
           /\ RealRoutes(ps, mode, LegMinutes) \subseteq Seq(PricedLegs)
<1>1. Len(ps) - 1 \in Nat /\ \A i \in 1 .. Len(ps) : ps[i] \in PricedPOIs /\ ps[i].name \in Places
  BY DEF PricedPOIs, POIs
<1>2. ASSUME NEW i \in 1 .. Len(ps) - 1, NEW minutes \in Int, NEW cost, Quoted(cost)
      PROVE  Leg(ps[i], ps[i + 1], minutes, cost) \in PricedLegs
  <2>1. cost \in Costs
    BY <1>2, QuotedCosts
  <2>2. ps[i].name \in Places /\ ps[i + 1].name \in Places
    BY <1>1
  <2> QED BY <1>2, <2>1, <2>2 DEF Leg, PricedLegs, Legs
<1>3. MockRoutes(ps) \in Seq(PricedLegs)
  <2>1. ASSUME NEW i \in 1 .. Len(ps) - 1 PROVE MockRoutes(ps)[i] \in PricedLegs
    <3>1. 15 + ((i - 1) % 4) * 5 \in Int
      OBVIOUS
    <3>2. Quoted(UnavailableCost("per_trip"))
      BY QuotedIsQuoted DEF Units, Amounts
    <3>3. MockRoutes(ps)[i] = Leg(ps[i], ps[i + 1], 15 + ((i - 1) % 4) * 5, UnavailableCost("per_trip"))
      BY DEF MockRoutes
    <3> QED BY <1>2, <3>1, <3>2, <3>3
  <2>2. MockRoutes(ps) = [i \in 1 .. Len(ps) - 1 |-> MockRoutes(ps)[i]]
    BY DEF MockRoutes
  <2> QED BY <1>1, <2>1, <2>2
<1>4. ASSUME NEW r \in RealRoutes(ps, mode, LegMinutes) PROVE r \in Seq(PricedLegs)
  <2>1. PICK m \in [1 .. Len(ps) - 1 -> LegMinutes],
             amount \in [1 .. Len(ps) - 1 -> Prices \cup {NoAmount}] :
             r = [i \in 1 .. Len(ps) - 1 |->
                    Leg(ps[i], ps[i + 1], m[i], RouteCost(mode, amount[i]))]
    BY DEF RealRoutes
  <2>2. ASSUME NEW i \in 1 .. Len(ps) - 1 PROVE r[i] \in PricedLegs
    <3>1. m[i] \in Int /\ amount[i] \in Amounts
      BY ToolsAssumption, GraphAssumption DEF Amounts
    <3>2. Quoted(RouteCost(mode, amount[i]))
      BY <3>1, QuotedIsQuoted DEF RouteCost, Units
    <3>3. r[i] = Leg(ps[i], ps[i + 1], m[i], RouteCost(mode, amount[i]))
      BY <2>1
    <3> QED BY <1>2, <3>1, <3>2, <3>3
  <2>3. r = [i \in 1 .. Len(ps) - 1 |-> r[i]]
    BY <2>1
  <2> QED BY <1>1, <2>2, <2>3
<1> QED BY <1>3, <1>4

-----------------------------------------------------------------------------
(* Wishes                                                                  *)

\* A must-visit that is found is first, and nothing else changes.
LEMMA ToFrontFirst ==
    ASSUME NEW P, NEW ps \in Seq(P), ps # <<>>, NEW w
    PROVE  /\ ToFront(w, ps) \in Seq(P) /\ ToFront(w, ps) # <<>>
           /\ Range(ToFront(w, ps)) = Range(ps)
           /\ IF \E i \in DOMAIN ps : ps[i].name = w THEN ToFront(w, ps)[1].name = w
                                                     ELSE ToFront(w, ps) = ps
<1>1. CASE \A i \in DOMAIN ps : ps[i].name # w
  BY <1>1 DEF ToFront
<1>2. CASE ~ \A i \in DOMAIN ps : ps[i].name # w
  <2> DEFINE Firsts == {i \in DOMAIN ps : ps[i].name = w /\
                          \A j \in DOMAIN ps : ps[j].name = w => i <= j}
             f == CHOOSE i \in DOMAIN ps :
                    /\ ps[i].name = w
                    /\ \A j \in DOMAIN ps : ps[j].name = w => i <= j
             r == [k \in DOMAIN ps |-> IF k = 1 THEN ps[f]
                                       ELSE IF k <= f THEN ps[k - 1] ELSE ps[k]]
  <2>1. \E i \in DOMAIN ps : /\ ps[i].name = w
                             /\ \A j \in DOMAIN ps : ps[j].name = w => i <= j
    <3> DEFINE T == {i \in DOMAIN ps : ps[i].name = w}
    <3>1. T \subseteq Nat /\ T # {}
      BY <1>2
    <3>2. PICK m \in T : \A k \in T : m <= k
      <4> HIDE DEF T
      <4> QED BY <3>1, LeastOf
    <3> QED BY <3>2
  <2>2. f \in DOMAIN ps /\ ps[f].name = w
    BY <2>1
  <2>3. ToFront(w, ps) = r
    BY <1>2 DEF ToFront
  <2> HIDE DEF f
  <2>4. /\ DOMAIN ps = 1 .. Len(ps) /\ Len(ps) \in Nat /\ Len(ps) # 0 /\ 1 \in DOMAIN ps
        /\ f \in Nat /\ 1 <= f /\ f <= Len(ps)
    BY <2>2
  <2>5. ASSUME NEW k \in DOMAIN ps PROVE r[k] \in P /\ \E i \in DOMAIN ps : r[k] = ps[i]
    <3>1. k # 1 /\ k <= f => k - 1 \in DOMAIN ps
      BY <2>4
    <3> QED BY <2>2, <3>1
  <2>6. ASSUME NEW i \in DOMAIN ps PROVE \E k \in DOMAIN ps : r[k] = ps[i]
    <3>1. CASE i = f
      BY <2>4, <3>1
    <3>2. CASE i < f
      <4>1. i + 1 \in DOMAIN ps /\ i + 1 # 1 /\ i + 1 <= f /\ (i + 1) - 1 = i
        BY <2>4, <3>2
      <4> QED BY <4>1
    <3>3. CASE i > f
      <4>1. i # 1 /\ ~(i <= f)
        BY <2>4, <3>3
      <4> QED BY <4>1
    <3> QED BY <2>4, <3>1, <3>2, <3>3
  <2>7. r[1] = ps[f] /\ DOMAIN r = DOMAIN ps
    BY <2>4
  <2>8. r \in Seq(P) /\ r # <<>>
    <3>1. r = [k \in 1 .. Len(ps) |-> r[k]]
      BY <2>4
    <3> HIDE DEF r
    <3>2. r \in Seq(P) /\ Len(r) = Len(ps)
      BY <2>4, <2>5, <3>1
    <3> QED BY <2>4, <3>2
  <2>9. Range(r) = Range(ps)
    <3>1. /\ \A k \in DOMAIN ps : \E i \in DOMAIN ps : r[k] = ps[i]
          /\ \A i \in DOMAIN ps : \E k \in DOMAIN ps : r[k] = ps[i]
          /\ DOMAIN r = DOMAIN ps
      BY <2>5, <2>6, <2>7
    <3> HIDE DEF r
    <3>2. Range(r) = {r[k] : k \in DOMAIN ps} /\ Range(ps) = {ps[i] : i \in DOMAIN ps}
      BY <3>1 DEF Range
    <3> QED BY <3>1, <3>2
  <2> QED BY <1>2, <2>2, <2>3, <2>7, <2>8, <2>9
<1> QED BY <1>1, <1>2

\* The first of the must-visits from some place on that are found in ps is the
\* name of the first place.
LeadsTo(ps, wishes, from, Q) ==
    \A m \in from .. Len(wishes) :
        /\ wishes[m] \in {p.name : p \in Q}
        /\ \A k \in from .. m - 1 : wishes[k] \notin {p.name : p \in Q}
        => ps[1].name = wishes[m]

LEMMA MustVisitsLead ==
    ASSUME NEW P, NEW ps \in Seq(P), ps # <<>>, NEW wishes \in Seq(Places)
    PROVE  /\ MustVisitsFirst(wishes, ps) \in Seq(P) /\ MustVisitsFirst(wishes, ps) # <<>>
           /\ Range(MustVisitsFirst(wishes, ps)) = Range(ps)
           /\ LeadsTo(MustVisitsFirst(wishes, ps), wishes, 1, Range(ps))
<1> DEFINE V == {s \in Seq(P) : s # <<>> /\ Range(s) = Range(ps)}
           N == Len(wishes)
           Def(f) == [n \in 0 .. N |->
                        IF n = 0 THEN ps ELSE ToFront(wishes[N + 1 - n], f[n - 1])]
           g == CHOOSE x : x = Def(x)
           step == [n \in Nat |-> [v \in V |-> ToFront(wishes[N + 1 - n], v)]]
<1>1. N \in Nat /\ ps \in V
  OBVIOUS
<1>2. ASSUME NEW v \in V, NEW w
      PROVE  /\ ToFront(w, v) \in V
             /\ IF w \in {p.name : p \in Range(ps)} THEN ToFront(w, v)[1].name = w
                                                    ELSE ToFront(w, v) = v
  <2>1. v \in Seq(P) /\ v # <<>> /\ Range(v) = Range(ps)
    OBVIOUS
  <2>2. /\ ToFront(w, v) \in Seq(P) /\ ToFront(w, v) # <<>>
        /\ Range(ToFront(w, v)) = Range(v)
        /\ IF \E i \in DOMAIN v : v[i].name = w THEN ToFront(w, v)[1].name = w
                                                ELSE ToFront(w, v) = v
    BY <2>1, ToFrontFirst
  <2>3. w \in {p.name : p \in Range(v)} <=> \E i \in DOMAIN v : v[i].name = w
    BY DEF Range
  <2> QED BY <2>1, <2>2, <2>3
<1>3. step \in [Nat -> [V -> V]]
  <2> HIDE DEF V
  <2> QED BY <1>2
<1> HIDE DEF V
<1>4. PICK f : Runs(ps, V, step, N, f)
  <2> HIDE DEF step, N
  <2> QED BY <1>1, <1>3, RunsExist
<1>5. f = Def(f)
  <2>1. f \in [0 .. N -> V] /\ f[0] = ps
    BY <1>4 DEF Runs
  <2>2. ASSUME NEW n \in 0 .. N, n # 0 PROVE f[n] = ToFront(wishes[N + 1 - n], f[n - 1])
    <3> HIDE DEF N
    <3>1. n - 1 \in 0 .. N /\ n - 1 # N /\ (n - 1) + 1 = n /\ n \in Nat
      BY <1>1, <2>2
    <3>2. f[(n - 1) + 1] = step[(n - 1) + 1][f[n - 1]]
      <4> HIDE DEF step
      <4> QED BY <1>4, <3>1 DEF Runs
    <3>3. f[n - 1] \in V
      BY <2>1, <3>1
    <3> QED BY <3>1, <3>2, <3>3
  <2> HIDE DEF N
  <2> QED BY <2>1, <2>2
<1>6. g = Def(g)
  <2> HIDE DEF Def
  <2> QED BY <1>5
<1>7. MustVisitsFirst(wishes, ps) = g[N]
  BY DEF MustVisitsFirst
<1> HIDE DEF g
<1> DEFINE S == {n \in 0 .. N : g[n] \in V /\ LeadsTo(g[n], wishes, N + 1 - n, Range(ps))}
<1>8. 0 \in S
  <2>1. g[0] = ps
    BY <1>1, <1>6
  <2>2. LeadsTo(ps, wishes, N + 1 - 0, Range(ps))
    BY <1>1 DEF LeadsTo
  <2> QED BY <1>1, <2>1, <2>2
<1>9. ASSUME NEW i \in 0 .. N, i \in S, i # N PROVE i + 1 \in S
  <2> HIDE DEF N
  <2>1. /\ i + 1 \in 0 .. N /\ i + 1 # 0 /\ (i + 1) - 1 = i /\ N + 1 - (i + 1) = N - i
        /\ N - i \in Nat /\ N - i >= 1 /\ N + 1 - i = (N - i) + 1
    BY <1>1, <1>9
  <2>2. g[i + 1] = ToFront(wishes[N - i], g[i])
    BY <1>6, <2>1
  <2>3. g[i] \in V /\ LeadsTo(g[i], wishes, (N - i) + 1, Range(ps))
    BY <1>9, <2>1
  <2>4. /\ g[i + 1] \in V
        /\ IF wishes[N - i] \in {p.name : p \in Range(ps)}
           THEN g[i + 1][1].name = wishes[N - i] ELSE g[i + 1] = g[i]
    BY <1>2, <2>2, <2>3
  <2>5. LeadsTo(g[i + 1], wishes, N - i, Range(ps))
    <3> DEFINE j == N - i
               names == {p.name : p \in Range(ps)}
    <3>1. ASSUME NEW m \in j .. Len(wishes), wishes[m] \in names,
                 \A k \in j .. m - 1 : wishes[k] \notin names
          PROVE  g[i + 1][1].name = wishes[m]
      <4> HIDE DEF j
      <4>1. CASE m = j
        <5> USE DEF j
        <5> QED BY <2>4, <3>1, <4>1
      <4>2. CASE m # j
        <5>1. j \in Nat
          BY <2>1 DEF j
        <5>2. /\ m \in j + 1 .. Len(wishes) /\ j \in j .. m - 1
              /\ \A k \in j + 1 .. m - 1 : k \in j .. m - 1
          BY <4>2, <5>1
        <5>3. wishes[j] \notin names
          BY <3>1, <5>2
        <5>4. g[i + 1] = g[i]
          BY <2>4, <5>3 DEF j
        <5>5. \A k \in j + 1 .. m - 1 : wishes[k] \notin names
          BY <3>1, <5>2
        <5>6. LeadsTo(g[i], wishes, j + 1, Range(ps))
          BY <2>3 DEF j
        <5> QED BY <3>1, <5>2, <5>4, <5>5, <5>6 DEF LeadsTo
      <4> QED BY <4>1, <4>2
    <3> QED BY <3>1 DEF LeadsTo
  <2>6. LeadsTo(g[i + 1], wishes, N + 1 - (i + 1), Range(ps))
    BY <2>1, <2>5
  <2> QED BY <2>1, <2>4, <2>6
<1>10. N \in 0 .. N /\ \A i \in 0 .. N : i \in S
  <2> HIDE DEF N, S
  <2>1. \A i \in 0 .. N : i \in S
    BY <1>1, <1>8, <1>9, UpTo
  <2> QED BY <1>1, <2>1
<1>11. g[N] \in V /\ LeadsTo(g[N], wishes, N + 1 - N, Range(ps))
  BY <1>10
<1>12. N + 1 - N = 1
  BY <1>1
<1> QED BY <1>7, <1>11, <1>12 DEF V

\* The places of the draft: what must be visited leads, and what is to be
\* avoided is there only if there is nothing else.
LEMMA PreferencesKeep ==
    ASSUME brief \in TravelRequests, NEW P, NEW ps \in Seq(P), ps # <<>>
    PROVE  /\ applyPOIPreferences(ps) \in Seq(P) /\ applyPOIPreferences(ps) # <<>>
           /\ LeadsTo(applyPOIPreferences(ps), brief.must, 1, Range(applyPOIPreferences(ps)))
           /\ \/ \A p \in Range(applyPOIPreferences(ps)) : p.name \in brief.avoid
              \/ \A p \in Range(applyPOIPreferences(ps)) : p.name \notin brief.avoid
<1> DEFINE wanted == {p \in Range(ps) : p.name \notin brief.avoid}
           kept == KeptIn(ps, wanted)
           base == IF kept = <<>> THEN ps ELSE kept
           I == {i \in DOMAIN ps : ps[i] \in wanted}
<1>1. brief.must \in Seq(Places)
  BY DEF TravelRequests
<1>2. applyPOIPreferences(ps) = MustVisitsFirst(brief.must, base)
  BY DEF applyPOIPreferences
<1>3. kept \in Seq(P \cap wanted) /\ \E p : Picks(p, kept, ps, I)
  <2> HIDE DEF wanted
  <2> QED BY KeptInKeeps
<1>4. base \in Seq(P) /\ base # <<>>
  <2> HIDE DEF kept, wanted
  <2> QED BY <1>3
<1>5. \/ \A p \in Range(base) : p.name \in brief.avoid
      \/ \A p \in Range(base) : p.name \notin brief.avoid
  <2>1. CASE kept = <<>>
    <3>1. PICK p : Picks(p, kept, ps, I)
      BY <1>3
    <3>2. I = {}
      <4>1. \A i \in I : \E k \in 1 .. Len(kept) : p[k] = i
        <5> HIDE DEF I, kept
        <5> QED BY <3>1 DEF Picks
      <4>2. 1 .. Len(kept) = {}
        <5> HIDE DEF kept
        <5> QED BY <2>1
      <4> HIDE DEF I, kept
      <4> QED BY <4>1, <4>2
    <3>3. \A i \in DOMAIN ps : ps[i].name \in brief.avoid
      BY <3>2 DEF Range
    <3>4. base = ps
      BY <2>1
    <3> QED BY <3>3, <3>4 DEF Range
  <2>2. CASE kept # <<>>
    <3>1. base = kept
      BY <2>2
    <3>2. \A i \in DOMAIN kept : kept[i] \in wanted
      <4> HIDE DEF kept, wanted
      <4> QED BY <1>3
    <3>3. \A i \in DOMAIN kept : kept[i].name \notin brief.avoid
      BY <3>2
    <3> HIDE DEF kept, base
    <3> QED BY <3>1, <3>3 DEF Range
  <2> QED BY <2>1, <2>2
<1> HIDE DEF base
<1>6. /\ MustVisitsFirst(brief.must, base) \in Seq(P) /\ MustVisitsFirst(brief.must, base) # <<>>
      /\ Range(MustVisitsFirst(brief.must, base)) = Range(base)
      /\ LeadsTo(MustVisitsFirst(brief.must, base), brief.must, 1, Range(base))
  BY <1>1, <1>4, MustVisitsLead
<1> QED BY <1>2, <1>5, <1>6

-----------------------------------------------------------------------------
(* The budget                                                              *)

\* Whether no item and no leg has a negative price.
FreeOfDebt(days, legs) ==
    /\ \A d \in DOMAIN days : \A i \in DOMAIN days[d] : legacyCost(days[d][i].cost) >= 0
    /\ \A i \in DOMAIN legs : legacyCost(legs[i].cost) >= 0

PricedItems == {x \in Items : Quoted(x.cost)}

LEMMA ItemsTotalAmong ==
    ASSUME NEW V, V = Int \/ V = Nat, NEW days \in Seq(Seq(PricedItems)), NEW category,
           NEW n \in Nat \ {0},
           V = Nat => \A d \in DOMAIN days : \A i \in DOMAIN days[d] :
                          legacyCost(days[d][i].cost) >= 0
    PROVE  ItemsTotal(days, category, n) \in V
<1> DEFINE amount(d, i) == IF Category[days[d][i].name] = category
                           THEN CountedAmount(days[d][i].cost, n) ELSE 0
           sums == [d \in DOMAIN days |-> Total([i \in DOMAIN days[d] |-> amount(d, i)])]
<1>1. 0 \in V /\ \A a, b \in V : a + b \in V
  OBVIOUS
<1>2. ASSUME NEW d \in DOMAIN days PROVE Total([i \in DOMAIN days[d] |-> amount(d, i)]) \in V
  <2> DEFINE list == [i \in DOMAIN days[d] |-> amount(d, i)]
  <2>1. days[d] \in Seq(PricedItems)
    OBVIOUS
  <2>2. ASSUME NEW i \in DOMAIN days[d] PROVE amount(d, i) \in V
    <3>1. Quoted(days[d][i].cost)
      BY <2>1 DEF PricedItems
    <3>2. CountedAmount(days[d][i].cost, n) \in Int
      BY <3>1, QuotedCosts
    <3>3. V = Nat => CountedAmount(days[d][i].cost, n) \in Nat
      BY <3>1, QuotedCosts
    <3> QED BY <1>1, <3>2, <3>3
  <2>3. DOMAIN days[d] = 1 .. Len(days[d]) /\ Len(days[d]) \in Nat
    BY <2>1
  <2> HIDE DEF amount
  <2>4. list \in Seq(V)
    BY <2>2, <2>3
  <2> HIDE DEF list
  <2> QED BY <1>1, <2>4, TotalAmong DEF list
<1>3. sums \in Seq(V)
  <2>1. DOMAIN days = 1 .. Len(days) /\ Len(days) \in Nat
    OBVIOUS
  <2> HIDE DEF amount
  <2> QED BY <1>2, <2>1
<1>4. ItemsTotal(days, category, n) = Total(sums)
  BY DEF ItemsTotal
<1> HIDE DEF sums
<1> QED BY <1>1, <1>3, <1>4, TotalAmong

LEMMA LegsTotalAmong ==
    ASSUME NEW V, V = Int \/ V = Nat, NEW legs \in Seq(PricedLegs), NEW n \in Nat \ {0},
           V = Nat => \A i \in DOMAIN legs : legacyCost(legs[i].cost) >= 0
    PROVE  LegsTotal(legs, n) \in V
<1> DEFINE list == [i \in DOMAIN legs |-> CountedAmount(legs[i].cost, n)]
<1>1. 0 \in V /\ \A a, b \in V : a + b \in V
  OBVIOUS
<1>2. ASSUME NEW i \in DOMAIN legs PROVE CountedAmount(legs[i].cost, n) \in V
  <2>1. Quoted(legs[i].cost)
    BY DEF PricedLegs
  <2>2. CountedAmount(legs[i].cost, n) \in Int
    BY <2>1, QuotedCosts
  <2>3. V = Nat => CountedAmount(legs[i].cost, n) \in Nat
    BY <2>1, QuotedCosts
  <2> QED BY <2>2, <2>3
<1>3. list \in Seq(V)
  BY <1>2
<1>4. LegsTotal(legs, n) = Total(list)
  BY DEF LegsTotal
<1> HIDE DEF list
<1> QED BY <1>1, <1>3, <1>4, TotalAmong

LEMMA LinesAreValid ==
    ASSUME NEW key \in {"food", "transport", "hotel", "ticket", "intercity"},
           NEW amount \in Int, NEW known \in BOOLEAN
    PROVE  /\ budgetLine(key, amount, known) \in Lines
           /\ amount >= 0 => ValidCost(budgetLine(key, amount, known))
<1> DEFINE line == budgetLine(key, amount, known)
<1>1. CASE known
  <2>1. line = [key |-> key, status |-> "available", amount |-> amount, unit |-> "total",
                included |-> TRUE]
    BY <1>1 DEF budgetLine, AvailableCost
  <2> HIDE DEF line
  <2>2. line \in Lines
    BY <2>1 DEF Lines, Amounts, Statuses, Units
  <2>3. amount # NoAmount
    BY ToolsAssumption
  <2>4. amount >= 0 => ValidCost(line)
    BY <2>1, <2>3 DEF ValidCost
  <2> QED BY <2>2, <2>4 DEF line
<1>2. CASE ~known
  <2>1. line = [key |-> key, status |-> "unavailable", amount |-> NoAmount, unit |-> "total",
                included |-> FALSE]
    BY <1>2 DEF budgetLine, UnavailableCost
  <2> HIDE DEF line
  <2>2. line \in Lines
    BY <2>1 DEF Lines, Amounts, Statuses, Units
  <2>3. ValidCost(line)
    BY <2>1 DEF ValidCost
  <2> QED BY <2>2, <2>3 DEF line
<1> QED BY <1>1, <1>2

\* What is summed up is a budget that keeps the rules.
LEMMA BudgetIsSound ==
    ASSUME NEW days \in Seq(Seq(PricedItems)), NEW legs \in Seq(PricedLegs),
           NEW n \in Nat \ {0}, NEW intercity \in BOOLEAN
    PROVE  LET b == BudgetOf(days, legs, n, intercity)
           IN  /\ b \in Budgets
               /\ FreeOfDebt(days, legs) =>
                    /\ b.total >= 0 /\ b.known >= 0 /\ b.transport >= 0 /\ b.food >= 0
                    /\ b.hotel >= 0 /\ b.ticket >= 0 /\ validateBudgetDetails(b)
<1> DEFINE food == ItemsTotal(days, "food", n)
           ticket == ItemsTotal(days, "ticket", n)
           transport == LegsTotal(legs, n)
           four == <<budgetLine("food", food, ItemsKnown(days, "food")),
                     budgetLine("transport", transport, LegsKnown(legs)),
                     budgetLine("hotel", 0, FALSE),
                     budgetLine("ticket", ticket, ItemsKnown(days, "ticket"))>>
           fifth == IF intercity THEN <<budgetLine("intercity", 0, FALSE)>> ELSE <<>>
           b == Budget(food, transport, ticket, four \o fifth)
<1>1. BudgetOf(days, legs, n, intercity) = b
  BY DEF BudgetOf
<1>2. food \in Int /\ ticket \in Int /\ transport \in Int
  <2>0. Int # Nat
    <3>1. -1 \in Int /\ -1 \notin Nat
      OBVIOUS
    <3> QED BY <3>1
  <2>1. food \in Int
    BY <2>0, ItemsTotalAmong
  <2>2. ticket \in Int
    BY <2>0, ItemsTotalAmong
  <2>3. transport \in Int
    BY <2>0, LegsTotalAmong
  <2> QED BY <2>1, <2>2, <2>3
<1>3. FreeOfDebt(days, legs) => food \in Nat /\ ticket \in Nat /\ transport \in Nat
  BY ItemsTotalAmong, LegsTotalAmong DEF FreeOfDebt
<1>4. /\ ItemsKnown(days, "food") \in BOOLEAN /\ LegsKnown(legs) \in BOOLEAN
      /\ ItemsKnown(days, "ticket") \in BOOLEAN
  BY DEF ItemsKnown, LegsKnown
<1> HIDE DEF food, ticket, transport
<1> DEFINE Good == {l \in Lines : FreeOfDebt(days, legs) => ValidCost(l)}
<1>5. /\ budgetLine("food", food, ItemsKnown(days, "food")) \in Good
      /\ budgetLine("transport", transport, LegsKnown(legs)) \in Good
      /\ budgetLine("hotel", 0, FALSE) \in Good
      /\ budgetLine("ticket", ticket, ItemsKnown(days, "ticket")) \in Good
      /\ budgetLine("intercity", 0, FALSE) \in Good
  <2>1. ASSUME NEW key \in {"food", "transport", "hotel", "ticket", "intercity"},
               NEW amount \in Int, NEW known \in BOOLEAN, FreeOfDebt(days, legs) => amount >= 0
        PROVE  budgetLine(key, amount, known) \in Good
    BY <2>1, LinesAreValid
  <2>0. 0 \in Int /\ (FreeOfDebt(days, legs) => 0 >= 0) /\ FALSE \in BOOLEAN
    OBVIOUS
  <2> HIDE DEF Good
  <2>2. budgetLine("food", food, ItemsKnown(days, "food")) \in Good
    BY <1>2, <1>3, <1>4, <2>1
  <2>3. budgetLine("transport", transport, LegsKnown(legs)) \in Good
    BY <1>2, <1>3, <1>4, <2>1
  <2>4. budgetLine("hotel", 0, FALSE) \in Good
    BY <2>0, <2>1, Zenon
  <2>5. budgetLine("ticket", ticket, ItemsKnown(days, "ticket")) \in Good
    BY <1>2, <1>3, <1>4, <2>1
  <2>6. budgetLine("intercity", 0, FALSE) \in Good
    BY <2>0, <2>1, Zenon
  <2> QED BY <2>2, <2>3, <2>4, <2>5, <2>6
<1> HIDE DEF Good
<1>6. four \in Seq(Good) /\ fifth \in Seq(Good)
  <2>1. ASSUME NEW w \in Good, NEW x \in Good, NEW y \in Good, NEW z \in Good
        PROVE  <<w, x, y, z>> \in Seq(Good) /\ <<z>> \in Seq(Good) /\ <<>> \in Seq(Good)
    OBVIOUS
  <2>2. four \in Seq(Good)
    BY <1>5, <2>1
  <2>3. fifth \in Seq(Good)
    BY <1>5, <2>1
  <2> QED BY <2>2, <2>3
<1> HIDE DEF four, fifth
<1>7. four \o fifth \in Seq(Good)
  BY <1>6, ConcatProperties
<1> DEFINE lines == four \o fifth
<1>8. lines \in Seq(Lines) /\ (FreeOfDebt(days, legs) => \A i \in DOMAIN lines : ValidCost(lines[i]))
  <2> HIDE DEF lines
  <2>1. lines \in Seq(Good)
    BY <1>7 DEF lines
  <2>2. \A l \in Good : l \in Lines /\ (FreeOfDebt(days, legs) => ValidCost(l))
    BY DEF Good
  <2> HIDE DEF Good
  <2> QED BY <2>1, <2>2
<1> HIDE DEF lines
<1>9. b = [total |-> food + ticket + transport, known |-> food + ticket + transport,
           transport |-> transport, food |-> food, hotel |-> 0, ticket |-> ticket,
           lines |-> lines]
  BY DEF Budget, lines
<1> HIDE DEF b
<1>10. b \in Budgets
  BY <1>2, <1>8, <1>9 DEF Budgets
<1>11. ASSUME FreeOfDebt(days, legs)
       PROVE  /\ b.total >= 0 /\ b.known >= 0 /\ b.transport >= 0 /\ b.food >= 0
              /\ b.hotel >= 0 /\ b.ticket >= 0 /\ validateBudgetDetails(b)
  <2>1. food \in Nat /\ ticket \in Nat /\ transport \in Nat
    BY <1>3, <1>11
  <2>2. \A i \in DOMAIN lines : ValidCost(lines[i])
    BY <1>8, <1>11
  <2> QED BY <1>9, <2>1, <2>2 DEF validateBudgetDetails
<1> QED BY <1>1, <1>10, <1>11

-----------------------------------------------------------------------------
(* The inductive invariant                                                 *)

\* The nodes from the one on that makes the draft, sums up, checks, and writes.
Writing == {"validate", "done", "failed"}
Checking == {"generate"} \cup Writing
Summing == {"check"} \cup Checking
Drafting == {"budget"} \cup Summing

\* The draft of some places.
DraftOf(ps) ==
    [d \in 1..brief.days |-> [slot \in 1..ItemsPerDay |->
        Item(ps[Slot(d, slot, ItemsPerDay, Len(ps))])]]

Wished(ps) ==
    /\ LeadsTo(ps, brief.must, 1, Range(ps))
    /\ \/ \A p \in Range(ps) : p.name \in brief.avoid
       \/ \A p \in Range(ps) : p.name \notin brief.avoid

Debt == \/ \E i \in DOMAIN pois : legacyCost(pois[i].cost) < 0
        \/ \E i \in DOMAIN routes : legacyCost(routes[i].cost) < 0

Sound(p, days) ==
    /\ validatePlanNode(p) /\ validateBudgetDetails(p.budget)
    /\ checkDays(p, days) /\ checkStructure(p) /\ checkKeywords(p) /\ checkIllegalFields(p)

Failing == {c \in Range(Checks) : ~Feasible(c)}

GraphInv ==
    /\ GraphTypeOK
    /\ pois \in Seq(PricedPOIs) /\ routes \in Seq(PricedLegs)
    /\ node \notin {"parse", "refused"} => Acceptable
    /\ node \notin {"parse", "poi", "refused"} => pois # <<>>
    /\ IF node \in Drafting THEN itinerary = DraftOf(pois) /\ Wished(pois) ELSE itinerary = <<>>
    /\ node \in Summing =>
          budget = BudgetOf(itinerary, routes, brief.travelers, brief.intercity)
    /\ mocked \subseteq Range(warnings)
    /\ node \in Checking => Failing \subseteq Range(warnings)
    /\ node \in Writing =>
          /\ Range(warnings) \subseteq Range(plan.warnings)
          /\ Debt \/ (node # "failed" /\ Sound(plan, brief.days))
          /\ checkBudget(plan, budgetLimit) \/ "fallback" \in Range(plan.warnings)

LEMMA FirstSlot == \A m \in Nat \ {0} : 0 % m = 0
BY SMTT(30)

LEMMA ListOf ==
    ASSUME NEW S, NEW n \in Nat, NEW list, list = [i \in 1..n |-> list[i]],
           \A i \in 1..n : list[i] \in S
    PROVE  list \in Seq(S) /\ Len(list) = n
OBVIOUS

LEMMA DraftIsTyped ==
    ASSUME brief \in TravelRequests, Acceptable, NEW ps \in Seq(PricedPOIs), ps # <<>>
    PROVE  /\ DraftOf(ps) \in Seq(Seq(PricedItems)) /\ Len(DraftOf(ps)) = brief.days
           /\ DraftOf(ps)[1][1] = Item(ps[1])
           /\ \A d \in 1..brief.days : DOMAIN DraftOf(ps)[d] = 1..ItemsPerDay
           /\ \A d \in 1..brief.days : \A i \in 1..ItemsPerDay :
                 \E k \in DOMAIN ps : DraftOf(ps)[d][i] = Item(ps[k])
<1>1. ItemsPerDay \in {2, 3} /\ brief.days \in Nat \ {0}
  BY DEF ItemsPerDay, TravelRequests, Acceptable
<1>2. Len(ps) \in Nat \ {0} /\ DOMAIN ps = 1..Len(ps)
  OBVIOUS
<1>3. ASSUME NEW d \in 1..brief.days, NEW i \in 1..ItemsPerDay
      PROVE  Slot(d, i, ItemsPerDay, Len(ps)) \in DOMAIN ps
  <2>1. (d - 1) * ItemsPerDay + i - 1 \in Int
    BY <1>1
  <2>2. \A x \in Int : \A m \in Nat \ {0} : 1 + (x % m) \in 1..m
    OBVIOUS
  <2> QED BY <1>2, <2>1, <2>2 DEF Slot
<1>4. ASSUME NEW k \in DOMAIN ps PROVE Item(ps[k]) \in PricedItems
  <2>1. ps[k] \in PricedPOIs
    OBVIOUS
  <2>2. ps[k].name \in Places /\ ps[k].estimate \in Int /\ Quoted(ps[k].cost) /\ ps[k].cost \in Costs
    BY <2>1 DEF PricedPOIs, POIs
  <2> QED BY <2>2 DEF Item, PricedItems, Items
<1>5. ASSUME NEW d \in 1..brief.days
      PROVE  /\ DraftOf(ps)[d] = [slot \in 1..ItemsPerDay |->
                                    Item(ps[Slot(d, slot, ItemsPerDay, Len(ps))])]
             /\ DraftOf(ps)[d] \in Seq(PricedItems)
  <2>1. DraftOf(ps)[d] = [slot \in 1..ItemsPerDay |->
                            Item(ps[Slot(d, slot, ItemsPerDay, Len(ps))])]
    BY DEF DraftOf
  <2>2. ItemsPerDay \in Nat
    BY <1>1
  <2>3. \A slot \in 1..ItemsPerDay : Item(ps[Slot(d, slot, ItemsPerDay, Len(ps))]) \in PricedItems
    BY <1>3, <1>4
  <2> QED BY <2>1, <2>2, <2>3
<1>6. DraftOf(ps) = [d \in 1..brief.days |-> DraftOf(ps)[d]]
  BY DEF DraftOf
<1>7. DraftOf(ps) \in Seq(Seq(PricedItems)) /\ Len(DraftOf(ps)) = brief.days
  BY <1>1, <1>5, <1>6, ListOf
<1>8. /\ \A d \in 1..brief.days : DOMAIN DraftOf(ps)[d] = 1..ItemsPerDay
      /\ \A d \in 1..brief.days : \A i \in 1..ItemsPerDay :
            DraftOf(ps)[d][i] = Item(ps[Slot(d, i, ItemsPerDay, Len(ps))])
  BY <1>5
<1>9. DraftOf(ps)[1][1] = Item(ps[1])
  <2>1. 1 \in 1..brief.days /\ 1 \in 1..ItemsPerDay
    BY <1>1
  <2>2. Slot(1, 1, ItemsPerDay, Len(ps)) = 1
    <3>1. (1 - 1) * ItemsPerDay + 1 - 1 = 0
      BY <1>1
    <3>2. 1 + (0 % Len(ps)) = 1
      <4>1. 0 % Len(ps) = 0
        BY <1>2, FirstSlot
      <4> QED BY <4>1
    <3> QED BY <3>1, <3>2 DEF Slot
  <2>3. DraftOf(ps)[1][1] = Item(ps[Slot(1, 1, ItemsPerDay, Len(ps))])
    BY <1>8, <2>1
  <2> QED BY <2>2, <2>3
<1> QED BY <1>3, <1>7, <1>9, <1>8

\* Without a negative price of the provider no item has one.
LEMMA DraftFreeOfDebt ==
    ASSUME brief \in TravelRequests, Acceptable, pois \in Seq(PricedPOIs), pois # <<>>,
           itinerary = DraftOf(pois), routes \in Seq(PricedLegs), ~Debt
    PROVE  FreeOfDebt(itinerary, routes)
<1>1. ASSUME NEW d \in DOMAIN itinerary, NEW i \in DOMAIN itinerary[d]
      PROVE  legacyCost(itinerary[d][i].cost) >= 0
  <2>1. d \in 1..brief.days /\ i \in 1..ItemsPerDay
    BY DraftIsTyped DEF DraftOf
  <2>2. PICK k \in DOMAIN pois : itinerary[d][i] = Item(pois[k])
    BY <2>1, DraftIsTyped
  <2>3. itinerary[d][i].cost = pois[k].cost
    BY <2>2 DEF Item
  <2>4. Quoted(pois[k].cost)
    BY DEF PricedPOIs
  <2>5. legacyCost(pois[k].cost) \in Int
    <3>1. 1 \in Nat \ {0}
      OBVIOUS
    <3> QED BY <2>4, <3>1, QuotedCosts
  <2> QED BY <2>3, <2>5 DEF Debt
<1>2. ASSUME NEW i \in DOMAIN routes PROVE legacyCost(routes[i].cost) >= 0
  <2>1. 1 \in Nat \ {0} /\ Quoted(routes[i].cost)
    BY DEF PricedLegs
  <2>2. legacyCost(routes[i].cost) \in Int
    BY <2>1, QuotedCosts
  <2> QED BY <2>2 DEF Debt
<1> QED BY <1>1, <1>2 DEF FreeOfDebt

-----------------------------------------------------------------------------
(* Plans                                                                   *)

\* Warnings are no part of what makes a plan sound.
LEMMA SoundWhateverWarned ==
    ASSUME NEW p \in TravelPlans, NEW w \in Seq(Warnings), NEW days, Sound(p, days)
    PROVE  /\ [p EXCEPT !.warnings = w] \in TravelPlans
           /\ [p EXCEPT !.warnings = w].warnings = w
           /\ Sound([p EXCEPT !.warnings = w], days)
<1> DEFINE q == [p EXCEPT !.warnings = w]
<1>1. q \in TravelPlans /\ q.warnings = w
  BY DEF TravelPlans
<1>2. /\ q.titled = p.titled /\ q.namesCity = p.namesCity
      /\ q.budget = p.budget /\ q.days = p.days
  BY DEF TravelPlans
<1> HIDE DEF q
<1>3. Sound(q, days)
  BY <1>2 DEF Sound, validatePlanNode, checkDays, checkStructure, checkKeywords, checkIllegalFields
<1> QED BY <1>1, <1>3 DEF q

\* An answer that is accepted keeps the rules that are checked at the end.
LEMMA AcceptedIsSound ==
    ASSUME NEW p \in TravelPlans, NEW days \in Nat \ {0}, NEW limit,
           validateGeneratedPlan(p, days, limit)
    PROVE  Sound(p, days) /\ checkBudget(p, limit)
<1>1. /\ p.titled /\ p.namesCity /\ Len(p.days) = days
      /\ p.budget.total >= 0 /\ p.budget.known >= 0
      /\ p.budget.transport >= 0 /\ p.budget.food >= 0 /\ p.budget.hotel >= 0
      /\ p.budget.ticket >= 0
      /\ validateBudgetDetails(p.budget)
  BY DEF validateGeneratedPlan
<1>2. ASSUME NEW d \in DOMAIN p.days
      PROVE  /\ p.days[d].number = d /\ p.days[d].items # <<>>
             /\ \A i \in DOMAIN p.days[d].items : ValidItem(p.days[d].items[i])
  BY DEF validateGeneratedPlan, ItemsPresent
<1>3. DOMAIN p.days = 1..days /\ p.days # <<>>
  <2>1. p.days \in Seq(Days)
    BY DEF TravelPlans
  <2> QED BY <1>1, <2>1
<1>4. validatePlanNode(p)
  BY <1>1, <1>2, <1>3 DEF validatePlanNode
<1>5. checkDays(p, days) /\ checkKeywords(p)
  BY <1>1, <1>2 DEF checkDays, checkKeywords
<1>6. checkStructure(p)
  BY <1>1, <1>2, <1>3 DEF checkStructure, ValidItem
<1>7. checkIllegalFields(p)
  BY <1>1, <1>2, <1>3 DEF checkIllegalFields, ValidItem
<1>8. checkBudget(p, limit)
  BY DEF validateGeneratedPlan, checkBudget
<1> QED BY <1>1, <1>4, <1>5, <1>6, <1>7, <1>8 DEF Sound

\* The deterministic plan is sound unless a price is negative.
LEMMA DraftIsSound ==
    ASSUME GraphInv, node = "generate"
    PROVE  /\ deterministicPlan \in TravelPlans
           /\ Debt \/ Sound(deterministicPlan, brief.days)
<1> DEFINE p == deterministicPlan
<1>1. /\ brief \in TravelRequests /\ Acceptable /\ pois \in Seq(PricedPOIs) /\ pois # <<>>
      /\ routes \in Seq(PricedLegs) /\ itinerary = DraftOf(pois)
      /\ budget = BudgetOf(itinerary, routes, brief.travelers, brief.intercity)
      /\ warnings \in Seq(Warnings)
  BY GraphAssumption DEF GraphInv, GraphTypeOK, Drafting, Summing, Checking
<1>2. brief.days \in Nat \ {0} /\ brief.travelers \in Nat \ {0} /\ brief.intercity \in BOOLEAN
  BY <1>1 DEF TravelRequests, Acceptable
<1>3. /\ itinerary \in Seq(Seq(PricedItems)) /\ Len(itinerary) = brief.days
      /\ \A d \in 1..brief.days : DOMAIN itinerary[d] = 1..ItemsPerDay
  BY <1>1, DraftIsTyped
<1>4. /\ p.titled = TRUE /\ p.namesCity = TRUE /\ p.budget = budget
      /\ p.days = [d \in DOMAIN itinerary |-> [number |-> d, items |-> itinerary[d]]]
      /\ p.warnings = Append(warnings, "mock tools")
      /\ p = [titled |-> p.titled, namesCity |-> p.namesCity, budget |-> p.budget,
              days |-> p.days, warnings |-> p.warnings]
  BY DEF deterministicPlan
<1> HIDE DEF p
<1>5. DOMAIN itinerary = 1..brief.days
  BY <1>2, <1>3
<1>6. ASSUME NEW d \in 1..brief.days
      PROVE  /\ p.days[d].number = d /\ p.days[d].items = itinerary[d] /\ itinerary[d] # <<>>
             /\ itinerary[d] \in Seq(PricedItems) /\ p.days[d] \in Days
  <2>1. p.days[d] = [number |-> d, items |-> itinerary[d]]
    BY <1>4, <1>5
  <2>2. itinerary[d] \in Seq(PricedItems) /\ itinerary[d] # <<>>
    <3>1. 1 \in 1..ItemsPerDay
      BY DEF ItemsPerDay
    <3>2. itinerary[d] \in Seq(PricedItems)
      BY <1>3, <1>5
    <3>3. 1 \in DOMAIN itinerary[d]
      BY <1>3, <3>1
    <3> QED BY <3>2, <3>3
  <2>3. itinerary[d] \in Seq(Items)
    BY <2>2 DEF PricedItems
  <2> QED BY <2>1, <2>2, <2>3 DEF Days
<1>7. p.days \in Seq(Days) /\ Len(p.days) = brief.days /\ DOMAIN p.days = 1..brief.days
  <2>1. p.days = [d \in 1..brief.days |-> p.days[d]]
    BY <1>4, <1>5
  <2>2. brief.days \in Nat /\ \A d \in 1..brief.days : p.days[d] \in Days
    BY <1>2, <1>6
  <2> QED BY <2>1, <2>2, ListOf
<1>8. /\ budget \in Budgets
      /\ FreeOfDebt(itinerary, routes) =>
           /\ budget.total >= 0 /\ budget.known >= 0 /\ budget.transport >= 0
           /\ budget.food >= 0 /\ budget.hotel >= 0 /\ budget.ticket >= 0
           /\ validateBudgetDetails(budget)
  BY <1>1, <1>2, <1>3, BudgetIsSound
<1>9. p \in TravelPlans
  <2>1. p.warnings \in Seq(Warnings)
    <3>1. "mock tools" \in Warnings
      BY DEF Warnings
    <3>2. warnings \in Seq(Warnings) /\ p.warnings = Append(warnings, "mock tools")
      BY <1>1, <1>4
    <3> QED BY <3>1, <3>2, AppendProperties
  <2> QED BY <1>4, <1>7, <1>8, <2>1 DEF TravelPlans
<1>10. ASSUME ~Debt PROVE Sound(p, brief.days)
  <2>1. FreeOfDebt(itinerary, routes)
    BY <1>1, <1>10, DraftFreeOfDebt
  <2>2. ASSUME NEW d \in 1..brief.days, NEW i \in DOMAIN itinerary[d]
        PROVE  ValidItem(itinerary[d][i])
    <3> DEFINE x == itinerary[d][i]
    <3>1. PICK k \in DOMAIN pois : x = Item(pois[k])
      <4>1. i \in 1..ItemsPerDay
        BY <1>3
      <4>2. \E k \in DOMAIN pois : DraftOf(pois)[d][i] = Item(pois[k])
        BY <1>1, <4>1, DraftIsTyped
      <4> QED BY <1>1, <4>2
    <3>2. /\ x.named = TRUE /\ x.duration = 90 /\ x.estimate = pois[k].estimate
          /\ x.cost = pois[k].cost
      BY <3>1 DEF Item
    <3>3. pois[k] \in PricedPOIs
      BY <1>1
    <3>4. legacyCost(x.cost) >= 0
      BY <1>5, <2>1 DEF FreeOfDebt
    <3> HIDE DEF x
    <3>5. x.estimate >= 0
      BY <3>2, <3>3, <3>4 DEF PricedPOIs
    <3>6. ValidCost(x.cost)
      <4>1. Quoted(x.cost) /\ 1 \in Nat \ {0}
        BY <3>2, <3>3 DEF PricedPOIs
      <4> QED BY <3>4, <4>1, QuotedCosts
    <3>7. ValidItem(x)
      BY <3>2, <3>5, <3>6 DEF ValidItem
    <3> QED BY <3>7 DEF x
  <2>3. ASSUME NEW d \in DOMAIN p.days
        PROVE  /\ p.days[d].number = d /\ p.days[d].items # <<>> /\ p.days[d].number > 0
               /\ \A i \in DOMAIN p.days[d].items : ValidItem(p.days[d].items[i])
    BY <1>6, <1>7, <2>2
  <2>4. p.days # <<>>
    BY <1>2, <1>7
  <2>5. validatePlanNode(p)
    BY <1>4, <1>8, <2>1, <2>3, <2>4 DEF validatePlanNode
  <2>6. checkDays(p, brief.days) /\ checkKeywords(p)
    BY <1>4, <1>7, <2>3 DEF checkDays, checkKeywords
  <2>7. checkStructure(p)
    BY <1>4, <2>3, <2>4 DEF checkStructure, ValidItem
  <2>8. checkIllegalFields(p)
    BY <1>4, <1>8, <2>1, <2>3 DEF checkIllegalFields, ValidItem
  <2> QED BY <1>4, <1>8, <2>1, <2>5, <2>6, <2>7, <2>8 DEF Sound
<1> QED BY <1>9, <1>10 DEF p

-----------------------------------------------------------------------------
(* Warnings                                                                *)

LEMMA WarningsAdded ==
    ASSUME NEW a \in Seq(Warnings), NEW b \in Seq(Warnings), NEW w \in Warnings
    PROVE  /\ Append(a, w) \in Seq(Warnings) /\ Range(Append(a, w)) = Range(a) \cup {w}
           /\ a \o b \in Seq(Warnings) /\ Range(a \o b) = Range(a) \cup Range(b)
<1>1. Append(a, w) \in Seq(Warnings) /\ Range(Append(a, w)) = Range(a) \cup {w}
  <2> DEFINE c == Append(a, w)
  <2>1. /\ c \in Seq(Warnings) /\ Len(c) = Len(a) + 1 /\ c[Len(a) + 1] = w
        /\ \A i \in 1..Len(a) : c[i] = a[i]
    BY AppendProperties
  <2>2. Len(a) \in Nat /\ DOMAIN a = 1..Len(a)
    OBVIOUS
  <2> HIDE DEF c
  <2>3. DOMAIN c = (1..Len(a)) \cup {Len(a) + 1}
    BY <2>1, <2>2
  <2> QED BY <2>1, <2>2, <2>3 DEF Range
<1>2. a \o b \in Seq(Warnings) /\ Range(a \o b) = Range(a) \cup Range(b)
  <2> DEFINE c == a \o b
  <2>1. /\ c \in Seq(Warnings) /\ Len(c) = Len(a) + Len(b)
        /\ \A i \in 1..Len(c) : c[i] = IF i <= Len(a) THEN a[i] ELSE b[i - Len(a)]
    BY ConcatProperties
  <2>2. /\ Len(a) \in Nat /\ DOMAIN a = 1..Len(a) /\ Len(b) \in Nat /\ DOMAIN b = 1..Len(b)
    OBVIOUS
  <2> HIDE DEF c
  <2>3. DOMAIN c = 1..Len(c)
    BY <2>1
  <2>4. ASSUME NEW i \in 1..Len(c) PROVE c[i] \in Range(a) \cup Range(b)
    <3>1. CASE i <= Len(a)
      <4>1. c[i] = a[i] /\ i \in DOMAIN a
        BY <2>1, <2>2, <3>1
      <4> QED BY <4>1 DEF Range
    <3>2. CASE ~(i <= Len(a))
      <4>1. i - Len(a) \in DOMAIN b /\ c[i] = b[i - Len(a)]
        BY <2>1, <2>2, <3>2
      <4> QED BY <4>1 DEF Range
    <3> QED BY <3>1, <3>2
  <2>5. ASSUME NEW i \in 1..Len(a) PROVE a[i] \in Range(c)
    <3>1. i \in 1..Len(c) /\ i <= Len(a)
      BY <2>1, <2>2
    <3> QED BY <2>1, <2>3, <3>1 DEF Range
  <2>6. ASSUME NEW i \in 1..Len(b) PROVE b[i] \in Range(c)
    <3>1. Len(a) + i \in 1..Len(c) /\ ~(Len(a) + i <= Len(a)) /\ (Len(a) + i) - Len(a) = i
      BY <2>1, <2>2
    <3> QED BY <2>1, <2>3, <3>1 DEF Range
  <2>7. Range(c) \subseteq Range(a) \cup Range(b)
    <3>1. Range(c) = {c[i] : i \in 1..Len(c)}
      BY <2>3 DEF Range
    <3> QED BY <2>4, <3>1
  <2>8. Range(a) \subseteq Range(c) /\ Range(b) \subseteq Range(c)
    <3>1. Range(a) = {a[i] : i \in 1..Len(a)} /\ Range(b) = {b[i] : i \in 1..Len(b)}
      BY <2>2 DEF Range
    <3> QED BY <2>5, <2>6, <3>1
  <2> QED BY <2>1, <2>7, <2>8 DEF c
<1> QED BY <1>1, <1>2

\* What the graph has told is told by the plan.
LEMMA MergedTell ==
    ASSUME NEW a \in Seq(Warnings), NEW b \in Seq(Warnings)
    PROVE  /\ mergeWarnings(a, b) \in Seq(Warnings)
           /\ Range(mergeWarnings(a, b)) = Range(a) \cup Range(b)
<1>1. PICK c \in Seq(Warnings) : c = a \o b /\ Range(c) = Range(a) \cup Range(b)
  <2>1. "other" \in Warnings
    BY DEF Warnings
  <2> QED BY <2>1, WarningsAdded
<1>2. FirstsOnly(c) \in Seq(Warnings) /\ Range(FirstsOnly(c)) = Range(c)
  BY FirstsOnlyOnce
<1> QED BY <1>1, <1>2 DEF mergeWarnings

\* A tool whose fallback is used is warned of.
LEMMA UseTells ==
    ASSUME NEW tool \in {"poi", "weather", "route"}, NEW outcome, warnings \in Seq(Warnings),
           mocked \subseteq Range(warnings), mocked \subseteq {"poi", "weather", "route"},
           Use(tool, outcome)
    PROVE  /\ warnings' \in Seq(Warnings) /\ mocked' \subseteq {"poi", "weather", "route"}
           /\ mocked' \subseteq Range(warnings')
<1>1. tool \in Warnings
  BY DEF Warnings
<1>2. Append(warnings, tool) \in Seq(Warnings) /\ Range(Append(warnings, tool)) = Range(warnings) \cup {tool}
  BY <1>1, WarningsAdded
<1>3. CASE outcome.told
  BY <1>2, <1>3 DEF Use
<1>4. CASE ~outcome.told
  BY <1>4 DEF Use
<1> QED BY <1>3, <1>4

LEMMA WarningsOfChecks ==
    LET told == KeptIn(Checks, {c \in Range(Checks) : ~Feasible(c)})
    IN  told \in Seq(Warnings) /\ Range(told) = Failing
<1>1. Checks \in Seq(Warnings)
  BY DEF Checks, Warnings
<1>2. Failing = Range(Checks) \cap Failing
  BY DEF Failing
<1>3. KeptIn(Checks, Failing) \in Seq(Warnings) /\ Range(KeptIn(Checks, Failing)) = Failing
  <2> HIDE DEF Failing
  <2> QED BY <1>1, <1>2, KeptRange
<1> QED BY <1>3 DEF Failing

-----------------------------------------------------------------------------
(* The invariant is inductive                                              *)

LEMMA GraphStart == GraphInit => GraphInv
<1> SUFFICES ASSUME GraphInit PROVE GraphInv
  OBVIOUS
<1>1. /\ node = "parse" /\ brief \in Briefs /\ toolMode \in {"test", "mock", "no key", "real"}
      /\ pois = <<>> /\ weather = <<>> /\ routes = <<>> /\ itinerary = <<>>
      /\ budget = NoBudget /\ warnings = <<>> /\ mocked = {} /\ plan = <<>>
  BY DEF GraphInit
<1>2. NoBudget \in Budgets
  <2>1. <<>> \in Seq(Lines)
    OBVIOUS
  <2> QED BY <2>1 DEF NoBudget, Budget, Budgets
<1>0. \A S : <<>> \in Seq(S)
  OBVIOUS
<1>3. GraphTypeOK
  <2>1. /\ pois \in Seq(POIs) /\ weather \in Seq({"rainy", "rain", "dry"}) /\ routes \in Seq(Legs)
        /\ itinerary \in Seq(Seq(Items)) /\ warnings \in Seq(Warnings)
    BY <1>0, <1>1
  <2> QED BY <1>1, <1>2, <2>1 DEF GraphTypeOK
<1>4. node \notin Drafting /\ node \notin Summing /\ node \notin Checking /\ node \notin Writing
  BY <1>1 DEF Drafting, Summing, Checking, Writing
<1>5. pois \in Seq(PricedPOIs) /\ routes \in Seq(PricedLegs)
  BY <1>0, <1>1
<1> QED BY <1>1, <1>3, <1>4, <1>5 DEF GraphInv

LEMMA ParseStep ==
    ASSUME GraphInv, parseTravelRequestNode \/ refuseRequest
    PROVE  GraphInv'
<1>1. /\ node = "parse"
      /\ (node' = "poi" /\ Acceptable) \/ node' = "refused"
      /\ UNCHANGED <<brief, toolMode, pois, weather, routes, itinerary, budget, warnings, mocked,
                     plan>>
  BY DEF parseTravelRequestNode, refuseRequest, Pass, Edges
<1>2. GraphTypeOK' /\ (node' # "refused" => Acceptable')
  BY <1>1 DEF GraphInv, GraphTypeOK, Acceptable
<1>3. /\ node \notin Drafting
      /\ node' \notin Drafting' /\ node' \notin Summing' /\ node' \notin Checking'
      /\ node' \notin Writing'
  BY <1>1 DEF Drafting, Summing, Checking, Writing
<1>4. itinerary = <<>>
  BY <1>3 DEF GraphInv
<1>5. /\ pois' \in Seq(PricedPOIs) /\ routes' \in Seq(PricedLegs)
      /\ mocked' \subseteq Range(warnings')
  BY <1>1 DEF GraphInv
<1> QED BY <1>1, <1>2, <1>3, <1>4, <1>5 DEF GraphInv

LEMMA POIStep ==
    ASSUME GraphInv, searchPOIsToolNode
    PROVE  GraphInv'
<1>1. /\ node = "poi" /\ node' = "weather"
      /\ UNCHANGED <<brief, toolMode, weather, routes, itinerary, budget, plan>>
  BY DEF searchPOIsToolNode, Pass, Edges
<1>2. PICK outcome \in ToolResults(toolMode, RealPOIs(RealLists), {MockPOIs}) :
          Use("poi", outcome) /\ pois' = outcome.data
  BY DEF searchPOIsToolNode
<1>3. /\ toolMode \in {"test", "mock", "no key", "real"} /\ warnings \in Seq(Warnings)
      /\ mocked \subseteq Range(warnings) /\ mocked \subseteq {"poi", "weather", "route"}
  BY DEF GraphInv, GraphTypeOK
<1>4. pois' \in Seq(PricedPOIs) /\ pois' # <<>>
  <2>1. outcome.data \in RealPOIs(RealLists) \cup {MockPOIs}
    BY <1>2, <1>3, ResultsOf
  <2> QED BY <1>2, <2>1, FoundPOIs
<1>5. /\ warnings' \in Seq(Warnings) /\ mocked' \subseteq {"poi", "weather", "route"}
      /\ mocked' \subseteq Range(warnings')
  BY <1>2, <1>3, UseTells
<1>6. pois' \in Seq(POIs)
  BY <1>4 DEF PricedPOIs
<1>7. GraphTypeOK'
  BY <1>1, <1>5, <1>6 DEF GraphInv, GraphTypeOK
<1>8. /\ node \notin Drafting
      /\ node' \notin Drafting' /\ node' \notin Summing' /\ node' \notin Checking'
      /\ node' \notin Writing'
  BY <1>1 DEF Drafting, Summing, Checking, Writing
<1>9. itinerary' = <<>> /\ routes' \in Seq(PricedLegs)
  BY <1>1, <1>8 DEF GraphInv
<1>10. Acceptable'
  BY <1>1 DEF GraphInv, Acceptable
<1> QED BY <1>4, <1>5, <1>7, <1>8, <1>9, <1>10 DEF GraphInv

LEMMA WeatherStep ==
    ASSUME GraphInv, getWeatherToolNode
    PROVE  GraphInv'
<1>1. /\ node = "weather" /\ node' = "route"
      /\ UNCHANGED <<brief, toolMode, pois, routes, itinerary, budget, plan>>
  BY DEF getWeatherToolNode, Pass, Edges
<1>2. PICK outcome \in ToolResults(toolMode, RealWeathers(brief.days), MockWeathers(brief.days)) :
          /\ weather' = outcome.data
          /\ mocked' = IF outcome.told THEN mocked \cup {"weather"} ELSE mocked
          /\ warnings' = warnings \o
                (IF outcome.told THEN <<"weather">> ELSE KeptIn(outcome.data, {"rainy"}))
  BY DEF getWeatherToolNode
<1>3. /\ toolMode \in {"test", "mock", "no key", "real"} /\ warnings \in Seq(Warnings)
      /\ mocked \subseteq Range(warnings) /\ mocked \subseteq {"poi", "weather", "route"}
      /\ brief \in Briefs
  BY DEF GraphInv, GraphTypeOK
<1>4. brief.days \in Nat
  <2>1. Acceptable /\ brief \in TravelRequests
    BY <1>1, <1>3, GraphAssumption DEF GraphInv
  <2> QED BY <2>1 DEF TravelRequests, Acceptable
<1>5. outcome.told \in BOOLEAN /\ outcome.data \in Seq({"rainy", "rain", "dry"})
  <2>1. /\ outcome.told \in BOOLEAN
        /\ outcome.data \in RealWeathers(brief.days) \cup MockWeathers(brief.days)
    BY <1>3, ResultsOf
  <2> QED BY <1>4, <2>1, Weathers
<1> DEFINE added == IF outcome.told THEN <<"weather">> ELSE KeptIn(outcome.data, {"rainy"})
<1>6. added \in Seq(Warnings) /\ (outcome.told => "weather" \in Range(added))
  <2>1. CASE outcome.told
    <3>1. added = <<"weather">> /\ "weather" \in Warnings
      BY <2>1 DEF Warnings
    <3> HIDE DEF added
    <3> QED BY <3>1 DEF Range
  <2>2. CASE ~outcome.told
    <3>1. KeptIn(outcome.data, {"rainy"}) \in Seq({"rainy", "rain", "dry"} \cap {"rainy"})
      BY <1>5, KeptInKeeps
    <3>2. {"rainy", "rain", "dry"} \cap {"rainy"} \subseteq Warnings
      BY DEF Warnings
    <3>3. KeptIn(outcome.data, {"rainy"}) \in Seq(Warnings)
      BY <3>1, <3>2
    <3> QED BY <2>2, <3>3
  <2> QED BY <2>1, <2>2
<1>7. warnings' = warnings \o added
  BY <1>2
<1> HIDE DEF added
<1>8. warnings' \in Seq(Warnings) /\ Range(warnings') = Range(warnings) \cup Range(added)
  <2>1. "other" \in Warnings
    BY DEF Warnings
  <2> QED BY <1>3, <1>6, <1>7, <2>1, WarningsAdded
<1>9. mocked' \subseteq {"poi", "weather", "route"} /\ mocked' \subseteq Range(warnings')
  BY <1>2, <1>3, <1>5, <1>6, <1>8
<1>10. GraphTypeOK'
  BY <1>1, <1>2, <1>5, <1>8, <1>9 DEF GraphInv, GraphTypeOK
<1>11. /\ node \notin Drafting
       /\ node' \notin Drafting' /\ node' \notin Summing' /\ node' \notin Checking'
       /\ node' \notin Writing'
  BY <1>1 DEF Drafting, Summing, Checking, Writing
<1>12. /\ itinerary' = <<>> /\ routes' \in Seq(PricedLegs) /\ pois' \in Seq(PricedPOIs)
       /\ pois' # <<>>
  BY <1>1, <1>11 DEF GraphInv
<1>13. Acceptable'
  BY <1>1 DEF GraphInv, Acceptable
<1> QED BY <1>9, <1>10, <1>11, <1>12, <1>13 DEF GraphInv

LEMMA RouteStep ==
    ASSUME GraphInv, computeRouteToolNode
    PROVE  GraphInv'
<1>1. /\ node = "route" /\ node' = "optimize"
      /\ UNCHANGED <<brief, toolMode, pois, weather, itinerary, budget, plan>>
  BY DEF computeRouteToolNode, Pass, Edges
<1>2. PICK outcome \in ToolResults(toolMode, RealRoutes(pois, brief.mode, LegMinutes),
                                  {MockRoutes(pois)}) :
          Use("route", outcome) /\ routes' = outcome.data
  BY DEF computeRouteToolNode
<1>3. /\ toolMode \in {"test", "mock", "no key", "real"} /\ warnings \in Seq(Warnings)
      /\ mocked \subseteq Range(warnings) /\ mocked \subseteq {"poi", "weather", "route"}
      /\ pois \in Seq(PricedPOIs) /\ pois # <<>>
  BY <1>1 DEF GraphInv, GraphTypeOK
<1>4. routes' \in Seq(PricedLegs)
  <2>1. outcome.data \in RealRoutes(pois, brief.mode, LegMinutes) \cup {MockRoutes(pois)}
    BY <1>2, <1>3, ResultsOf
  <2>2. /\ MockRoutes(pois) \in Seq(PricedLegs)
        /\ RealRoutes(pois, brief.mode, LegMinutes) \subseteq Seq(PricedLegs)
    BY <1>3, FoundLegs
  <2> QED BY <1>2, <2>1, <2>2
<1>5. /\ warnings' \in Seq(Warnings) /\ mocked' \subseteq {"poi", "weather", "route"}
      /\ mocked' \subseteq Range(warnings')
  BY <1>2, <1>3, UseTells
<1>6. routes' \in Seq(Legs)
  BY <1>4 DEF PricedLegs
<1>7. GraphTypeOK'
  BY <1>1, <1>5, <1>6 DEF GraphInv, GraphTypeOK
<1>8. /\ node \notin Drafting
      /\ node' \notin Drafting' /\ node' \notin Summing' /\ node' \notin Checking'
      /\ node' \notin Writing'
  BY <1>1 DEF Drafting, Summing, Checking, Writing
<1>9. itinerary' = <<>> /\ pois' \in Seq(PricedPOIs) /\ pois' # <<>>
  BY <1>1, <1>3, <1>8 DEF GraphInv
<1>10. Acceptable'
  BY <1>1 DEF GraphInv, Acceptable
<1> QED BY <1>4, <1>5, <1>7, <1>8, <1>9, <1>10 DEF GraphInv

LEMMA OptimizeStep ==
    ASSUME GraphInv, optimizeItineraryNode
    PROVE  GraphInv'
<1> DEFINE places == applyPOIPreferences(pois)
<1>1. /\ node = "optimize" /\ node' = "budget" /\ pois' = places
      /\ itinerary' = DraftOf(places)
      /\ UNCHANGED <<brief, toolMode, weather, routes, budget, warnings, mocked, plan>>
  BY DEF optimizeItineraryNode, Pass, Edges, DraftOf
<1>2. pois \in Seq(PricedPOIs) /\ pois # <<>> /\ brief \in TravelRequests /\ Acceptable
  BY <1>1, GraphAssumption DEF GraphInv, GraphTypeOK
<1>3. places \in Seq(PricedPOIs) /\ places # <<>> /\ Wished(places)
  BY <1>2, PreferencesKeep DEF Wished
<1> HIDE DEF places
<1>4. DraftOf(places) \in Seq(Seq(PricedItems))
  BY <1>2, <1>3, DraftIsTyped
<1>5. places \in Seq(POIs) /\ DraftOf(places) \in Seq(Seq(Items))
  <2>1. PricedPOIs \subseteq POIs /\ Seq(PricedItems) \subseteq Seq(Items)
    BY DEF PricedPOIs, PricedItems
  <2> QED BY <1>3, <1>4, <2>1
<1>6. GraphTypeOK'
  BY <1>1, <1>5 DEF GraphInv, GraphTypeOK
<1>7. itinerary' = DraftOf(pois)' /\ Wished(pois)'
  BY <1>1, <1>3 DEF DraftOf, ItemsPerDay, Wished
<1>8. /\ node' \in Drafting' /\ node' \notin Summing' /\ node' \notin Checking'
      /\ node' \notin Writing'
  BY <1>1 DEF Drafting, Summing, Checking, Writing
<1>9. routes' \in Seq(PricedLegs) /\ mocked' \subseteq Range(warnings')
  BY <1>1 DEF GraphInv
<1>10. Acceptable'
  BY <1>1, <1>2 DEF Acceptable
<1> QED BY <1>1, <1>3, <1>6, <1>7, <1>8, <1>9, <1>10 DEF GraphInv

\* What a later node leaves alone stays true.
LEMMA DraftStays ==
    ASSUME GraphInv, node \in Drafting, node' \in Drafting',
           UNCHANGED <<brief, pois, routes, itinerary>>
    PROVE  /\ pois' \in Seq(PricedPOIs) /\ routes' \in Seq(PricedLegs) /\ pois' # <<>>
           /\ itinerary' = DraftOf(pois)' /\ Wished(pois)' /\ (Debt' <=> Debt) /\ Acceptable'
<1>1. pois # <<>> /\ Acceptable
  BY DEF GraphInv, Drafting, Summing, Checking, Writing
<1> QED BY <1>1 DEF GraphInv, DraftOf, ItemsPerDay, Wished, Debt, Acceptable

LEMMA BudgetStep ==
    ASSUME GraphInv, estimateBudgetToolNode
    PROVE  GraphInv'
<1>1. /\ node = "budget" /\ node' = "check"
      /\ budget' = BudgetOf(itinerary, routes, brief.travelers, brief.intercity)
      /\ UNCHANGED <<brief, toolMode, pois, weather, routes, itinerary, warnings, mocked, plan>>
  BY DEF estimateBudgetToolNode, Pass, Edges
<1>2. /\ node \in Drafting /\ node' \in Drafting' /\ node' \notin Checking'
      /\ node' \notin Writing'
  BY <1>1 DEF Drafting, Summing, Checking, Writing
<1>3. /\ pois' \in Seq(PricedPOIs) /\ routes' \in Seq(PricedLegs) /\ pois' # <<>>
      /\ itinerary' = DraftOf(pois)' /\ Wished(pois)' /\ Acceptable'
  BY <1>1, <1>2, DraftStays
<1>4. budget' \in Budgets
  <2>1. /\ brief \in TravelRequests /\ Acceptable /\ pois \in Seq(PricedPOIs) /\ pois # <<>>
        /\ routes \in Seq(PricedLegs) /\ itinerary = DraftOf(pois)
    BY <1>1, <1>2, GraphAssumption DEF GraphInv, GraphTypeOK
  <2>2. itinerary \in Seq(Seq(PricedItems))
    BY <2>1, DraftIsTyped
  <2>3. brief.travelers \in Nat \ {0} /\ brief.intercity \in BOOLEAN
    BY <2>1 DEF TravelRequests, Acceptable
  <2> QED BY <1>1, <2>1, <2>2, <2>3, BudgetIsSound
<1>5. GraphTypeOK'
  BY <1>1, <1>4 DEF GraphInv, GraphTypeOK
<1>6. /\ budget' = BudgetOf(itinerary', routes', (brief').travelers, (brief').intercity)
      /\ mocked' \subseteq Range(warnings')
  BY <1>1 DEF GraphInv
<1> QED BY <1>1, <1>2, <1>3, <1>5, <1>6 DEF GraphInv

\* The checks look at nothing that a later node changes.
LEMMA FailingStays ==
    UNCHANGED <<brief, pois, weather, routes, itinerary, budget>> => Failing' = Failing
<1> SUFFICES ASSUME UNCHANGED <<brief, pois, weather, routes, itinerary, budget>>
             PROVE  Failing' = Failing
  OBVIOUS
<1>1. ASSUME NEW c PROVE Feasible(c)' <=> Feasible(c)
  BY DEF Feasible, paceItemRange, dayHasIndoorOption, NoRepeatOn
<1> QED BY <1>1 DEF Failing, Checks

LEMMA CheckStep ==
    ASSUME GraphInv, validateRouteFeasibilityNode
    PROVE  GraphInv'
<1> DEFINE told == KeptIn(Checks, {c \in Range(Checks) : ~Feasible(c)})
<1>1. /\ node = "check" /\ node' = "generate" /\ warnings' = warnings \o told
      /\ UNCHANGED <<brief, toolMode, pois, weather, routes, itinerary, budget, mocked, plan>>
  BY DEF validateRouteFeasibilityNode, Pass, Edges
<1>2. /\ node \in Drafting /\ node' \in Drafting' /\ node \in Summing
      /\ node' \notin Writing'
  BY <1>1 DEF Drafting, Summing, Checking, Writing
<1>3. /\ pois' \in Seq(PricedPOIs) /\ routes' \in Seq(PricedLegs) /\ pois' # <<>>
      /\ itinerary' = DraftOf(pois)' /\ Wished(pois)' /\ Acceptable'
  BY <1>1, <1>2, DraftStays
<1>4. told \in Seq(Warnings) /\ Range(told) = Failing
  BY WarningsOfChecks
<1> HIDE DEF told
<1>5. warnings' \in Seq(Warnings) /\ Range(warnings') = Range(warnings) \cup Failing
  <2>1. "other" \in Warnings /\ warnings \in Seq(Warnings)
    BY DEF Warnings, GraphInv, GraphTypeOK
  <2> QED BY <1>1, <1>4, <2>1, WarningsAdded
<1>6. GraphTypeOK'
  BY <1>1, <1>5 DEF GraphInv, GraphTypeOK
<1>7. Failing' \subseteq Range(warnings') /\ mocked' \subseteq Range(warnings')
  BY <1>1, <1>5, FailingStays DEF GraphInv
<1>8. budget' = BudgetOf(itinerary', routes', (brief').travelers, (brief').intercity)
  BY <1>1, <1>2 DEF GraphInv
<1> QED BY <1>1, <1>2, <1>3, <1>6, <1>7, <1>8 DEF GraphInv

\* A plan that is given the graph's warnings and its own.
LEMMA WrittenPlan ==
    ASSUME GraphInv, node = "generate", NEW p \in TravelPlans, NEW w \in Warnings,
           Debt \/ Sound(p, brief.days),
           plan' = [p EXCEPT !.warnings = mergeWarnings(warnings, Append(@, w))]
    PROVE  /\ plan' \in TravelPlans /\ Range(warnings) \subseteq Range((plan').warnings)
           /\ Debt \/ Sound(plan', brief.days)
           /\ w \in Range((plan').warnings)
<1>1. warnings \in Seq(Warnings) /\ p.warnings \in Seq(Warnings)
  BY DEF GraphInv, GraphTypeOK, TravelPlans
<1>2. Append(p.warnings, w) \in Seq(Warnings)
  BY <1>1, AppendProperties
<1> DEFINE all == mergeWarnings(warnings, Append(p.warnings, w))
<1>3. /\ all \in Seq(Warnings)
      /\ Range(all) = Range(warnings) \cup Range(Append(p.warnings, w))
  BY <1>1, <1>2, MergedTell
<1>4. plan' = [p EXCEPT !.warnings = all]
  OBVIOUS
<1> HIDE DEF all
<1>5. plan' \in TravelPlans /\ (plan').warnings = all
  BY <1>3, <1>4 DEF TravelPlans
<1>6. ASSUME Sound(p, brief.days) PROVE Sound(plan', brief.days)
  BY <1>3, <1>4, <1>6, SoundWhateverWarned
<1>7. w \in Range(Append(p.warnings, w))
  BY <1>1, WarningsAdded
<1> QED BY <1>3, <1>5, <1>6, <1>7

LEMMA GenerateStep ==
    ASSUME GraphInv, generateTravelPlanNode
    PROVE  GraphInv'
<1>1. /\ node = "generate" /\ node' = "validate"
      /\ UNCHANGED <<brief, toolMode, pois, weather, routes, itinerary, budget, warnings, mocked>>
  BY DEF generateTravelPlanNode, Pass, Edges
<1>2. /\ node \in Drafting /\ node' \in Drafting' /\ node \in Summing /\ node \in Checking
      /\ node' \in Writing'
  BY <1>1 DEF Drafting, Summing, Checking, Writing
<1>3. /\ pois' \in Seq(PricedPOIs) /\ routes' \in Seq(PricedLegs) /\ pois' # <<>>
      /\ itinerary' = DraftOf(pois)' /\ Wished(pois)' /\ (Debt' <=> Debt) /\ Acceptable'
  BY <1>1, <1>2, DraftStays
<1>4. brief.days \in Nat \ {0}
  <2>1. Acceptable /\ brief \in TravelRequests
    BY <1>1, GraphAssumption DEF GraphInv, GraphTypeOK
  <2> QED BY <2>1 DEF TravelRequests, Acceptable
<1>5. /\ plan' \in TravelPlans /\ Range(warnings) \subseteq Range((plan').warnings)
      /\ Debt \/ Sound(plan', brief.days)
      /\ checkBudget(plan', budgetLimit) \/ "fallback" \in Range((plan').warnings)
  <2>1. CASE plan' = [deterministicPlan EXCEPT !.warnings =
                        mergeWarnings(warnings, Append(@, "fallback"))]
    <3>1. "fallback" \in Warnings
      BY DEF Warnings
    <3>2. deterministicPlan \in TravelPlans /\ (Debt \/ Sound(deterministicPlan, brief.days))
      BY <1>1, DraftIsSound
    <3> QED BY <1>1, <2>1, <3>1, <3>2, WrittenPlan
  <2>2. ASSUME NEW answer \in TravelPlans, validateGeneratedPlan(answer, brief.days, budgetLimit),
               plan' = [answer EXCEPT !.warnings = mergeWarnings(warnings, Append(@, "trace"))]
        PROVE  /\ plan' \in TravelPlans /\ Range(warnings) \subseteq Range((plan').warnings)
               /\ Debt \/ Sound(plan', brief.days)
               /\ checkBudget(plan', budgetLimit)
    <3>1. "trace" \in Warnings
      BY DEF Warnings
    <3>2. Sound(answer, brief.days) /\ checkBudget(answer, budgetLimit)
      BY <1>4, <2>2, AcceptedIsSound
    <3>3. (plan').budget = answer.budget
      BY <2>2 DEF TravelPlans
    <3>4. checkBudget(plan', budgetLimit)
      BY <3>2, <3>3 DEF checkBudget
    <3> QED BY <1>1, <2>2, <3>1, <3>2, <3>4, WrittenPlan
  <2> QED BY <2>1, <2>2 DEF generateTravelPlanNode
<1>6. GraphTypeOK'
  BY <1>1, <1>5 DEF GraphInv, GraphTypeOK
<1>7. /\ mocked' \subseteq Range(warnings')
      /\ budget' = BudgetOf(itinerary', routes', (brief').travelers, (brief').intercity)
  BY <1>1, <1>2 DEF GraphInv
<1>8. Failing' \subseteq Range(warnings')
  BY <1>1, <1>2, FailingStays DEF GraphInv
<1>9. Range(warnings') \subseteq Range((plan').warnings)
  BY <1>1, <1>5
<1>10. Debt' \/ (node' # "failed" /\ Sound(plan', (brief').days))
  BY <1>1, <1>3, <1>5
<1>11. Sound(plan, brief.days)' <=> Sound(plan', (brief').days)
  BY DEF Sound
<1>12. checkBudget(plan, budgetLimit)' \/ "fallback" \in Range((plan').warnings)
  BY <1>1, <1>5 DEF checkBudget, budgetLimit
<1> QED BY <1>1, <1>2, <1>3, <1>6, <1>7, <1>8, <1>9, <1>10, <1>11, <1>12 DEF GraphInv

\* The last node changes nothing but where the task is.
LEMMA LastStep ==
    ASSUME GraphInv, validatePlan \/ rejectPlan
    PROVE  GraphInv'
<1>1. /\ node = "validate" /\ node' = IF validatePlanNode(plan) THEN "done" ELSE "failed"
      /\ UNCHANGED <<brief, toolMode, pois, weather, routes, itinerary, budget, warnings, mocked,
                     plan>>
  BY DEF validatePlan, rejectPlan, Pass, Edges
<1>2. /\ node \in Drafting /\ node' \in Drafting' /\ node \in Summing /\ node \in Checking
      /\ node \in Writing
  BY <1>1 DEF Drafting, Summing, Checking, Writing
<1>3. /\ pois' \in Seq(PricedPOIs) /\ routes' \in Seq(PricedLegs) /\ pois' # <<>>
      /\ itinerary' = DraftOf(pois)' /\ Wished(pois)' /\ (Debt' <=> Debt) /\ Acceptable'
  BY <1>1, <1>2, DraftStays
<1>4. GraphTypeOK'
  BY <1>1 DEF GraphInv, GraphTypeOK
<1>5. /\ mocked' \subseteq Range(warnings')
      /\ budget' = BudgetOf(itinerary', routes', (brief').travelers, (brief').intercity)
      /\ Range(warnings') \subseteq Range((plan').warnings)
  BY <1>1, <1>2 DEF GraphInv
<1>6. Failing' \subseteq Range(warnings')
  BY <1>1, <1>2, FailingStays DEF GraphInv
<1>7. Debt \/ Sound(plan, brief.days)
  BY <1>2 DEF GraphInv
<1>8. Debt' \/ (node' # "failed" /\ Sound(plan, brief.days)')
  <2>1. Sound(plan, brief.days)' <=> Sound(plan, brief.days)
    BY <1>1 DEF Sound
  <2>2. Sound(plan, brief.days) => validatePlanNode(plan)
    BY DEF Sound
  <2> QED BY <1>1, <1>3, <1>7, <2>1, <2>2
<1>9. checkBudget(plan, budgetLimit)' \/ "fallback" \in Range((plan').warnings)
  BY <1>1, <1>2 DEF GraphInv, checkBudget, budgetLimit
<1> QED BY <1>2, <1>3, <1>4, <1>5, <1>6, <1>8, <1>9 DEF GraphInv

LEMMA GraphStep == GraphInv /\ [GraphNext]_graphVars => GraphInv'
<1> SUFFICES ASSUME GraphInv, [GraphNext]_graphVars PROVE GraphInv'
  OBVIOUS
<1>1. CASE UNCHANGED graphVars
  <2>1. UNCHANGED <<node, brief, toolMode, pois, weather, routes, itinerary, budget, warnings,
                    mocked, plan>>
    BY <1>1 DEF graphVars
  <2>2. GraphTypeOK' /\ Failing' = Failing
    BY <2>1, FailingStays DEF GraphInv, GraphTypeOK
  <2> QED BY <2>1, <2>2 DEF GraphInv, DraftOf, ItemsPerDay, Wished, Debt, Sound, Drafting, Summing,
             Checking, Writing, Acceptable, checkBudget, budgetLimit
<1> QED BY <1>1, ParseStep, POIStep, WeatherStep, RouteStep, OptimizeStep, BudgetStep, CheckStep,
           GenerateStep, LastStep DEF GraphNext

-----------------------------------------------------------------------------
(* The theorems                                                            *)

LEMMA GraphInvariant == GraphSpec => []GraphInv
<1> QED BY GraphStart, GraphStep, PTL DEF GraphSpec

\* Every node hands on a state of the right types, and a plan is there from the
\* generator on and not before (TravelPlanningState of types.go).
THEOREM GraphTypeCorrect == GraphSpec => []GraphTypeOK
<1>1. GraphInv => GraphTypeOK
  BY DEF GraphInv
<1> QED BY <1>1, GraphInvariant, PTL

\* Whatever the provider, the mock tools and the model answer, a plan that
\* leaves the graph tells each tool whose mock data stands in for the
\* provider's and each check it fails (mergeWarnings in generateTravelPlanNode).
THEOREM FallbacksAreTold == GraphSpec => []FallbacksTold
<1>1. ASSUME GraphInv PROVE FallbacksTold
  <2> SUFFICES ASSUME node = "done"
               PROVE  /\ \A tool \in mocked : Told(tool)
                      /\ \A i \in DOMAIN Checks : ~Feasible(Checks[i]) => Told(Checks[i])
    BY DEF FallbacksTold
  <2>1. mocked \subseteq Range(plan.warnings) /\ Failing \subseteq Range(plan.warnings)
    BY <1>1 DEF GraphInv, Checking, Writing
  <2>2. \A w \in Range(plan.warnings) : Told(w)
    BY DEF Told, Range
  <2>3. \A i \in DOMAIN Checks : ~Feasible(Checks[i]) => Checks[i] \in Failing
    BY DEF Failing, Range
  <2> QED BY <2>1, <2>2, <2>3
<1> QED BY <1>1, GraphInvariant, PTL

\* For every list of places, every must-visit and every place to avoid, the
\* draft begins with the first must-visit that was found, and it holds a place
\* to avoid only if nothing else was found (applyPOIPreferences).
THEOREM WishesAreHeld == GraphSpec => []WishesHold
<1>1. ASSUME GraphInv PROVE WishesHold
  <2> DEFINE Met(w) == \E i \in DOMAIN pois : pois[i].name = w
             used == {itinerary[d][i].name : d \in DOMAIN itinerary, i \in 1..ItemsPerDay}
  <2> SUFFICES ASSUME itinerary # <<>>
               PROVE  /\ \A m \in DOMAIN brief.must :
                           Met(brief.must[m]) /\ (\A k \in 1 .. m - 1 : ~Met(brief.must[k]))
                               => itinerary[1][1].name = brief.must[m]
                      /\ used \cap brief.avoid # {} =>
                           \A i \in DOMAIN pois : pois[i].name \in brief.avoid
    BY DEF WishesHold
  <2>1. /\ pois \in Seq(PricedPOIs) /\ pois # <<>> /\ itinerary = DraftOf(pois) /\ Wished(pois)
        /\ brief \in TravelRequests /\ Acceptable
    <3>1. node \in Drafting
      BY <1>1 DEF GraphInv
    <3> QED BY <1>1, <3>1, GraphAssumption
            DEF GraphInv, GraphTypeOK, Drafting, Summing, Checking, Writing
  <2>2. /\ itinerary[1][1] = Item(pois[1]) /\ Len(itinerary) = brief.days
        /\ itinerary \in Seq(Seq(PricedItems))
        /\ \A d \in 1..brief.days : \A i \in 1..ItemsPerDay :
               \E k \in DOMAIN pois : itinerary[d][i] = Item(pois[k])
    BY <2>1, DraftIsTyped
  <2>3. \A w : Met(w) <=> w \in {p.name : p \in Range(pois)}
    BY DEF Range
  <2>4. ASSUME NEW m \in DOMAIN brief.must, Met(brief.must[m]),
               \A k \in 1 .. m - 1 : ~Met(brief.must[k])
        PROVE  itinerary[1][1].name = brief.must[m]
    <3>1. brief.must \in Seq(Places)
      BY <2>1 DEF TravelRequests
    <3>2. m \in 1 .. Len(brief.must)
      BY <3>1
    <3> HIDE DEF Met
    <3>3. pois[1].name = brief.must[m]
      BY <2>1, <2>3, <2>4, <3>2 DEF Wished, LeadsTo
    <3> QED BY <2>2, <3>3 DEF Item
  <2>5. ASSUME NEW d \in DOMAIN itinerary, NEW i \in 1..ItemsPerDay,
               itinerary[d][i].name \in brief.avoid
        PROVE  \A k \in DOMAIN pois : pois[k].name \in brief.avoid
    <3>1. d \in 1..brief.days
      BY <2>2
    <3>2. PICK k \in DOMAIN pois : itinerary[d][i] = Item(pois[k])
      BY <2>2, <3>1
    <3>3. pois[k].name \in brief.avoid
      BY <2>5, <3>2 DEF Item
    <3> QED BY <2>1, <3>3 DEF Wished, Range
  <2> QED BY <2>4, <2>5
<1> QED BY <1>1, GraphInvariant, PTL

\* Whatever the model answers, a task that has a plan does not fail, and the
\* plan keeps the rules of the budget and those of the evaluation that are not
\* a case's own, unless the provider quoted a negative price; only one that
\* tells of the fallback exceeds the budget's ratio (validateGeneratedPlan
\* accepts no answer that validatePlanNode would refuse; the deterministic plan
\* is not checked, and needs it only for the ratio).
THEOREM GeneratedIsSound == GraphSpec => []GeneratedIsValid
<1>1. ASSUME GraphInv PROVE GeneratedIsValid
  <2>1. \A w : w \in Range(plan.warnings) => Told(w)
    BY DEF Told, Range
  <2> QED BY <1>1, <2>1 DEF GraphInv, GeneratedIsValid, Writing, Debt, Sound
<1> QED BY <1>1, GraphInvariant, PTL

-----------------------------------------------------------------------------
(* The parts together                                                      *)

\* A part makes its own steps and rests during those of the others.
LEMMA PartsGoAlone ==
    /\ ServicesInit => /\ BusInit /\ AuthInit /\ ViewInit /\ RateInit /\ GraphInit /\ GenInit
                       /\ ChatInit
    /\ [ServicesNext]_servicesVars =>
          /\ [BusNext]_busVars /\ [AuthNext]_authVars /\ [ViewNext]_viewVars
          /\ [RateNext]_rateVars /\ [GraphNext]_graphVars /\ [GenNext]_genVars
          /\ [ChatNext]_chatVars
<1>1. ServicesInit => /\ BusInit /\ AuthInit /\ ViewInit /\ RateInit /\ GraphInit /\ GenInit
                      /\ ChatInit
  BY DEF ServicesInit
<1>2. ASSUME UNCHANGED servicesVars
      PROVE  UNCHANGED <<busVars, authVars, viewVars, rateVars, graphVars, genVars, chatVars>>
  BY <1>2 DEF servicesVars
<1>3. ASSUME ServicesNext
      PROVE  /\ [BusNext]_busVars /\ [AuthNext]_authVars /\ [ViewNext]_viewVars
             /\ [RateNext]_rateVars /\ [GraphNext]_graphVars /\ [GenNext]_genVars
             /\ [ChatNext]_chatVars
  BY <1>3 DEF ServicesNext
<1> QED BY <1>1, <1>2, <1>3

\* Whichever part runs, its variables keep their types: no part changes the
\* state of another.
THEOREM ServicesTypeCorrect == ServicesSpec => []ServicesTypeOK
<1>1. ServicesSpec => /\ BusSpec /\ AuthSpec /\ ViewSpec /\ RateSpec /\ GraphSpec /\ GenSpec
                      /\ ChatSpec
  BY PartsGoAlone, PTL
  DEF ServicesSpec, BusSpec, AuthSpec, ViewSpec, RateSpec, GraphSpec, GenSpec, ChatSpec
<1>2. ServicesSpec => [](part \in Parts)
  <2>1. ServicesInit => part \in Parts
    BY DEF ServicesInit
  <2>2. part \in Parts /\ [ServicesNext]_servicesVars => (part \in Parts)'
    BY DEF ServicesNext, servicesVars
  <2> QED BY <2>1, <2>2, PTL DEF ServicesSpec
<1>3. RateInv => RateTypeOK
  BY DEF RateInv
<1>4. /\ part \in Parts /\ BusTypeOK /\ AuthTypeOK /\ ViewTypeOK /\ RateTypeOK /\ GraphTypeOK
      /\ GenTypeOK /\ ChatTypeOK
      => ServicesTypeOK
  BY DEF Parts, ServicesTypeOK
<1> QED BY <1>1, <1>2, <1>3, <1>4, BusTypeCorrect, AuthTypeSafety, ViewTypeCorrect, RateInvariant,
           GraphTypeCorrect, GenTypeCorrect, ChatTypeCorrect, PTL
=============================================================================
