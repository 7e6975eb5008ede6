---------------------------- MODULE PlannerGraph ----------------------------
(***************************************************************************)
(* The planner's graph (src/internal/agent/eino: graph.go, nodes.go): the  *)
(* nodes one task goes through, from the request to a validated plan.  A   *)
(* node either fails, and with it the task, or hands the state on.  The    *)
(* context of a task is never cancelled, so the nodes' checks of it are    *)
(* left out.  A request is as NormalizeTravelBrief leaves it: neither the  *)
(* service nor the harness refuses all that is wanting in it.              *)
(***************************************************************************)
EXTENDS PlanTools

CONSTANTS
    Briefs,         \* requests: whether both cities and an interest are
                    \* left, places to avoid, must-visits, days, pace,
                    \* littleWalking, mode, travelers, intercity, whether an
                    \* interest names the indoors, the budget, and whether it
                    \* is meant for each person
    RealLists,      \* lists of places the provider may find
    LegMinutes,     \* durations of the provider's legs
    Answers(_)      \* plans a model may answer with, given a draft

\* TravelRequest, normalised.
TravelRequests ==
    [cities : BOOLEAN, interested : BOOLEAN, avoid : SUBSET Places, must : Seq(Places),
     days : Int, pace : {"relaxed", "balanced", "intensive"},
     mode : {"walking", "transit", "driving"}, littleWalking : BOOLEAN, travelers : Int,
     intercity : BOOLEAN, indoorInterest : BOOLEAN, amount : Int, perPerson : BOOLEAN]

ASSUME GraphAssumption ==
    /\ Briefs \subseteq TravelRequests
    /\ RealLists \subseteq Seq(Places) /\ LegMinutes \subseteq Int

VARIABLES
    node,       \* the node that runs next, or "refused" by the first node,
                \* "failed" at the last, or "done"
    brief,      \* TravelPlanningState.Request
    toolMode,   \* the tools a task runs: "test", "mock", "no key" or "real"
    pois,       \* TravelPlanningState.POIs
    weather,    \* TravelPlanningState.Weather
    routes,     \* TravelPlanningState.Routes
    itinerary,  \* TravelPlanningState.Itinerary: each day's items
    budget,     \* TravelPlanningState.Budget
    warnings,   \* TravelPlanningState.Warnings
    mocked,     \* history: tools whose mock data stands in for the provider's
    plan        \* the plan, or <<>>

graphVars == <<node, brief, toolMode, pois, weather, routes, itinerary, budget,
               warnings, mocked, plan>>

NoBudget == Budget(0, 0, 0, <<>>)

GraphInit ==
    /\ node = "parse"
    /\ brief \in Briefs
    /\ toolMode \in {"test", "mock", "no key", "real"}
    /\ pois = <<>> /\ weather = <<>> /\ routes = <<>> /\ itinerary = <<>>
    /\ budget = NoBudget
    /\ warnings = <<>> /\ mocked = {} /\ plan = <<>>

\* The edges of the graph.
Edges == [parse |-> "poi", poi |-> "weather", weather |-> "route", route |-> "optimize",
          optimize |-> "budget", budget |-> "check", check |-> "generate",
          generate |-> "validate", validate |-> "done"]
Pass(from) ==
    /\ node = from
    /\ node' = Edges[from]
    /\ UNCHANGED <<brief, toolMode>>

\* A tool's result: a fallback is told and goes on only if it holds data.
Use(tool, result) ==
    /\ result.told => result.data # <<>>
    /\ warnings' = IF result.told THEN Append(warnings, tool) ELSE warnings
    /\ mocked' = IF result.told THEN mocked \cup {tool} ELSE mocked

Item(p) == [name |-> p.name, cost |-> p.cost, estimate |-> p.estimate,
            duration |-> 90, named |-> TRUE, detailed |-> TRUE]

\* The first place that a must-visit names is moved to the front.
ToFront(w, places) ==
    IF \A i \in DOMAIN places : places[i].name # w THEN places
    ELSE LET first == CHOOSE i \in DOMAIN places :
                          /\ places[i].name = w
                          /\ \A j \in DOMAIN places : places[j].name = w => i <= j
         IN [k \in DOMAIN places |-> IF k = 1 THEN places[first]
                                     ELSE IF k <= first THEN places[k - 1] ELSE places[k]]

\* Faulty variants, for the sensitivity of the properties: must-visits moved to
\* the front in their own order; a model's plan with only its own warnings.
InOrder(wishes, places) ==
    LET after[n \in 0 .. Len(wishes)] ==
            IF n = 0 THEN places ELSE ToFront(wishes[n], after[n - 1])
    IN after[Len(wishes)]
OwnOnly(primary, secondary) == secondary

\* From the last must-visit to the first.
MustVisitsFirst(wishes, places) ==
    LET after[n \in 0 .. Len(wishes)] ==
            IF n = 0 THEN places ELSE ToFront(wishes[Len(wishes) + 1 - n], after[n - 1])
    IN after[Len(wishes)]

applyPOIPreferences(places) ==
    LET kept == KeptIn(places, {p \in Range(places) : p.name \notin brief.avoid})
    IN MustVisitsFirst(brief.must, IF kept = <<>> THEN places ELSE kept)

mergeWarnings(primary, secondary) == FirstsOnly(primary \o secondary)
\* What the first node asks of a request.
Acceptable ==
    /\ brief.cities /\ brief.days > 0 /\ brief.amount > 0
    /\ brief.interested /\ brief.travelers > 0

budgetLimit ==
    IF brief.perPerson /\ brief.travelers > 0 THEN brief.amount * brief.travelers ELSE brief.amount

Slot(d, slot, n, places) == 1 + (((d - 1) * n + slot - 1) % places)

ItemsPerDay == IF brief.pace = "intensive" /\ ~brief.littleWalking THEN 3 ELSE 2

paceItemRange == CASE brief.pace = "relaxed"   -> 1..2
                   [] brief.pace = "intensive" -> 3..4
                   [] OTHER                    -> 2..3

----------------------------------------------------------------------------
(* The nodes *)

parseTravelRequestNode ==
    /\ Pass("parse")
    /\ Acceptable
    /\ UNCHANGED <<pois, weather, routes, itinerary, budget, warnings, mocked, plan>>

\* Its error ends the graph and fails the task.
refuseRequest ==
    /\ node = "parse" /\ ~Acceptable
    /\ node' = "refused"
    /\ UNCHANGED <<brief, toolMode, pois, weather, routes, itinerary, budget, warnings,
                   mocked, plan>>

searchPOIsToolNode ==
    /\ Pass("poi")
    /\ \E result \in ToolResults(toolMode, RealPOIs(RealLists), {MockPOIs}) :
          Use("poi", result) /\ pois' = result.data
    /\ UNCHANGED <<weather, routes, itinerary, budget, plan>>

\* The days of rain that the tool names "rainy" are warned of, unless the
\* weather is a fallback.
getWeatherToolNode ==
    /\ Pass("weather")
    /\ \E result \in ToolResults(toolMode, RealWeathers(brief.days), MockWeathers(brief.days)) :
          /\ weather' = result.data
          /\ mocked' = IF result.told THEN mocked \cup {"weather"} ELSE mocked
          /\ warnings' = warnings \o
                (IF result.told THEN <<"weather">>
                 ELSE KeptIn(result.data, {"rainy"}))
    /\ UNCHANGED <<pois, routes, itinerary, budget, plan>>

computeRouteToolNode ==
    /\ Pass("route")
    /\ \E result \in ToolResults(toolMode, RealRoutes(pois, brief.mode, LegMinutes),
                                 {MockRoutes(pois)}) :
          Use("route", result) /\ routes' = result.data
    /\ UNCHANGED <<pois, weather, itinerary, budget, plan>>

\* The places are reordered after the routes between them were computed.
optimizeItineraryNode ==
    /\ Pass("optimize")
    /\ LET places == applyPOIPreferences(pois) IN
          /\ pois' = places
          /\ itinerary' = [d \in 1..brief.days |-> [slot \in 1..ItemsPerDay |->
                 Item(places[Slot(d, slot, ItemsPerDay, Len(places))])]]
    /\ UNCHANGED <<weather, routes, budget, warnings, mocked, plan>>

estimateBudgetToolNode ==
    /\ Pass("budget")
    /\ budget' = BudgetOf(itinerary, routes, brief.travelers, brief.intercity)
    /\ UNCHANGED <<pois, weather, routes, itinerary, warnings, mocked, plan>>

\* An item counts as indoors by its own texts, which repeat the request's
\* interests.
dayHasIndoorOption(d) ==
    \/ brief.indoorInterest
    \/ \E i \in DOMAIN itinerary[d] : itinerary[d][i].name \in IndoorPlaces

NoRepeatOn(d) ==
    \A i, j \in DOMAIN itinerary[d] : itinerary[d][i].name = itinerary[d][j].name => i = j

Feasible(check) ==
    CASE check = "daily pace"     -> \A d \in DOMAIN itinerary : Len(itinerary[d]) \in paceItemRange
      [] check = "route duration" -> \A i \in DOMAIN routes : routes[i].minutes <= 90
      [] check = "coordinates"    -> \A i \in DOMAIN pois : pois[i].located
      [] check = "weather backup" -> \A d \in DOMAIN weather :
                                        conditionContainsRain(weather[d]) => dayHasIndoorOption(d)
      [] check = "breakdown"      -> /\ budget.known >= 0
                                     /\ budget.transport + budget.food + budget.hotel
                                            + budget.ticket = budget.known
      [] check = "duplicate"      -> \A d \in DOMAIN itinerary : NoRepeatOn(d)
      [] check = "route data"     -> routes # <<>> \/ Len(pois) <= 1

Checks == <<"daily pace", "route duration", "coordinates", "weather backup",
            "breakdown", "duplicate", "route data">>

validateRouteFeasibilityNode ==
    /\ Pass("check")
    /\ warnings' = warnings \o KeptIn(Checks, {c \in Range(Checks) : ~Feasible(c)})
    /\ UNCHANGED <<pois, weather, routes, itinerary, budget, mocked, plan>>

deterministicPlan ==
    [titled |-> TRUE, namesCity |-> TRUE, budget |-> budget,
     days |-> [d \in DOMAIN itinerary |-> [number |-> d, items |-> itinerary[d]]],
     warnings |-> Append(warnings, "mock tools")]

\* The generator: a model's plan that can be decoded and is accepted, or the
\* deterministic one.
generateTravelPlanNode ==
    /\ Pass("generate")
    /\ \/ plan' = [deterministicPlan EXCEPT !.warnings =
                      mergeWarnings(warnings, Append(@, "fallback"))]
       \/ /\ toolMode # "test"
          /\ \E answer \in Answers(deterministicPlan) :
                /\ answer \in TravelPlans
                /\ validateGeneratedPlan(answer, brief.days, budgetLimit)
                /\ plan' = [answer EXCEPT !.warnings =
                               mergeWarnings(warnings, Append(@, "trace"))]
    /\ UNCHANGED <<pois, weather, routes, itinerary, budget, warnings, mocked>>

validatePlan ==
    /\ Pass("validate")
    /\ validatePlanNode(plan)
    /\ UNCHANGED <<pois, weather, routes, itinerary, budget, warnings, mocked, plan>>

rejectPlan ==
    /\ node = "validate" /\ ~validatePlanNode(plan)
    /\ node' = "failed"
    /\ UNCHANGED <<brief, toolMode, pois, weather, routes, itinerary, budget, warnings,
                   mocked, plan>>

GraphNext ==
    \/ parseTravelRequestNode \/ refuseRequest \/ searchPOIsToolNode \/ getWeatherToolNode
    \/ computeRouteToolNode \/ optimizeItineraryNode \/ estimateBudgetToolNode
    \/ validateRouteFeasibilityNode \/ generateTravelPlanNode \/ validatePlan \/ rejectPlan

GraphSpec == GraphInit /\ [][GraphNext]_graphVars

----------------------------------------------------------------------------
(* Properties *)

Told(w) == \E i \in DOMAIN plan.warnings : plan.warnings[i] = w

\* Every variable has its type (TravelPlanningState of types.go), and there is
\* a plan from the generator on and none before.
GraphTypeOK ==
    /\ node \in {"parse", "poi", "weather", "route", "optimize", "budget", "check",
                 "generate", "validate", "done", "failed", "refused"}
    /\ brief \in Briefs /\ toolMode \in {"test", "mock", "no key", "real"}
    /\ pois \in Seq(POIs) /\ weather \in Seq({"rainy", "rain", "dry"})
    /\ routes \in Seq(Legs) /\ itinerary \in Seq(Seq(Items)) /\ budget \in Budgets
    /\ warnings \in Seq(Warnings) /\ mocked \subseteq {"poi", "weather", "route"}
    /\ IF node \in {"validate", "done", "failed"} THEN plan \in TravelPlans ELSE plan = <<>>

\* A plan that rests on mock data in place of the provider's says so, for each
\* tool, and says so of each failed check, whoever wrote the plan: a model's
\* own warnings never replace the graph's (generateTravelPlanNode).
FallbacksTold ==
    node = "done" =>
        /\ \A tool \in mocked : Told(tool)
        /\ \A i \in DOMAIN Checks : ~Feasible(Checks[i]) => Told(Checks[i])

\* The draft starts with the first must-visit the tools found and has no place
\* to avoid while there is any other (applyPOIPreferences, whose must-visits are
\* moved one by one after the places to avoid are gone).
WishesHold ==
    itinerary # <<>> =>
        LET Met(w) == \E i \in DOMAIN pois : pois[i].name = w
            used == {itinerary[d][i].name : d \in DOMAIN itinerary, i \in 1..ItemsPerDay}
        IN /\ \A m \in DOMAIN brief.must :
                 Met(brief.must[m]) /\ (\A k \in 1 .. m - 1 : ~Met(brief.must[k]))
                     => itinerary[1][1].name = brief.must[m]
           /\ used \cap brief.avoid # {} => \A i \in DOMAIN pois : pois[i].name \in brief.avoid

\* Once a plan is generated the task does not fail, unless a price of the
\* provider is negative: neither a model's answer that was accepted nor the
\* deterministic plan is refused by the last node, its budget keeps the rules
\* that only the model's is checked for, and it breaks no rule of the harness
\* on days, structure, fields and the city's name; nor the one on the budget's
\* ratio, but for a deterministic plan, which then tells that it is one
\* (validateGeneratedPlan, validatePlanNode, Evaluator.Evaluate: three lists of
\* rules kept apart).  A case's own keywords are left out.
GeneratedIsValid ==
    node \in {"validate", "done", "failed"} =>
        \/ \E i \in DOMAIN pois : legacyCost(pois[i].cost) < 0
        \/ \E i \in DOMAIN routes : legacyCost(routes[i].cost) < 0
        \/ /\ node # "failed"
           /\ validatePlanNode(plan) /\ validateBudgetDetails(plan.budget)
           /\ checkDays(plan, brief.days) /\ checkStructure(plan)
           /\ checkKeywords(plan) /\ checkIllegalFields(plan)
           /\ checkBudget(plan, budgetLimit) \/ Told("fallback")
=============================================================================
