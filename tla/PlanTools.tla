----------------------------- MODULE PlanTools -----------------------------
(***************************************************************************)
(* What the planner's tools return and what a plan must look like: costs   *)
(* (src/internal/domain/travel.go), the mock and the map provider's tools  *)
(* with their fallback, the budget, the validation of plans                *)
(* (src/internal/agent/eino) and their evaluation (src/internal/harness).  *)
(* Pure operators, used by PlannerGraph.                                   *)
(* Names, addresses and texts are left out: a place is a member of Places, *)
(* and an item or a plan says whether its texts are there.                 *)
(***************************************************************************)
EXTENDS Integers, Sequences, FiniteSets, Functions, Lists

CONSTANTS
    Places,         \* points of interest of the destination
    Category,       \* Category[p]: "food", "ticket" or "other"
    IndoorPlaces,   \* places whose texts hold one of the indoor tokens
    MockPlaces,     \* the places the mock tool returns, in order
    Prices,         \* amounts the map provider may quote
    NoAmount        \* the amount of a cost that is not known

ASSUME ToolsAssumption ==
    /\ IsFiniteSet(Places) /\ IndoorPlaces \subseteq Places
    /\ Category \in [Places -> {"food", "ticket", "other"}]
    /\ MockPlaces \in Seq(Places) /\ MockPlaces # <<>>
    /\ Prices \subseteq Int /\ NoAmount \notin Int

----------------------------------------------------------------------------
(* Costs *)

AvailableCost(amount, unit) ==
    [status |-> "available", amount |-> amount, unit |-> unit, included |-> TRUE]
UnavailableCost(unit) ==
    [status |-> "unavailable", amount |-> NoAmount, unit |-> unit, included |-> FALSE]
NotApplicableCost(unit) ==
    [status |-> "not_applicable", amount |-> 0, unit |-> unit, included |-> FALSE]

\* CostInfo, whatever its fields say; "other" stands for any other text.
Amounts == Int \cup {NoAmount}
Statuses == {"available", "unavailable", "not_applicable", "other"}
Units == {"per_person", "per_trip", "total", "other"}
Costs == [status : Statuses, amount : Amounts, unit : Units, included : BOOLEAN]

\* A number of the provider's answer, if it parses.
QuotedCost(amount, unit) ==
    IF amount = NoAmount THEN UnavailableCost(unit) ELSE AvailableCost(amount, unit)

legacyCost(cost) == IF cost.amount = NoAmount THEN 0 ELSE cost.amount

\* The same rules hold for the cost of an item and for a line of the budget.
ValidCost(cost) ==
    CASE cost.status = "available"      -> /\ cost.amount # NoAmount
                                           /\ cost.amount >= 0 /\ cost.included
      [] cost.status = "unavailable"    -> cost.amount = NoAmount /\ ~cost.included
      [] cost.status = "not_applicable" -> ~cost.included
      [] OTHER -> FALSE

----------------------------------------------------------------------------
(* Tools *)

POI(p, located, cost, estimate) ==
    [name |-> p, located |-> located, cost |-> cost, estimate |-> estimate]

POIs == [name : Places, located : BOOLEAN, cost : Costs, estimate : Int]

\* MockPOITool: the built-in places of the city, without coordinates, and with
\* an estimate in place of a price.
MockPOIs == [i \in DOMAIN MockPlaces |->
                POI(MockPlaces[i], FALSE, UnavailableCost("per_person"), 30 + ((i - 1) % 4) * 20)]

\* RealPOITool: the provider's places, each with or without coordinates and a
\* price, wherever it is in the list; an answer without a named place is an error.
RealPOIs(lists) ==
    {[i \in DOMAIN ps |->
        LET cost == QuotedCost(prices[ps[i]], "per_person")
        IN POI(ps[i], where[ps[i]], cost, legacyCost(cost))] :
        ps \in {qs \in lists : qs # <<>>}, where \in [Places -> BOOLEAN],
        prices \in [Places -> Prices \cup {NoAmount}]}

\* MockWeatherTool and RealWeatherTool: a condition for each day.  The mock
\* tool's are a fixed pattern that depends on the city.
MockWeathers(days) == {[d \in 1..days |-> IF (d + shift) % 4 = 2 THEN "rainy" ELSE "dry"] :
                          shift \in 0..3}
RealWeathers(days) == [1..days -> {"rain", "dry"}]

conditionContainsRain(condition) == condition \in {"rain", "rainy"}

Leg(from, to, minutes, cost) ==
    [from |-> from.name, to |-> to.name, minutes |-> minutes, cost |-> cost]

Legs == [from : Places, to : Places, minutes : Int, cost : Costs]

MockRoutes(pois) ==
    [i \in 1..Len(pois) - 1 |->
        Leg(pois[i], pois[i + 1], 15 + ((i - 1) % 4) * 5, UnavailableCost("per_trip"))]

\* The unit of a leg's price follows the provider's path for the transport mode.
RouteCost(mode, amount) ==
    CASE mode = "walking" -> NotApplicableCost("per_trip")
      [] mode = "transit" -> QuotedCost(amount, "per_person")
      [] OTHER            -> QuotedCost(amount, "per_trip")

\* RealRouteTool: one query for each leg between neighbours, and an error as
\* soon as a place has no coordinates.
RealRoutes(pois, mode, minutes) ==
    IF \E i \in DOMAIN pois : Len(pois) > 1 /\ ~pois[i].located THEN {}
    ELSE {[i \in 1..Len(pois) - 1 |->
              Leg(pois[i], pois[i + 1], m[i], RouteCost(mode, amount[i]))] :
            m \in [1..Len(pois) - 1 -> minutes],
            amount \in [1..Len(pois) - 1 -> Prices \cup {NoAmount}]}

\* The tool a task runs: the mock in test mode and when no other is configured;
\* the mock with a told fallback without the map provider's key, which all the
\* tools need, the weather's too (defaultToolSet); else the provider's tool,
\* with the mock and a told fallback when it fails in any way.
ToolResults(toolMode, real, mock) ==
    LET silent == {[data |-> m, told |-> FALSE] : m \in mock}
        told == {[data |-> m, told |-> TRUE] : m \in mock}
    IN CASE toolMode \in {"test", "mock"} -> silent
         [] toolMode = "no key" -> told
         [] toolMode = "real" -> told \cup {[data |-> r, told |-> FALSE] : r \in real}

----------------------------------------------------------------------------
(* Budget *)

Counted(cost) == cost.status = "available" /\ cost.included

budgetAmount(cost, travelers) ==
    IF cost.unit = "per_person" THEN cost.amount * travelers ELSE cost.amount

CountedAmount(cost, travelers) ==
    IF Counted(cost) THEN budgetAmount(cost, travelers) ELSE 0

\* The lines of the budget: what the legs cost, and the items of a category.
LegsTotal(routes, travelers) ==
    Total([i \in DOMAIN routes |-> CountedAmount(routes[i].cost, travelers)])
LegsKnown(routes) == \E i \in DOMAIN routes : Counted(routes[i].cost)

ItemsTotal(itinerary, category, travelers) ==
    Total([d \in DOMAIN itinerary |->
        Total([i \in DOMAIN itinerary[d] |->
            IF Category[itinerary[d][i].name] = category
            THEN CountedAmount(itinerary[d][i].cost, travelers) ELSE 0])])
ItemsKnown(itinerary, category) ==
    \E d \in DOMAIN itinerary : \E i \in DOMAIN itinerary[d] :
        Category[itinerary[d][i].name] = category /\ Counted(itinerary[d][i].cost)

budgetLine(key, amount, known) ==
    LET cost == IF known THEN AvailableCost(amount, "total") ELSE UnavailableCost("total")
    IN [key |-> key, status |-> cost.status, amount |-> cost.amount, unit |-> cost.unit,
        included |-> cost.included]

\* TravelBudget; what is missing in it are its lines that are unavailable.
Budget(food, transport, ticket, lines) ==
    [total |-> food + ticket + transport, known |-> food + ticket + transport,
     transport |-> transport, food |-> food, hotel |-> 0, ticket |-> ticket,
     lines |-> lines]

\* MockBudgetTool, which every configuration uses.
BudgetOf(itinerary, routes, travelers, intercity) ==
    LET food == ItemsTotal(itinerary, "food", travelers)
        transport == LegsTotal(routes, travelers)
        ticket == ItemsTotal(itinerary, "ticket", travelers)
    IN Budget(food, transport, ticket,
              <<budgetLine("food", food, ItemsKnown(itinerary, "food")),
                budgetLine("transport", transport, LegsKnown(routes)),
                budgetLine("hotel", 0, FALSE),
                budgetLine("ticket", ticket, ItemsKnown(itinerary, "ticket"))>>
              \o IF intercity THEN <<budgetLine("intercity", 0, FALSE)>> ELSE <<>>)

validateBudgetDetails(budget) ==
    /\ budget.total = budget.known
    /\ \A i \in DOMAIN budget.lines : ValidCost(budget.lines[i])

----------------------------------------------------------------------------
(* Plans *)

\* TravelPlan, as a model may write it: the types of its fields, no more.
Items == [name : Places, cost : Costs, estimate : Int, duration : Int, named : BOOLEAN,
          detailed : BOOLEAN]
Lines == [key : {"food", "transport", "hotel", "ticket", "intercity", "other"},
          status : Statuses, amount : Amounts, unit : Units, included : BOOLEAN]
Budgets == [total : Int, known : Int, transport : Int, food : Int, hotel : Int, ticket : Int,
            lines : Seq(Lines)]
Days == [number : Int, items : Seq(Items)]

\* The tools' fallbacks and what the checks and the generator tell.
Warnings == {"poi", "weather", "route", "rainy", "daily pace", "route duration",
             "coordinates", "weather backup", "breakdown", "duplicate", "route data",
             "mock tools", "fallback", "trace", "other"}
TravelPlans == [titled : BOOLEAN, namesCity : BOOLEAN, budget : Budgets, days : Seq(Days),
                warnings : Seq(Warnings)]

\* A faulty variant, for the sensitivity of the properties: a day may be empty.
AnyItems(items) == TRUE

ItemsPresent(items) == items # <<>>

\* What a plan needs to leave the graph (validatePlanNode).
ValidItem(item) ==
    /\ item.named /\ item.estimate >= 0 /\ item.duration >= 0
    /\ ValidCost(item.cost)

validatePlanNode(plan) ==
    /\ plan.titled /\ plan.days # <<>>
    /\ plan.budget.total >= 0 /\ plan.budget.known >= 0
    /\ \A d \in DOMAIN plan.days :
          /\ plan.days[d].number = d
          /\ plan.days[d].items # <<>>
          /\ \A i \in DOMAIN plan.days[d].items : ValidItem(plan.days[d].items[i])

\* What the model's answer needs to be taken as a plan.  The budget may exceed
\* the limit, the traveller's for each or for all, by a tenth.
validateGeneratedPlan(plan, days, limit) ==
    /\ plan.titled /\ plan.namesCity
    /\ Len(plan.days) = days
    /\ plan.budget.total >= 0 /\ plan.budget.known >= 0
    /\ 10 * plan.budget.total <= 11 * limit
    /\ \A part \in {"transport", "food", "hotel", "ticket"} : plan.budget[part] >= 0
    /\ validateBudgetDetails(plan.budget)
    /\ \A d \in DOMAIN plan.days :
          /\ plan.days[d].number = d
          /\ ItemsPresent(plan.days[d].items)
          /\ \A i \in DOMAIN plan.days[d].items :
                ValidItem(plan.days[d].items[i]) /\ plan.days[d].items[i].detailed

----------------------------------------------------------------------------
(* The checks of the evaluation harness (internal/harness) *)

\* The days that were asked for, in order.
checkDays(plan, days) ==
    Len(plan.days) = days /\ \A d \in DOMAIN plan.days : plan.days[d].number = d

checkStructure(plan) ==
    /\ plan.titled /\ plan.days # <<>>
    /\ \A d \in DOMAIN plan.days :
          /\ plan.days[d].items # <<>>
          /\ \A i \in DOMAIN plan.days[d].items : plan.days[d].items[i].named

\* The budget, within the ratio of 1.1 that every case of the dataset asks for.
checkBudget(plan, limit) == 10 * plan.budget.total <= 11 * limit

\* Of the keywords only the city is known to every case.
checkKeywords(plan) == plan.namesCity

checkIllegalFields(plan) ==
    /\ \A part \in {"transport", "food", "hotel", "ticket", "total"} : plan.budget[part] >= 0
    /\ \A d \in DOMAIN plan.days :
          /\ plan.days[d].number > 0
          /\ \A i \in DOMAIN plan.days[d].items :
                plan.days[d].items[i].estimate >= 0 /\ plan.days[d].items[i].duration >= 0
=============================================================================
