----------------------------- MODULE MCServices -----------------------------
(* The parts around the task service, one of them at a time: the part is      *)
(* chosen at the start, and the others rest in one initial state.  Tasks,     *)
(* accounts, tokens and persons are the same model values, and so are         *)
(* subscribers and requests.                                                  *)
EXTENDS EventBus, Auth, PublicViews, RateLimiter, PlannerGraph, PlanGenerator, Conversation

CONSTANTS zoo, lake, noodles

VARIABLE part

servicesVars == <<part, busVars, authVars, viewVars, rateVars, graphVars, genVars, chatVars>>

Parts == {"bus", "auth", "views", "rate", "graph", "generator", "chat"}

----------------------------------------------------------------------------
(* Places, requests and answers of the planner's graph *)

CategoryOf == (noodles :> "food") @@ (lake :> "ticket") @@ (zoo :> "other")
BuiltIn == <<noodles, lake, zoo>>
Found == {<<>>, <<zoo>>, <<lake, noodles>>, BuiltIn}
ForeignPrices == {-1, 3}

Brief(avoid, must, days, pace, mode) ==
    [cities |-> TRUE, interested |-> TRUE, avoid |-> avoid, must |-> must, days |-> days,
     pace |-> pace, mode |-> mode, littleWalking |-> FALSE, travelers |-> 2,
     intercity |-> TRUE, indoorInterest |-> FALSE, amount |-> 10, perPerson |-> TRUE]

ABrief == Brief({}, <<>>, 2, "balanced", "driving")
SomeBriefs ==
    {Brief(w[1], w[2], t[1], t[2], t[3]) :
        w \in {<<{}, <<>>>>, <<{noodles}, <<zoo, lake>>>>, <<{lake}, <<zoo>>>>,
               <<{}, <<lake, noodles, zoo>>>>, <<Places, <<noodles>>>>},
        t \in {<<2, "balanced", "driving">>, <<1, "intensive", "transit">>,
               <<1, "relaxed", "walking">>}}
    \cup {[ABrief EXCEPT !.interested = FALSE], [ABrief EXCEPT !.travelers = 0],
          [ABrief EXCEPT !.perPerson = FALSE]}

\* A good answer, and answers each with one fault.
AnswersTo(draft) ==
    {[draft EXCEPT !.warnings = <<"other">>],
     [draft EXCEPT !.days = Tail(@)],
     [draft EXCEPT !.days[1].items = <<>>],
     [draft EXCEPT !.days[1].number = 2],
     [draft EXCEPT !.days[1].items[1].cost = AvailableCost(-1, "per_person")],
     [draft EXCEPT !.budget.total = 23, !.budget.known = 23],
     [draft EXCEPT !.budget.known = 1]}

----------------------------------------------------------------------------
(* Words and messages of a conversation; word 3 is an old name of 2 *)

Labels == [w \in 1..3 |-> IF w = 3 THEN 2 ELSE w]

Covered == <<<<2>>, <<1>>>>

Wish(city, days, interests, pace, must, includes) ==
    [city |-> city, days |-> days, interests |-> interests, pace |-> pace, must |-> must,
     includes |-> includes]

TypedBriefs ==
    {Wish(<<0, 1>>, 1, <<<<1>>, <<0, 1>>>>, <<3>>, <<<<2>>, <<1>>>>, <<<<1>>, <<0>>, <<2>>>>),
     Wish(<<1>>, 1, <<<<1>>>>, <<2>>, <<<<1>>, <<2>>, <<2>>>>, <<>>),
     Wish(<<1>>, 1, <<<<0>>>>, <<2>>, <<>>, <<<<3>>>>),
     Wish(<<1>>, 0, <<<<2>>>>, <<>>, <<>>, <<>>)}
Read(turnNumber) ==
    IF turnNumber = 1
    THEN {NoBrief, Wish(<<1>>, 0, <<<<1>>>>, <<>>, <<>>, <<<<1>>>>),
          Wish(<<>>, 1, <<>>, <<3>>, <<<<2>>>>, <<>>),
          Wish(<<1, 0>>, 1, <<<<2>>, <<1>>>>, <<0>>, <<>>, <<<<0>>>>)}
    ELSE {Wish(<<>>, 1, <<>>, <<2>>, <<>>, <<<<3>>>>),
          Wish(<<2>>, 1, <<<<2>>>>, <<>>, <<<<1>>>>, <<>>)}

----------------------------------------------------------------------------

\* What the choices of the initial states are in a part that rests.
Resting ==
    /\ part # "views" => durable
    /\ part # "rate" => limiterKind = "redis"
    /\ part # "graph" => brief = ABrief /\ toolMode = "test"
    /\ part # "generator" => config = [f \in DOMAIN config |-> TRUE]
    /\ part # "chat" => extractor = "rules"

ServicesInit ==
    /\ part \in Parts
    /\ BusInit /\ AuthInit /\ ViewInit /\ RateInit /\ GraphInit /\ GenInit /\ ChatInit
    /\ Resting

ServicesNext ==
    /\ UNCHANGED part
    /\ \/ /\ part = "bus" /\ BusNext
          /\ UNCHANGED <<authVars, viewVars, rateVars, graphVars, genVars, chatVars>>
       \/ /\ part = "auth" /\ AuthNext
          /\ UNCHANGED <<busVars, viewVars, rateVars, graphVars, genVars, chatVars>>
       \/ /\ part = "views" /\ ViewNext
          /\ UNCHANGED <<busVars, authVars, rateVars, graphVars, genVars, chatVars>>
       \/ /\ part = "rate" /\ RateNext
          /\ UNCHANGED <<busVars, authVars, viewVars, graphVars, genVars, chatVars>>
       \/ /\ part = "graph" /\ GraphNext
          /\ UNCHANGED <<busVars, authVars, viewVars, rateVars, genVars, chatVars>>
       \/ /\ part = "generator" /\ GenNext
          /\ UNCHANGED <<busVars, authVars, viewVars, rateVars, graphVars, chatVars>>
       \/ /\ part = "chat" /\ ChatNext
          /\ UNCHANGED <<busVars, authVars, viewVars, rateVars, graphVars, genVars>>

ServicesSpec == ServicesInit /\ [][ServicesNext]_servicesVars

\* Every variable of the part that runs has its type.
ServicesTypeOK ==
    CASE part = "bus"       -> BusTypeOK
      [] part = "auth"      -> AuthTypeOK
      [] part = "views"     -> ViewTypeOK
      [] part = "rate"      -> RateTypeOK
      [] part = "graph"     -> GraphTypeOK
      [] part = "generator" -> GenTypeOK
      [] part = "chat"      -> ChatTypeOK

\* The things acted on and those that act are interchangeable.
Symmetric == Permutations(Tasks) \cup Permutations(Requests)
=============================================================================
