----------------------------- MODULE PlanCatalog -----------------------------
(***************************************************************************)
(* The plan table of shared/plans.config.ts, what is derived from it, and  *)
(* the copies of it that the portal's pages keep.  Prices are in dollars   *)
(* and costs in cents; features, notes and product ids are left out.       *)
(***************************************************************************)
EXTENDS Integers, FiniteSets

Plan(name, price, monthly, minute, cap, llm, order) ==
    [id |-> name, monthlyPrice |-> price, monthlyLimit |-> monthly,
     minuteLimit |-> minute, domainCap |-> cap, hostedLlmMonthly |-> llm,
     displayOrder |-> order, isActive |-> name # "starter",
     isFree |-> name \in {"free", "free_plus"},
     requiresCard |-> name = "free_plus", hideFromMarketing |-> name = "free",
     stripe |-> [test |-> name \notin {"free", "free_plus"},
                 live |-> name \notin {"free", "free_plus", "starter"}]]

PLANS ==
    [free      |-> Plan("free",      0,    500,   30,  30,    0, 0),
     free_plus |-> Plan("free_plus", 0,  10000,  100, 100,   50, 1),
     basic     |-> Plan("basic",     5,  20000,  300, 100,  200, 2),
     pro       |-> Plan("pro",       7,  50000, 1000, 100,  500, 3),
     business  |-> Plan("business",  9, 300000, 3000, 100, 2000, 4),
     starter   |-> Plan("starter",   1,    100,   10, 100,   0, -1)]

PlanIds == DOMAIN PLANS

(* What backend/plans_config.json is made of. *)
Exported(p) ==
    [f \in {"id", "monthlyPrice", "monthlyLimit", "minuteLimit", "domainCap",
            "isActive", "isFree", "requiresCard", "stripe"} |-> PLANS[p][f]]

-----------------------------------------------------------------------------
(* The plans of a set in displayOrder. *)
Ordered(ps) ==
    [i \in 1 .. Cardinality(ps) |->
        CHOOSE p \in ps : Cardinality({q \in ps : q.displayOrder < p.displayOrder}) = i - 1]

ActivePlans == {PLANS[p] : p \in {q \in PlanIds : PLANS[q].isActive}}

getActivePlans == Ordered(ActivePlans)
getPaidPlans == Ordered({p \in ActivePlans : ~p.isFree})
getDisplayPlans == Ordered({p \in ActivePlans : p.id # "free_plus"})
getMarketingPlans == Ordered({p \in ActivePlans : ~p.hideFromMarketing})

PaidIds == {p.id : p \in {q \in ActivePlans : ~q.isFree}}

(* The plans that the webhook can tell from a price of this environment;
   a price stands for its plan.                                            *)
getStripePriceMap(env) == {p.id : p \in {q \in ActivePlans : q.stripe[env]}}

(* toFixed(2) of the price of 100 lookups, in cents; 0 stands for the dash
   of a free plan, and is also what Business at $9 comes to.               *)
getPer100Cost(p) ==
    IF p.isFree THEN 0 ELSE (20000 * p.monthlyPrice + p.monthlyLimit) \div (2 * p.monthlyLimit)

-----------------------------------------------------------------------------
(* The usage page's own table of minute limits; an unknown plan has none. *)
PLAN_RATE_LIMITS(p) ==
    CASE p = "free" -> 30 [] p = "free_plus" -> 100 [] p = "basic" -> 300
      [] p = "pro" -> 1000 [] p = "business" -> 3000 [] OTHER -> 0

(* The docs portal's pricing page has a table of its own, in cents per 100. *)
DocsPLANS ==
    LET Card(p, price, per100, minute) ==
            [key |-> p, price |-> price, per100 |-> per100, rateLimit |-> minute]
    IN  <<Card("free", 0, 0, 30), Card("free_plus", 0, 0, 100), Card("basic", 10, 5, 300),
          Card("pro", 20, 4, 1000), Card("business", 30, 1, 3000)>>
=============================================================================
