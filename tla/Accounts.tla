------------------------------- MODULE Accounts -------------------------------
(***************************************************************************)
(* Keys, cards and plans of the accounts (backend/keys.py, billing.py,     *)
(* users.py): the handlers the portal calls and the Stripe webhook, each   *)
(* in the transactions it makes, with Stripe as the environment.  The plan *)
(* of an account is nowhere but on its keys.                               *)
(***************************************************************************)
EXTENDS Integers, FiniteSets, Sequences, PlanCatalog

CONSTANTS
    Users,        \* Auth0 subs
    Links,        \* pairs of subs that Auth0 links, primary first
    Cards,        \* card fingerprints
    NoCard,       \* no card, or one without a fingerprint
    Sold,         \* the plans that are bought
    Calls,        \* requests under way at a time
    Subs,         \* Stripe subscriptions
    Scenarios,    \* what each account does, here and at Stripe: one of these
    Watchers,     \* accounts whose requests a page sends and awaits
    MaxKeys       \* bound on the rows of api_keys when an account makes one

Requests == {"create", "rotate", "checkout", "setup_card", "confirm"}

ASSUME AccountsAssumption ==
    /\ Sold \subseteq PaidIds
    /\ Links \subseteq Users \X Users
    /\ \A l, m \in Links : l[2] = m[1] => <<l[1], m[2]>> \in Links    \* the primary has all identities
    /\ NoCard \notin Cards
    /\ Scenarios \subseteq [Users -> SUBSET (Requests \cup {"switch", "cancel", "again", "outage", "login", "usage", "pricing", "card", "disable", "docs"})]
    /\ Watchers \subseteq Users /\ MaxKeys \in [Users -> Nat]

VARIABLES
    keys,      \* api_keys by created_at, which is when the transaction began
    cards,     \* card_fingerprints
    call,      \* the requests under way, the webhook's included
    subs,      \* Stripe: the subscriptions, with every plan they have been on
    method,    \* Stripe: the customer's last payment method
    sessions,  \* Stripe: checkout sessions still open
    events,    \* Stripe: events no 2xx has answered
    wants,     \* never changes: the scenario
    missed,    \* history: accounts one of whose keys a payment may not reach
    raced      \* history: cards that two accounts check, and keys that two requests rotate

vars == <<keys, cards, call, subs, method, sessions, events, wants, missed, raced>>
stripeVars == <<subs, method, sessions>>
historyVars == <<missed, raced>>

Plans == {"free", "free_plus"} \cup Sold
Row == [user : Users, plan : Plans, status : {"pending", "live", "disabled", "revoked"}]

Event ==
    [type : {"completed", "updated", "deleted"}, user : Users, sub : Subs, plan : Sold]
        \cup [type : {"setup"}, user : Users]
NoEvent == [type |-> "none"]

Sub == [user : Users, plan : Sold, st : {"active", "ended"}, had : SUBSET Sold]
NoSub == [st |-> "none"]

Idle == [op |-> "idle"]
KeyOps == {"list", "create", "rotate", "disable", "enable"}
Ops == KeyOps \cup {"usage", "checkout", "setup_card", "portal", "confirm", "webhook"}
CallRec ==
    [op : Ops, user : Users, st : {"sent", "read", "checked", "done"}, key : Nat,
     new : Nat, plan : Plans, card : Cards \cup {NoCard},
     ev : Event \cup {NoEvent}, ok : BOOLEAN]

-----------------------------------------------------------------------------
(* revoked_at IS NULL, and the row committed *)
IsActive(k) == keys[k].status \in {"live", "disabled"}
ActiveKeys(u) == {k \in DOMAIN keys : keys[k].user = u /\ IsActive(k)}
Newest(ks) == CHOOSE k \in ks : \A j \in ks : j <= k
Oldest(ks) == CHOOSE k \in ks : \A j \in ks : j >= k

HasCard(u) == \E f \in Cards : <<u, f>> \in cards

(* "user's current plan from their other keys or default to 'free'" *)
PlanOfNewKey(u) ==
    IF ActiveKeys(u) = {} THEN "free" ELSE keys[Newest(ActiveKeys(u))].plan

(* The rows an UPDATE api_keys SET plan reaches. *)
WithPlan(ks, p) == [k \in DOMAIN keys |-> IF k \in ks THEN [keys[k] EXCEPT !.plan = p] ELSE keys[k]]

(* A payment that finds no key, or that a transaction which has read the old
   plan outlives, is missed.                                               *)
Misses(u, p) ==
    \/ ActiveKeys(u) = {}
    \/ \E c \in Calls :
          /\ call[c] # Idle
          /\ call[c].op \in {"create", "rotate"} /\ call[c].st = "read"
          /\ keys[call[c].new].user = u /\ keys[call[c].new].plan # p

(* Variant: the newest key only. *)
UpdateNewestPlan(u, p) ==
    /\ keys' = WithPlan({k \in ActiveKeys(u) : k = Newest(ActiveKeys(u))}, p)
    /\ missed' = IF p \in Sold /\ Misses(u, p) THEN missed \cup {u} ELSE missed
    /\ UNCHANGED raced

(* _update_user_plan: all active keys of the user *)
UpdateUserPlan(u, p) ==
    /\ keys' = WithPlan(ActiveKeys(u), p)
    /\ missed' = IF p \in Sold /\ Misses(u, p) THEN missed \cup {u} ELSE missed
    /\ UNCHANGED raced

-----------------------------------------------------------------------------
(* A request reaches the API. *)
NewCall(o, u, k, p, e) ==
    [op |-> o, user |-> u, st |-> "sent", key |-> k, new |-> 0, plan |-> p,
     card |-> NoCard, ev |-> e, ok |-> FALSE]

Send(c, o, u, k, p) ==
    /\ call[c] = Idle
    /\ call' = [call EXCEPT ![c] = NewCall(o, u, k, p, NoEvent)]

At(c, ops, s) == call[c] # Idle /\ call[c].op \in ops /\ call[c].st = s
Go(c, r) == call' = [call EXCEPT ![c] = r] /\ UNCHANGED events
Step(c, s) == Go(c, [call[c] EXCEPT !.st = s])
Answer(c, good) ==
    IF call[c].op = "webhook"
    THEN /\ call' = [call EXCEPT ![c] = Idle]
         /\ \/ good /\ events' = events \ {call[c].ev}
            \/ UNCHANGED events                         \* the 2xx is lost
    ELSE /\ call' = [call EXCEPT ![c] = IF call[c].user \in Watchers THEN [@ EXCEPT !.st = "done", !.ok = good] ELSE Idle]
         /\ UNCHANGED events
AnswerPlan(c, p) == Go(c, [call[c] EXCEPT !.st = "done", !.ok = TRUE, !.plan = p])

(* Any of them may end with an exception before a transaction of its own is
   committed: Turnstile or the database fails, or Stripe sends no JSON.  An
   error status of Stripe's is none: _stripe_request returns the body.     *)
Fail(c) ==
    /\ call[c] # Idle /\ call[c].op # "list" /\ call[c].st # "done"
    /\ Answer(c, FALSE)
    /\ UNCHANGED <<keys, cards, stripeVars, historyVars>>

(* The row gets its created_at when the transaction begins, and is seen
   when it commits.                                                        *)
Insert(u, p) == keys' = Append(keys, [user |-> u, plan |-> p, status |-> "pending"])

CreateRead(c) ==
    /\ At(c, {"create"}, "sent") /\ Len(keys) < MaxKeys[call[c].user]
    /\ Insert(call[c].user, PlanOfNewKey(call[c].user))
    /\ Go(c, [call[c] EXCEPT !.st = "read", !.new = Len(keys) + 1])
    /\ UNCHANGED <<cards, stripeVars, historyVars>>

CreateCommit(c) ==
    /\ At(c, {"create"}, "read")
    /\ keys' = [keys EXCEPT ![call[c].new].status = "live"]
    /\ Answer(c, TRUE)
    /\ UNCHANGED <<cards, stripeVars, historyVars>>

(* Variant: the old row is found by its id and owner, revoked or not. *)
RotatableOnce(u) == {k \in DOMAIN keys : keys[k].user = u /\ keys[k].status # "pending"}

Rotatable(u) == ActiveKeys(u)

(* rotate_key reads the old row before it writes; its UPDATE asks for the id
   only, so a key revoked meanwhile is revoked again and succeeded again.  *)
RotateRead(c) ==
    /\ At(c, {"rotate"}, "sent")
    /\ LET u == call[c].user k == call[c].key IN
       \/ /\ k \in Rotatable(u) /\ Len(keys) < MaxKeys[u]
          /\ Insert(u, keys[k].plan)
          /\ Go(c, [call[c] EXCEPT !.st = "read", !.new = Len(keys) + 1])
          /\ raced' = IF \E d \in Calls \ {c} : At(d, {"rotate"}, "read") /\ call[d].key = k
                      THEN raced \cup {k} ELSE raced
       \/ /\ k \notin Rotatable(u)                                    \* 404
          /\ Answer(c, FALSE) /\ UNCHANGED <<keys, raced>>
    /\ UNCHANGED <<cards, stripeVars, missed>>

RotateCommit(c) ==
    /\ At(c, {"rotate"}, "read")
    /\ keys' = [keys EXCEPT ![call[c].key].status = "revoked", ![call[c].new].status = "live"]
    /\ Answer(c, TRUE)
    /\ UNCHANGED <<cards, stripeVars, historyVars>>

(* disable_key and enable_key are one UPDATE each. *)
Toggle(c) ==
    /\ At(c, {"disable", "enable"}, "sent")
    /\ LET k == call[c].key
           from == IF call[c].op = "disable" THEN "live" ELSE "disabled"
           to == IF call[c].op = "disable" THEN "disabled" ELSE "live"
       IN  \/ /\ k \in ActiveKeys(call[c].user) /\ keys[k].status = from
              /\ keys' = [keys EXCEPT ![k].status = to]
              /\ Answer(c, TRUE)
           \/ /\ ~(k \in ActiveKeys(call[c].user) /\ keys[k].status = from)
              /\ Answer(c, FALSE) /\ UNCHANGED keys
    /\ UNCHANGED <<cards, stripeVars, historyVars>>

-----------------------------------------------------------------------------
(* create_checkout, setup_card and create_portal open a Stripe session.  No
   one asks whether the account has a subscription already.  Without a url,
   a 400 or an error body of Stripe's in a 200, the pages go nowhere.      *)
Opened(c) ==
    LET u == call[c].user IN
    CASE call[c].op = "checkout" -> {[user |-> u, mode |-> "subscription", plan |-> call[c].plan]}
      [] call[c].op = "setup_card" -> {[user |-> u, mode |-> "setup", plan |-> "free_plus"]}
      [] OTHER -> {}

OpenSession(c) ==
    /\ At(c, {"checkout", "setup_card", "portal"}, "sent")
    /\ \/ /\ call[c].op = "checkout" => call[c].plan \in Sold
          /\ sessions' = sessions \cup Opened(c)
          /\ Answer(c, TRUE)
       \/ Answer(c, FALSE) /\ UNCHANGED sessions
    /\ UNCHANGED <<keys, cards, subs, method, historyVars>>

(* get_usage_detailed: the oldest key's plan; without keys Stripe's, and
   without a subscription the card's.                                      *)
SubsOf(u) == {s \in Subs : subs[s] # NoSub /\ subs[s].user = u}
ActiveSubs(u) == {s \in SubsOf(u) : subs[s].st = "active"}

UsageKeys(c) ==
    /\ At(c, {"usage"}, "sent")
    /\ LET ks == ActiveKeys(call[c].user) IN
       IF ks # {} THEN AnswerPlan(c, keys[Oldest(ks)].plan) ELSE Step(c, "read")
    /\ UNCHANGED <<keys, cards, stripeVars, historyVars>>

UsageStripe(c) ==
    /\ At(c, {"usage"}, "read")
    /\ \/ \E s \in ActiveSubs(call[c].user) : AnswerPlan(c, subs[s].plan)
       \/ Step(c, "checked")                     \* none, or Stripe failed
    /\ UNCHANGED <<keys, cards, stripeVars, historyVars>>

(* Variant: a card is taken for granted. *)
UsageNoCard(c) ==
    /\ At(c, {"usage"}, "checked")
    /\ AnswerPlan(c, "free_plus")
    /\ UNCHANGED <<keys, cards, stripeVars, historyVars>>

UsageCard(c) ==
    /\ At(c, {"usage"}, "checked")
    /\ AnswerPlan(c, IF HasCard(call[c].user) THEN "free_plus" ELSE "free")
    /\ UNCHANGED <<keys, cards, stripeVars, historyVars>>

-----------------------------------------------------------------------------
(* The three steps of confirm_free_plus, and of _handle_free_plus_upgrade
   for the webhook: the card of the customer, whose it is, and the commit. *)
IsUpgrade(c, s) ==
    At(c, {"confirm"}, s) \/ (At(c, {"webhook"}, s) /\ call[c].ev.type = "setup")

UpgradeCard(c) ==
    /\ IsUpgrade(c, "sent")
    /\ \/ /\ method[call[c].user] # NoCard
          /\ Go(c, [call[c] EXCEPT !.st = "read", !.card = method[call[c].user]])
       \/ Answer(c, call[c].op = "webhook")       \* no card, or an error body, which names none
    /\ UNCHANGED <<keys, cards, stripeVars, historyVars>>

(* Variant: the account's own card is looked for. *)
OwnHas(f, u) == <<u, f>> \in cards

OthersHave(f, u) == \E v \in Users \ {u} : <<v, f>> \in cards

UpgradeCheck(c) ==
    /\ IsUpgrade(c, "read")
    /\ LET u == call[c].user f == call[c].card IN
       IF OthersHave(f, u) THEN Answer(c, call[c].op = "webhook") /\ UNCHANGED raced
       ELSE /\ Step(c, "checked")
            /\ raced' = IF \E d \in Calls \ {c} : /\ IsUpgrade(d, "checked")
                                                  /\ call[d].card = f /\ call[d].user # u
                        THEN raced \cup {f} ELSE raced
    /\ UNCHANGED <<keys, cards, stripeVars, missed>>

(* Variant: whatever plan they are on. *)
UpgradeAll(u) == ActiveKeys(u)

(* "Upgrade all active keys from free to free_plus" *)
Upgradable(u) == {k \in ActiveKeys(u) : keys[k].plan = "free"}

UpgradeCommit(c) ==
    /\ IsUpgrade(c, "checked")
    /\ LET u == call[c].user IN
       /\ cards' = cards \cup {<<u, call[c].card>>}
       /\ keys' = WithPlan(Upgradable(u), "free_plus")
    /\ Answer(c, TRUE)
    /\ UNCHANGED <<stripeVars, historyVars>>

-----------------------------------------------------------------------------
(* Variant: whoever has paid keeps Free+. *)
PlanWithoutCheck(u) == "free_plus"

PlanWithout(u) == IF HasCard(u) THEN "free_plus" ELSE "free"

(* Stripe answers the webhook's question with an error body, which names no
   price: nothing is written, and the event is acknowledged all the same.  *)
HookDrops(c) ==
    /\ At(c, {"webhook"}, "sent") /\ call[c].ev.type = "completed" /\ "outage" \in wants[call[c].user]
    /\ Answer(c, TRUE)
    /\ missed' = IF events' = events THEN missed ELSE missed \cup {call[c].user}
    /\ UNCHANGED <<keys, cards, stripeVars, raced>>

(* stripe_webhook.  A completed checkout asks Stripe for the subscription as
   it is by then; an update is taken from the event; the end of one goes by
   the card on file.                                                       *)
HookRead(c) ==
    /\ At(c, {"webhook"}, "sent") /\ call[c].ev.type \in {"completed", "deleted"}
    /\ LET e == call[c].ev
           p == IF e.type = "completed" THEN subs[e.sub].plan ELSE PlanWithout(e.user)
       IN  Go(c, [call[c] EXCEPT !.st = "read", !.plan = p])
    /\ UNCHANGED <<keys, cards, stripeVars, historyVars>>

HookWrite(c) ==
    /\ \/ At(c, {"webhook"}, "read") /\ call[c].ev.type \in {"completed", "deleted"}
       \/ At(c, {"webhook"}, "sent") /\ call[c].ev.type = "updated"
    /\ UpdateUserPlan(call[c].user,
                      IF call[c].ev.type = "updated" THEN call[c].ev.plan ELSE call[c].plan)
    /\ Answer(c, TRUE)
    /\ UNCHANGED <<cards, stripeVars>>

(* Events are delivered in any order, and again until a 2xx is seen. *)
Deliver(c, e) ==
    /\ call[c] = Idle
    /\ call' = [call EXCEPT ![c] = NewCall("webhook", e.user, 0, "free", e)]
    /\ UNCHANGED <<keys, cards, stripeVars, events, historyVars>>

-----------------------------------------------------------------------------
(* merge_user_data, from create_session: the keys of a linked account *)
Merge(u, v) ==
    /\ \E k \in DOMAIN keys : keys[k].user = v /\ keys[k].status # "pending"
    /\ keys' = [k \in DOMAIN keys |->
                  IF keys[k].user = v /\ keys[k].status # "pending"
                  THEN [keys[k] EXCEPT !.user = u] ELSE keys[k]]
    /\ missed' = IF ActiveKeys(v) # {} THEN missed \cup {u, v} ELSE missed
    /\ UNCHANGED <<cards, call, stripeVars, events, raced>>

-----------------------------------------------------------------------------
(* Stripe.  A session is paid for or a card entered once; the customer
   changes or ends a subscription on Stripe's pages.                       *)
Emit(e) == events' = events \cup {e}
SubEvent(t, s) == [type |-> t, user |-> subs'[s].user, sub |-> s, plan |-> subs'[s].plan]

Pay(x, s) ==
    /\ x.mode = "subscription" /\ subs[s] = NoSub
    /\ SubsOf(x.user) = {} \/ "again" \in wants[x.user]
    /\ sessions' = sessions \ {x}
    /\ subs' = [subs EXCEPT ![s] = [user |-> x.user, plan |-> x.plan, st |-> "active", had |-> {x.plan}]]
    /\ Emit(SubEvent("completed", s))
    /\ UNCHANGED <<keys, cards, call, method, historyVars>>

EnterCard(x, f) ==
    /\ x.mode = "setup"
    /\ sessions' = sessions \ {x}
    /\ method' = [method EXCEPT ![x.user] = f]
    /\ Emit([type |-> "setup", user |-> x.user])
    /\ UNCHANGED <<keys, cards, call, subs, historyVars>>

(* Stripe.js, or Stripe's own pages: a card without a session of ours *)
AddCard(u, f) ==
    /\ "confirm" \in wants[u] /\ method[u] # f
    /\ method' = [method EXCEPT ![u] = f]
    /\ UNCHANGED <<keys, cards, call, subs, sessions, events, historyVars>>

ChangePlan(s, p) ==
    /\ subs[s].st = "active" /\ subs[s].plan # p /\ "switch" \in wants[subs[s].user]
    /\ subs' = [subs EXCEPT ![s].plan = p, ![s].had = @ \cup {p}]
    /\ Emit(SubEvent("updated", s))
    /\ UNCHANGED <<keys, cards, call, method, sessions, historyVars>>

EndSub(s) ==
    /\ subs[s].st = "active" /\ "cancel" \in wants[subs[s].user]
    /\ subs' = [subs EXCEPT ![s].st = "ended"]
    /\ Emit(SubEvent("deleted", s))
    /\ UNCHANGED <<keys, cards, call, method, sessions, historyVars>>

-----------------------------------------------------------------------------
InitWith(ks, ss) ==
    /\ keys = ks /\ cards = {}
    /\ call = [c \in Calls |-> Idle]
    /\ subs = ss
    /\ method = [u \in Users |-> NoCard]
    /\ sessions = {} /\ events = {}
    /\ wants \in Scenarios
    /\ missed = {} /\ raced = {}

Init == InitWith(<<>>, [s \in Subs |-> NoSub])

Handle(c) ==
    \/ Fail(c)
    \/ CreateRead(c) \/ CreateCommit(c)
    \/ RotateRead(c) \/ RotateCommit(c) \/ Toggle(c)
    \/ OpenSession(c)
    \/ UsageKeys(c) \/ UsageStripe(c) \/ UsageCard(c)
    \/ UpgradeCard(c) \/ UpgradeCheck(c) \/ UpgradeCommit(c)
    \/ HookDrops(c) \/ HookRead(c) \/ HookWrite(c)
    \/ \E e \in events : Deliver(c, e)

Stripe ==
    \/ \E x \in sessions : \E s \in Subs : Pay(x, s)
    \/ \E x \in sessions : \E f \in Cards : EnterCard(x, f)
    \/ \E u \in Users : \E f \in Cards : AddCard(u, f)
    \/ \E s \in Subs : EndSub(s) \/ \E p \in Sold : ChangePlan(s, p)

Env == Stripe \/ \E l \in Links : Merge(l[1], l[2])

(* Clients that ask for anything of their own that changes state, whatever
   the pages offer by then.                                                *)
Client(c) ==
    \E u \in Users \ Watchers : \E o \in wants[u] \cap Requests :
        CASE o = "rotate" -> \E k \in {i \in DOMAIN keys : keys[i].user = u} : Send(c, o, u, k, "free")
          [] o = "checkout" -> \E p \in Sold : Send(c, o, u, 0, p)
          [] OTHER -> Send(c, o, u, 0, "free")

ClientStep(c) == Client(c) /\ UNCHANGED <<keys, cards, stripeVars, events, historyVars>>

Next == (Env \/ \E c \in Calls : ClientStep(c) \/ Handle(c)) /\ UNCHANGED wants

Spec == Init /\ [][Next]_vars

-----------------------------------------------------------------------------
Family(u) == {u} \cup {v \in Users : <<u, v>> \in Links}

TypeOK ==
    /\ keys \in Seq(Row)
    /\ cards \subseteq Users \X Cards
    /\ call \in [Calls -> CallRec \cup {Idle}]
    /\ subs \in [Subs -> Sub \cup {NoSub}]
    /\ sessions \subseteq [user : Users, mode : {"subscription"}, plan : Sold]
                        \cup [user : Users, mode : {"setup"}, plan : {"free_plus"}]
    /\ method \in [Users -> Cards \cup {NoCard}]
    /\ events \subseteq Event

(* A key is on a plan that its account, or one linked to it, has bought; and
   on Free+ with a card recorded: keys copy plans from keys, and webhooks
   come late, twice and in any order.                                      *)
Bought(u, p) == \E v \in Family(u) : \E s \in SubsOf(v) : p \in subs[s].had
PlansAreEarned ==
    \A k \in DOMAIN keys :
        /\ keys[k].plan \in Sold => Bought(keys[k].user, keys[k].plan)
        /\ keys[k].plan = "free_plus" => \E v \in Family(keys[k].user) : HasCard(v)

(* A key leaves a plan that is paid for only when Stripe has ended one of
   the account's subscriptions, never because a card came in late.         *)
PaidEndsAtStripe ==
    [][\A k \in DOMAIN keys :
          keys[k].plan \in Sold /\ keys'[k].plan \notin Sold =>
              \E v \in Family(keys[k].user) : \E s \in SubsOf(v) : subs[s].st = "ended"]_vars

(* Two accounts share a card only if their checks overlapped. *)
SharedOnlyIfRaced ==
    \A f \in Cards : \A u, v \in Users :
        <<u, f>> \in cards /\ <<v, f>> \in cards /\ u # v => f \in raced

(* Nothing that Stripe has said of the account is still to be handled. *)
Settled(u) ==
    /\ \A e \in events : e.user # u
    /\ \A c \in Calls : call[c] # Idle /\ call[c].op = "webhook" => call[c].ev.user # u

(* A subscriber with one subscription that was never changed. *)
PaysFor(u, p) ==
    \E s \in ActiveSubs(u) : SubsOf(u) = {s} /\ subs[s].had = {p}

(* Once the webhook is done, the keys of a subscriber are on the plan that is
   paid for ...                                                            *)
PaidIsServed ==
    \A u \in Users : \A p \in Sold :
        PaysFor(u, p) /\ Settled(u) => \A k \in ActiveKeys(u) : keys[k].plan = p

(* ... unless the payment found no key or met a create or a rotation half
   done, an account with keys was merged, or Stripe's answer to the webhook
   was an error body: no order of events loses it otherwise.               *)
ServedUnlessMissed ==
    \A u \in Users \ missed : \A p \in Sold :
        PaysFor(u, p) /\ Settled(u) => \A k \in ActiveKeys(u) : keys[k].plan = p

-----------------------------------------------------------------------------
(* Why the plans are earned: what is about to be written is earned too. *)
Earned(u, p) ==
    /\ p \in Sold => Bought(u, p)
    /\ p = "free_plus" => \E v \in Family(u) : HasCard(v)
SubFine(s) == subs[s] # NoSub => subs[s].plan \in subs[s].had
EventFine(e) ==
    /\ e.type # "setup" => subs[e.sub] # NoSub /\ subs[e.sub].user = e.user /\ e.plan \in subs[e.sub].had
    /\ e.type = "deleted" => subs[e.sub].st = "ended"

(* A request that makes a key holds a row that no one sees yet; the key it
   rotates is its account's, unless it is revoked or was merged.           *)
Making(c) == At(c, {"create", "rotate"}, "read")
NewRowFine(c) ==
    /\ call[c].new \in DOMAIN keys
    /\ keys[call[c].new].status = "pending" /\ keys[call[c].new].user = call[c].user
OldRowFine(c) ==
    LET k == call[c].key IN
    /\ k \in DOMAIN keys /\ keys[k].status # "pending"
    /\ keys[k].user = call[c].user \/ keys[k].status = "revoked" \/ keys[k].user \in missed
HookFine(c) ==
    /\ call[c].ev \in Event /\ call[c].user = call[c].ev.user /\ EventFine(call[c].ev)
    /\ call[c].st # "done"
    /\ call[c].ev.type # "setup" /\ call[c].st = "read" =>
           /\ Earned(call[c].user, call[c].plan)
           /\ call[c].ev.type = "completed" => call[c].plan \in subs[call[c].ev.sub].had
CallFine(c) ==
    /\ Making(c) => NewRowFine(c)
    /\ Making(c) /\ call[c].op = "rotate" => OldRowFine(c)
    /\ call[c] # Idle /\ call[c].op = "webhook" => HookFine(c)
    /\ IsUpgrade(c, "read") \/ IsUpgrade(c, "checked") => call[c].card \in Cards
OneRowEach == \A c, d \in Calls : Making(c) /\ Making(d) /\ call[c].new = call[d].new => c = d

(* A check that came out well still does, unless it had company. *)
CheckHolds(c) ==
    IsUpgrade(c, "checked") /\ call[c].card \notin raced =>
        /\ ~OthersHave(call[c].card, call[c].user)
        /\ \A d \in Calls : IsUpgrade(d, "checked") /\ call[d].card = call[c].card => call[d].user = call[c].user

(* What a subscriber pays for is on all its keys, those being made included,
   or Stripe has not seen the answer to its checkout.                      *)
Recorded(u, p) ==
    /\ ActiveKeys(u) # {} /\ \A k \in ActiveKeys(u) : keys[k].plan = p
    /\ \A c \in Calls : Making(c) /\ call[c].user = u => keys[call[c].new].plan = p
CheckoutTold(u) == \E e \in events : e.type = "completed" /\ e.user = u
ServedOrTold ==
    \A u \in Users \ missed : \A p \in Sold : PaysFor(u, p) => CheckoutTold(u) \/ Recorded(u, p)

AccountsInv ==
    /\ TypeOK /\ PlansAreEarned /\ SharedOnlyIfRaced
    /\ \A s \in Subs : SubFine(s)
    /\ \A e \in events : EventFine(e)
    /\ \A c \in Calls : CallFine(c) /\ CheckHolds(c)
    /\ OneRowEach /\ ServedOrTold
=============================================================================
