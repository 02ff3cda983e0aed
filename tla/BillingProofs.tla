----------------------------- MODULE BillingProofs -----------------------------
(* Proofs about BillingPages: no flag stays up without a reason, and what the
   pages show is so, for any number of calls, subscriptions, cards and links,
   and whatever else the API and Stripe do.                                 *)
EXTENDS BillingPages, AccountsProofs

LEMMA UnknownNotSold == "unknown" \notin Sold
<1>1. ASSUME NEW p \in ActivePlans PROVE p.id # "unknown"
  BY <1>1 DEF ActivePlans, PlanIds, PLANS, Plan
<1>2. QED
  BY <1>1, AccountsAssumption DEF PaidIds

LEMMA UnreadFine ==
    ASSUME NEW p
    PROVE  /\ Unread(p) \in View /\ Unread(p).plan = "unknown" /\ Unread(p).step = "loading"
           /\ Unread(p).busy \subseteq {"fetch"} /\ ~Unread(p).asked
<1>1. ASSUME NEW q \in ActivePlans PROVE q.id \in PlanIds
  BY <1>1 DEF ActivePlans, PlanIds, PLANS, Plan
<1>2. {q.id : q \in ActivePlans} \in SUBSET PlanIds
  BY <1>1
<1>3. QED
  BY <1>2 DEF Unread, View, Handlers

-----------------------------------------------------------------------------
(* Answers, and who awaits them. *)
OthersTrue(c) == OthersAlone(c) /\ StripeGrows /\ \A d \in Calls : AnswerTrue(d)

LEMMA TrueStays ==
    ASSUME NEW d, call'[d] = call[d], StripeGrows, AnswerTrue(d)
    PROVE  AnswerTrue(d)'
<1>1. \A u, p : Earned(u, p) => Earned(u, p)'
  BY EarnedGrows
<1>2. \A u : HasCard(u) => HasCard(u)'
  BY DEF StripeGrows, HasCard
<1>3. QED
  BY <1>1, <1>2 DEF AnswerTrue

LEMMA AnswersStay ==
    ASSUME NEW c \in Calls, OthersTrue(c), AnswerTrue(c)'
    PROVE  \A d \in Calls : AnswerTrue(d)'
BY TrueStays DEF OthersTrue, OthersAlone

LEMMA AnsweredAs ==
    ASSUME TypeOK, NEW c \in Calls, NEW good \in BOOLEAN, call[c] # Idle, Answer(c, good)
    PROVE  call'[c] # Idle => call'[c].op = call[c].op /\ call'[c].user = call[c].user /\ call'[c].ok = good
<1>1. call[c] \in CallRec
  BY DEF TypeOK
<1>2. PICK a : a = [call[c] EXCEPT !.st = "done"]
  OBVIOUS
<1>3. PICK r : r = [a EXCEPT !.ok = good]
  OBVIOUS
<1>4. a \in CallRec /\ a.op = call[c].op /\ a.user = call[c].user
  BY <1>1, <1>2 DEF CallRec
<1>5. r.op = call[c].op /\ r.user = call[c].user /\ r.ok = good
  BY <1>3, <1>4 DEF CallRec
<1>6. [call[c] EXCEPT !.st = "done", !.ok = good] = r
  BY <1>1, <1>2, <1>3 DEF CallRec
<1>7. call'[c] = Idle \/ call'[c] = r
  BY <1>6 DEF Answer, TypeOK
<1>8. QED
  BY <1>5, <1>7

(* A step of the API that answers what no property is about, or refuses. *)
LEMMA AnswerStaysTrue ==
    ASSUME TypeOK, NEW c \in Calls, NEW good \in BOOLEAN, call[c] # Idle, Answer(c, good),
           UNCHANGED <<cards, subs>>, \A d \in Calls : AnswerTrue(d),
           good => call[c].op \notin {"usage", "confirm"}
    PROVE  \A d \in Calls : AnswerTrue(d)'
<1>1. OthersAlone(c)
  BY Answered
<1>2. OthersTrue(c)
  BY <1>1 DEF OthersTrue, StripeGrows
<1>3. AnswerTrue(c)'
  BY AnsweredAs DEF AnswerTrue
<1>4. QED
  BY <1>2, <1>3, AnswersStay

LEMMA GoStaysTrue ==
    ASSUME TypeOK, NEW c \in Calls, NEW r, call' = [call EXCEPT ![c] = r],
           UNCHANGED <<cards, subs>>, \A d \in Calls : AnswerTrue(d),
           r # Idle /\ r.st = "done" /\ r.ok => r.op = "usage" /\ Earned(r.user, r.plan)
    PROVE  \A d \in Calls : AnswerTrue(d)'
<1>1. OthersAlone(c) /\ call'[c] = r
  BY DEF TypeOK, OthersAlone
<1>2. OthersTrue(c)
  BY <1>1 DEF OthersTrue, StripeGrows
<1>3. AnswerTrue(c)'
  <2>1. \A u, p : Earned(u, p) => Earned(u, p)'
    BY <1>2, EarnedGrows DEF OthersTrue
  <2>2. QED
    BY <1>1, <2>1 DEF AnswerTrue
<1>4. QED
  BY <1>2, <1>3, AnswersStay

(* What get_usage_detailed answers: the plan of a key, of a subscription, or
   of the card.                                                            *)
LEMMA AnsweredPlan ==
    ASSUME TypeOK, NEW c \in Calls, call[c] # Idle, call[c].op = "usage", NEW p, AnswerPlan(c, p),
           Earned(call[c].user, p), UNCHANGED <<cards, subs>>, \A d \in Calls : AnswerTrue(d)
    PROVE  \A d \in Calls : AnswerTrue(d)'
<1>1. call[c] \in CallRec
  BY DEF TypeOK
<1>2. PICK r : r = [call[c] EXCEPT !.st = "done", !.ok = TRUE, !.plan = p]
  OBVIOUS
<1>3. r.op = "usage" /\ r.user = call[c].user /\ r.plan = p
  BY <1>1, <1>2 DEF CallRec
<1>4. call' = [call EXCEPT ![c] = r]
  BY <1>2 DEF AnswerPlan, Go
<1>5. QED
  BY <1>3, <1>4, GoStaysTrue

LEMMA UsageIsTrue ==
    ASSUME AccountsInv, NEW c \in Calls, UsageKeys(c) \/ UsageStripe(c) \/ UsageCard(c),
           \A d \in Calls : AnswerTrue(d)
    PROVE  \A d \in Calls : AnswerTrue(d)'
<1> DEFINE u == call[c].user
<1>1. TypeOK /\ call[c] # Idle /\ call[c].op = "usage" /\ call[c] \in CallRec /\ UNCHANGED <<cards, subs>>
  BY DEF AccountsInv, UsageKeys, UsageStripe, UsageCard, At, TypeOK, stripeVars
<1>2. u \in Users /\ u \in Family(u)
  BY <1>1 DEF CallRec, Family
<1>3. "free" \notin Sold /\ "free_plus" \notin Sold
  BY NotSold
<1>4. ASSUME NEW s \in {"read", "checked"}, Step(c, s) PROVE \A d \in Calls : AnswerTrue(d)'
  <2>1. PICK r : r = [call[c] EXCEPT !.st = s]
    OBVIOUS
  <2>2. r.st = s /\ r.st # "done"
    BY <1>1, <2>1 DEF CallRec
  <2>3. call' = [call EXCEPT ![c] = r]
    BY <1>4, <2>1 DEF Step, Go
  <2>4. QED
    BY <1>1, <2>2, <2>3, GoStaysTrue
<1>5. CASE UsageKeys(c)
  <2>1. CASE ActiveKeys(u) = {}
    BY <1>4, <1>5, <2>1 DEF UsageKeys
  <2>2. CASE ActiveKeys(u) # {}
    <3>1. ActiveKeys(u) \in SUBSET Nat
      BY <1>1, KeysAreRows DEF ActiveKeys
    <3>2. PICK m \in ActiveKeys(u) : \A k \in ActiveKeys(u) : m <= k
      BY <2>2, <3>1, Least
    <3>3. Oldest(ActiveKeys(u)) \in ActiveKeys(u)
      <4>1. \A k \in ActiveKeys(u) : k >= m
        BY <3>1, <3>2
      <4>2. \A k \in ActiveKeys(u) : m <= k => k >= m
        BY <3>1, <3>2
      <4>3. QED
        BY <4>1 DEF Oldest
    <3>4. PICK k \in DOMAIN keys : k = Oldest(ActiveKeys(u)) /\ keys[k].user = u
      BY <3>3 DEF ActiveKeys
    <3>5. Earned(u, keys[k].plan)
      BY <3>4 DEF AccountsInv, PlansAreEarned, Earned
    <3>6. AnswerPlan(c, keys[k].plan)
      BY <1>5, <2>2, <3>4 DEF UsageKeys
    <3>7. QED
      BY <1>1, <3>5, <3>6, AnsweredPlan
  <2>3. QED
    BY <2>1, <2>2
<1>6. CASE UsageStripe(c)
  <2>1. CASE Step(c, "checked")
    BY <1>4, <2>1
  <2>2. ASSUME NEW s \in ActiveSubs(u), AnswerPlan(c, subs[s].plan) PROVE \A d \in Calls : AnswerTrue(d)'
    <3>1. s \in Subs /\ s \in SubsOf(u) /\ subs[s] # NoSub
      BY <2>2 DEF ActiveSubs, SubsOf
    <3>2. subs[s].plan \in subs[s].had
      BY <3>1 DEF AccountsInv, SubFine
    <3>3. subs[s].plan \in Sold
      BY <1>1, <3>1 DEF TypeOK, Sub
    <3>4. Earned(u, subs[s].plan)
      BY <1>2, <1>3, <3>1, <3>2, <3>3 DEF Earned, Bought
    <3>5. QED
      BY <1>1, <2>2, <3>4, AnsweredPlan
  <2>3. QED
    BY <1>6, <2>1, <2>2 DEF UsageStripe
<1>7. CASE UsageCard(c)
  <2> DEFINE p == IF HasCard(u) THEN "free_plus" ELSE "free"
  <2>1. Earned(u, p)
    BY <1>2, <1>3 DEF Earned
  <2>2. AnswerPlan(c, p)
    BY <1>7 DEF UsageCard
  <2> HIDE DEF p
  <2>3. QED
    BY <1>1, <2>1, <2>2, AnsweredPlan
<1>8. QED
  BY <1>5, <1>6, <1>7

(* confirm_free_plus answers well once the card is recorded. *)
LEMMA UpgradeIsTrue ==
    ASSUME AccountsInv, NEW c \in Calls, UpgradeCommit(c), \A d \in Calls : AnswerTrue(d)
    PROVE  \A d \in Calls : AnswerTrue(d)'
<1>1. TypeOK /\ call[c] # Idle /\ call[c].op \in {"confirm", "webhook"} /\ Answer(c, TRUE) /\ subs' = subs
      /\ cards' = cards \cup {<<call[c].user, call[c].card>>}
  BY DEF AccountsInv, UpgradeCommit, IsUpgrade, At, stripeVars
<1>2. call[c].card \in Cards
  BY DEF AccountsInv, CallFine, UpgradeCommit
<1>3. \A u : u = call[c].user => HasCard(u)'
  BY <1>1, <1>2 DEF HasCard
<1>4. OthersAlone(c)
  BY <1>1, Answered
<1>5. OthersTrue(c)
  BY <1>1, <1>4 DEF OthersTrue, StripeGrows
<1>6. call'[c] # Idle => call'[c].op = call[c].op /\ call'[c].user = call[c].user
  BY <1>1, AnsweredAs
<1>7. AnswerTrue(c)'
  BY <1>1, <1>3, <1>6 DEF AnswerTrue
<1>8. QED
  BY <1>5, <1>7, AnswersStay

LEMMA HandleTrue ==
    ASSUME AccountsInv, NEW c \in Calls, Handle(c), \A d \in Calls : AnswerTrue(d)
    PROVE  StripeGrows /\ \A d \in Calls : AnswerTrue(d)'
<1>1. TypeOK /\ (call[c] # Idle => call[c] \in CallRec)
  BY DEF AccountsInv, TypeOK
<1>2. subs' = subs /\ cards \subseteq cards'
  BY DEF Handle, Fail, CreateRead, CreateCommit, RotateRead, RotateCommit, Toggle, OpenSession, UsageKeys, UsageStripe,
    UsageCard, UpgradeCard, UpgradeCheck, UpgradeCommit, HookDrops, HookRead, HookWrite, Deliver, stripeVars
<1>3. StripeGrows
  BY <1>2 DEF StripeGrows
<1> SUFFICES \A d \in Calls : AnswerTrue(d)'
  BY <1>3
<1>4. ASSUME NEW good \in BOOLEAN, call[c] # Idle, Answer(c, good), cards' = cards, good => call[c].op \notin {"usage", "confirm"}
      PROVE  \A d \in Calls : AnswerTrue(d)'
  BY <1>1, <1>2, <1>4, AnswerStaysTrue
<1>5. ASSUME call[c] # Idle, cards' = cards,
             \/ \E q : \/ Go(c, [call[c] EXCEPT !.st = "read", !.new = q])
                      \/ Go(c, [call[c] EXCEPT !.st = "read", !.card = q])
                      \/ Go(c, [call[c] EXCEPT !.st = "read", !.plan = q])
             \/ Step(c, "checked")
      PROVE  \A d \in Calls : AnswerTrue(d)'
  <2>1. PICK r : /\ call' = [call EXCEPT ![c] = r]
                 /\ \/ \E q : \/ r = [call[c] EXCEPT !.st = "read", !.new = q]
                             \/ r = [call[c] EXCEPT !.st = "read", !.card = q]
                             \/ r = [call[c] EXCEPT !.st = "read", !.plan = q]
                    \/ r = [call[c] EXCEPT !.st = "checked"]
    BY <1>5 DEF Go, Step
  <2>2. r.st # "done"
    BY <1>1, <1>5, <2>1 DEF CallRec
  <2>3. QED
    BY <1>1, <1>2, <1>5, <2>1, <2>2, GoStaysTrue
<1>6. CASE Fail(c)
  BY <1>4, <1>6 DEF Fail
<1>7. CASE CreateRead(c) \/ RotateRead(c)
  BY <1>4, <1>5, <1>7 DEF CreateRead, RotateRead, At
<1>8. CASE CreateCommit(c) \/ RotateCommit(c) \/ Toggle(c)
  BY <1>4, <1>8 DEF CreateCommit, RotateCommit, Toggle, At
<1>9. CASE OpenSession(c)
  <2>1. PICK good \in BOOLEAN : Answer(c, good)
    BY <1>9 DEF OpenSession
  <2>2. QED
    BY <1>4, <1>9, <2>1 DEF OpenSession, At
<1>10. CASE UsageKeys(c) \/ UsageStripe(c) \/ UsageCard(c)
  BY <1>10, UsageIsTrue
<1>11. CASE UpgradeCard(c) \/ UpgradeCheck(c)
  <2> DEFINE good == call[c].op = "webhook"
  <2>1. good \in BOOLEAN /\ call[c] # Idle /\ (good => call[c].op \notin {"usage", "confirm"}) /\ cards' = cards
    BY <1>11 DEF UpgradeCard, UpgradeCheck, IsUpgrade, At
  <2>2. Answer(c, good) \/ (\E q : Go(c, [call[c] EXCEPT !.st = "read", !.card = q])) \/ Step(c, "checked")
    BY <1>11 DEF UpgradeCard, UpgradeCheck
  <2> HIDE DEF good
  <2>3. QED
    BY <1>4, <1>5, <2>1, <2>2
<1>12. CASE UpgradeCommit(c)
  BY <1>12, UpgradeIsTrue
<1>13. CASE HookWrite(c)
  BY <1>4, <1>13 DEF HookWrite, At
<1>14. CASE HookRead(c) \/ HookDrops(c)
  BY <1>4, <1>5, <1>14 DEF HookRead, HookDrops, At
<1>15. CASE \E e \in events : Deliver(c, e)
  <2>1. PICK e \in events : Deliver(c, e)
    BY <1>15
  <2>2. PICK r : r = NewCall("webhook", e.user, 0, "free", e)
    OBVIOUS
  <2>3. r.st = "sent" /\ call' = [call EXCEPT ![c] = r] /\ cards' = cards
    BY <2>1, <2>2 DEF NewCall, Deliver
  <2>4. QED
    BY <1>1, <1>2, <2>3, GoStaysTrue
<1>16. QED
  BY <1>6, <1>7, <1>8, <1>9, <1>10, <1>11, <1>12, <1>13, <1>14, <1>15 DEF Handle

-----------------------------------------------------------------------------
(* Whoever is awaited still is, when no request of the account is taken away. *)
(* The flags of the page, with what the induction needs. *)
BusyFine == BusyHasReason /\ FlagHasCall

Kept(d) == OwnCall(d) => OwnCall(d)' /\ call'[d].op = call[d].op

LEMMA AwaitsStay ==
    ASSUME TabTypeOK, AwaitsOwn, UNCHANGED <<wait, stray>>, \A d \in Calls : Kept(d)
    PROVE  AwaitsOwn'
<1>1. \A h \in Handlers : wait[h] # None => wait[h] \in Calls
  BY DEF TabTypeOK
<1>2. QED
  BY <1>1 DEF AwaitsOwn, TabTypeOK, Kept

(* The tab as it was, whatever goes on behind it. *)
LEMMA BehindTheTab ==
    ASSUME BillingInv, AccountsInv', StripeGrows, UNCHANGED docVars,
           \A d \in Calls : AnswerTrue(d)' /\ Kept(d)
    PROVE  BillingInv'
<1>1. AwaitsOwn'
  BY AwaitsStay DEF BillingInv, docVars
<1>2. Earned(Me, view.plan) => Earned(Me, view.plan)'
  <2>1. PICK p : p = view.plan
    OBVIOUS
  <2>2. Earned(Me, p) => Earned(Me, p)'
    BY EarnedGrows
  <2>3. QED
    BY <2>1, <2>2 DEF docVars, Earned
<1>3. ShownWasEarned'
  BY <1>2 DEF BillingInv, ShownWasEarned, Earned
<1>4. HasCard(Me) => HasCard(Me)'
  BY DEF StripeGrows, HasCard
<1>5. SuccessIsRecorded'
  BY <1>4 DEF BillingInv, SuccessIsRecorded, docVars
<1>6. BusyFine' /\ TabTypeOK'
  BY DEF BillingInv, BusyFine, BusyHasReason, FlagHasCall, LeftUp, TabTypeOK, docVars
<1>7. QED
  BY <1>1, <1>3, <1>5, <1>6 DEF BillingInv, BusyFine

LEMMA ServerStep ==
    ASSUME BillingInv, Server
    PROVE  BillingInv'
<1>1. UNCHANGED docVars
  BY DEF Server
<1>2. TypeOK
  BY DEF BillingInv, AccountsInv
<1>3. ASSUME NEW c \in Calls, Handle(c) PROVE BillingInv'
  <2>1. AccountsInv' /\ StripeGrows /\ \A d \in Calls : AnswerTrue(d)'
    BY <1>3, HandleKeeps, HandleTrue DEF BillingInv
  <2>2. \A d \in Calls : Kept(d)
    BY <1>3, HandleMoves DEF BillingInv, OwnMoves, Kept
  <2>3. QED
    BY <1>1, <2>1, <2>2, BehindTheTab
<1>4. ASSUME NEW c \in Calls, OtherTab(c) PROVE BillingInv'
  <2>1. PICK r : r = NewCall("create", Me, 0, "free", NoEvent)
    OBVIOUS
  <2>2. call[c] = Idle /\ call' = [call EXCEPT ![c] = r] /\ UNCHANGED backVars /\ r.st = "sent"
    BY <1>4, <2>1 DEF OtherTab, Send, NewCall
  <2>3. AccountsInv'
    BY <2>1, <2>2, PageSends DEF BillingInv, KeyOps
  <2>4. StripeGrows /\ UNCHANGED <<cards, subs>>
    BY <2>2 DEF StripeGrows, backVars
  <2>5. \A d \in Calls : AnswerTrue(d)'
    BY <1>2, <2>2, <2>4, GoStaysTrue DEF BillingInv
  <2>6. \A d \in Calls : Kept(d)
    BY <1>2, <2>2 DEF Kept, OwnCall, TypeOK
  <2>7. QED
    BY <1>1, <2>3, <2>4, <2>5, <2>6, BehindTheTab
<1>5. QED
  BY <1>3, <1>4 DEF Server

-----------------------------------------------------------------------------
(* A page that is mounted afresh, in its document or a new one.  The calls
   of the old one are strays of the document, or nobody's.                *)
LEMMA Remounted ==
    ASSUME BillingInv, AccountsInv', StripeGrows, \A d \in Calls : AnswerTrue(d)' /\ Kept(d),
           NEW p, view' = Unread(p), wait' = NoWait,
           stray' = {} \/ stray' = stray \cup ({wait[h] : h \in Handlers} \ {None})
    PROVE  BillingInv'
<1>1. wait' \in [Handlers -> Calls \cup {None}] /\ \A h \in Handlers : wait'[h] = None
  BY DEF NoWait
<1>2. \A h \in Handlers : wait[h] # None => wait[h] \in Calls /\ OwnCall(wait[h])
  BY DEF BillingInv, TabTypeOK, AwaitsOwn
<1>3. ASSUME NEW d \in stray' PROVE d \in Calls /\ OwnCall(d)
  BY <1>2, <1>3 DEF BillingInv, TabTypeOK, AwaitsOwn
<1>4. TabTypeOK' /\ AwaitsOwn'
  <2>1. stray' \subseteq Calls /\ \A d \in stray' : OwnCall(d)'
    BY <1>3 DEF Kept
  <2>2. QED
    BY <1>1, <2>1, UnreadFine DEF TabTypeOK, AwaitsOwn
<1>5. BusyFine'
  BY UnreadFine DEF BusyFine, BusyHasReason, FlagHasCall, LeftUp
<1>6. SuccessIsRecorded' /\ ShownWasEarned'
  BY UnreadFine, UnknownNotSold DEF SuccessIsRecorded, ShownWasEarned
<1>7. QED
  BY <1>4, <1>5, <1>6 DEF BillingInv, BusyFine

(* Nothing behind the tab moves. *)
LEMMA NothingBehind ==
    ASSUME BillingInv, UNCHANGED <<backVars, call>>
    PROVE  AccountsInv' /\ StripeGrows /\ \A d \in Calls : AnswerTrue(d)' /\ Kept(d)
<1>1. UNCHANGED vars /\ UNCHANGED <<cards, subs>>
  BY DEF backVars, vars, stripeVars, historyVars
<1>2. AccountsInv'
  BY <1>1, Stutter DEF BillingInv
<1>3. StripeGrows
  BY <1>1 DEF StripeGrows
<1>4. \A d \in Calls : AnswerTrue(d)'
  BY <1>3, TrueStays DEF BillingInv
<1>5. QED
  BY <1>2, <1>3, <1>4 DEF Kept, OwnCall

(* What Stripe does changes no request. *)
LEMMA StripeBehind ==
    ASSUME BillingInv,
           \/ \E x \in sessions : \E s \in Subs : Pay(x, s)
           \/ \E x \in sessions : \E f \in Cards : EnterCard(x, f)
           \/ \E s \in Subs : EndSub(s) \/ \E p \in Sold : ChangePlan(s, p)
    PROVE  AccountsInv' /\ StripeGrows /\ \A d \in Calls : AnswerTrue(d)' /\ Kept(d)
<1>1. AccountsInv'
  BY PayKeeps, CardKeeps, EndSubKeeps, ChangePlanKeeps DEF BillingInv
<1>2. call' = call /\ cards' = cards
  BY DEF Pay, EnterCard, EndSub, ChangePlan
<1>3. \A s \in Subs : subs[s] # NoSub => subs[s] \in Sub
  BY DEF BillingInv, AccountsInv, TypeOK
<1>4. ASSUME NEW s \in Subs, subs[s] # NoSub
      PROVE  /\ subs'[s] # NoSub /\ subs'[s].user = subs[s].user /\ subs[s].had \subseteq subs'[s].had
             /\ subs[s].st = "ended" => subs'[s].st = "ended"
  <2>1. subs \in [Subs -> Sub \cup {NoSub}]
    BY DEF BillingInv, AccountsInv, TypeOK
  <2>2. subs[s] \in Sub /\ NoSub.st # "active" /\ NoSub.st # "ended"
    BY <1>3, <1>4 DEF NoSub
  <2>3. CASE \E x \in sessions : \E z \in Subs : Pay(x, z)
    BY <1>4, <2>1, <2>3 DEF Pay
  <2>4. CASE \E x \in sessions : \E f \in Cards : EnterCard(x, f)
    BY <1>4, <2>4 DEF EnterCard
  <2>5. ASSUME NEW z \in Subs, EndSub(z)
        PROVE  /\ subs'[s] # NoSub /\ subs'[s].user = subs[s].user /\ subs[s].had \subseteq subs'[s].had
               /\ subs[s].st = "ended" => subs'[s].st = "ended"
    <3>1. PICK r : r = [subs[s] EXCEPT !.st = "ended"]
      OBVIOUS
    <3>2. r.st = "ended" /\ r.user = subs[s].user /\ r.had = subs[s].had
      BY <2>2, <3>1 DEF Sub
    <3>3. subs'[s] = subs[s] \/ subs'[s] = r
      BY <2>1, <2>5, <3>1 DEF EndSub
    <3>4. QED
      BY <1>4, <2>2, <3>2, <3>3
  <2>6. ASSUME NEW z \in Subs, NEW p \in Sold, ChangePlan(z, p)
        PROVE  /\ subs'[s] # NoSub /\ subs'[s].user = subs[s].user /\ subs[s].had \subseteq subs'[s].had
               /\ subs[s].st = "ended" => subs'[s].st = "ended"
    <3>1. PICK a : a = [subs[s] EXCEPT !.plan = p]
      OBVIOUS
    <3>2. PICK r : r = [a EXCEPT !.had = subs[s].had \cup {p}]
      OBVIOUS
    <3>3. a \in Sub /\ a.st = subs[s].st /\ a.user = subs[s].user /\ a.had = subs[s].had
      BY <2>2, <3>1 DEF Sub
    <3>4. r.st = subs[s].st /\ r.user = subs[s].user /\ r.had = subs[s].had \cup {p} /\ r \in Sub
      BY <2>2, <3>2, <3>3 DEF Sub
    <3>5. r = [subs[s] EXCEPT !.plan = p, !.had = @ \cup {p}]
      BY <2>2, <3>1, <3>2 DEF Sub
    <3>6. subs'[s] = subs[s] \/ subs'[s] = r
      BY <2>1, <2>6, <3>5 DEF ChangePlan
    <3>7. r # NoSub
      BY <2>2, <3>4 DEF Sub, NoSub
    <3>8. QED
      BY <1>4, <2>2, <3>4, <3>6, <3>7
  <2>7. QED
    BY <2>3, <2>4, <2>5, <2>6
<1>5. StripeGrows
  BY <1>2, <1>4 DEF StripeGrows
<1>6. \A d \in Calls : AnswerTrue(d)'
  BY <1>2, <1>5, TrueStays DEF BillingInv
<1>7. QED
  BY <1>1, <1>2, <1>5, <1>6 DEF Kept, OwnCall

-----------------------------------------------------------------------------
(* The handlers of a page: what a step that moves no money has to show. *)
LEMMA PageMoves ==
    ASSUME BillingInv, AccountsInv', TabTypeOK', AwaitsOwn', \A d \in Calls : AnswerTrue(d)',
           UNCHANGED <<cards, subs>>, BusyFine',
           view'.plan = view.plan \/ Earned(Me, view'.plan),
           (page' = page /\ view'.step = view.step) \/ view'.step # "success" \/ HasCard(Me)
    PROVE  BillingInv'
<1>1. Earned(Me, view.plan)
  BY DEF BillingInv, ShownWasEarned, Earned
<1>2. Earned(Me, view'.plan)
  BY <1>1
<1>3. ShownWasEarned'
  BY <1>2 DEF Earned, ShownWasEarned, Bought, SubsOf, HasCard
<1>4. SuccessIsRecorded'
  BY DEF BillingInv, SuccessIsRecorded, HasCard
<1>5. QED
  BY <1>3, <1>4 DEF BillingInv, BusyFine

LEMMA OpsOf ==
    ASSUME NEW h \in Handlers
    PROVE  /\ OpOf(h) \in Ops \ {"webhook"}
           /\ \A g \in Handlers : OpOf(g) = OpOf(h) => g = h
BY DEF OpOf, Handlers, Ops, KeyOps

LEMMA AskAwaits ==
    ASSUME BillingInv, NEW c \in Calls, NEW h \in Handlers, NEW p \in Plans, wait[h] = None,
           Send(c, OpOf(h), Me, 0, p), wait' = [wait EXCEPT ![h] = c],
           UNCHANGED <<stray, cards, subs>>
    PROVE  /\ AwaitsOwn' /\ wait' \in [Handlers -> Calls \cup {None}] /\ stray' \subseteq Calls
           /\ wait'[h] # None /\ \A g \in Handlers \ {h} : wait'[g] = wait[g]
           /\ \A d \in Calls : AnswerTrue(d)'
<1>1. TypeOK /\ TabTypeOK /\ AwaitsOwn
  BY DEF BillingInv, AccountsInv
<1>2. PICK r : r = NewCall(OpOf(h), Me, 0, p, NoEvent)
  OBVIOUS
<1>3. r \in CallRec /\ r.op = OpOf(h) /\ r.user = Me /\ r.st = "sent"
  <2>1. r \in CallRec
    BY <1>2, OpsOf, Me_is_User, NewCallType
  <2>2. QED
    BY <1>2, <2>1 DEF NewCall
<1>4. call[c] = Idle /\ call' = [call EXCEPT ![c] = r]
  BY <1>2 DEF Send
<1>5. call'[c] = r /\ \A d \in Calls \ {c} : call'[d] = call[d]
  BY <1>1, <1>4 DEF TypeOK
<1>6. OwnCall(c)' /\ call'[c].op = OpOf(h) /\ ~OwnCall(c)
  <2>1. r.op \in Ops /\ Idle.op \notin Ops
    BY <1>3 DEF CallRec, Idle, Ops, KeyOps
  <2>2. QED
    BY <1>3, <1>4, <1>5, <2>1, OpsOf DEF OwnCall
<1>7. \A d \in Calls : OwnCall(d) => OwnCall(d)' /\ call'[d].op = call[d].op
  BY <1>5, <1>6 DEF OwnCall
<1>8. /\ wait' \in [Handlers -> Calls \cup {None}] /\ stray' \subseteq Calls
      /\ wait'[h] = c /\ \A g \in Handlers \ {h} : wait'[g] = wait[g]
  BY <1>1 DEF TabTypeOK
<1>9. \A d \in Calls : AnswerTrue(d)'
  BY <1>1, <1>3, <1>4, GoStaysTrue DEF BillingInv
<1>10. c # None
  BY BillingAssumption
<1>11. AwaitsOwn'
  <2>1. \A d \in stray : d \in Calls /\ OwnCall(d) /\ d # c
    BY <1>1, <1>6 DEF TabTypeOK, AwaitsOwn
  <2>2. ASSUME NEW g \in Handlers \ {h}, NEW d, d = wait'[g], d # None
        PROVE  d \in Calls /\ OwnCall(d)' /\ call'[d].op = OpOf(g) /\ d \notin stray'
    <3>1. d \in Calls /\ OwnCall(d) /\ call[d].op = OpOf(g) /\ d \notin stray
      BY <1>1, <1>8, <2>2 DEF TabTypeOK, AwaitsOwn
    <3>2. QED
      BY <1>7, <3>1
  <2>3. ASSUME NEW d, d = wait'[h]
        PROVE  d \in Calls /\ OwnCall(d)' /\ call'[d].op = OpOf(h) /\ d \notin stray'
    BY <1>6, <1>8, <2>1, <2>3
  <2>4. \A d \in stray' : OwnCall(d)'
    BY <1>7, <2>1
  <2>5. QED
    BY <2>2, <2>3, <2>4 DEF AwaitsOwn, OwnCall
<1>12. QED
  BY <1>8, <1>9, <1>10, <1>11

(* The page raises the flag of the handler that asks, and no other. *)
Raises(h) ==
    /\ view' \in View /\ view'.plan = view.plan /\ view'.step = view.step
    /\ view'.busy \subseteq view.busy \cup {h}
    /\ h # "fetch" => view'.asked = view.asked

LEMMA AskStep ==
    ASSUME BillingInv, NEW c \in Calls, NEW h \in Handlers \ {"submit"}, NEW p \in Plans,
           Ask(c, h, OpOf(h), p), Raises(h)
    PROVE  BillingInv'
<1>1. /\ wait[h] = None /\ Send(c, OpOf(h), Me, 0, p) /\ wait' = [wait EXCEPT ![h] = c]
      /\ UNCHANGED <<page, stray, leaving, doc, backVars, cards, subs>>
  BY DEF Ask, backVars
<1>2. /\ AwaitsOwn' /\ wait' \in [Handlers -> Calls \cup {None}] /\ stray' \subseteq Calls
      /\ wait'[h] # None /\ \A g \in Handlers \ {h} : wait'[g] = wait[g]
      /\ \A d \in Calls : AnswerTrue(d)'
  BY <1>1, AskAwaits
<1>3. AccountsInv'
  <2>1. call' = [call EXCEPT ![c] = NewCall(OpOf(h), Me, 0, p, NoEvent)]
    BY <1>1 DEF Send
  <2>2. QED
    BY <1>1, <2>1, OpsOf, Me_is_User, SendKeeps DEF BillingInv, backVars, stripeVars
<1>4. BusyFine'
  BY <1>1, <1>2 DEF Raises, BillingInv, BusyFine, BusyHasReason, FlagHasCall, LeftUp
<1>5. QED
  BY <1>1, <1>2, <1>3, <1>4, PageMoves DEF Raises, TabTypeOK

LEMMA PlansThere == {"free", "free_plus"} \cup Sold \subseteq Plans
BY DEF Plans

LEMMA Asked ==
    ASSUME BillingInv, NEW c \in Calls,
           \/ Fetches(c) \/ handleUpgradeFreePlus(c) \/ handleCancelSubscription(c)
           \/ handleManageBilling(c) \/ handleSetupCard(c)
           \/ \E p \in Sold \cup {"free"} : p # "free" /\ handleSelectPlan(c, p)
    PROVE  BillingInv'
<1>1. view \in View
  BY DEF BillingInv, TabTypeOK
<1>2. /\ OpOf("fetch") = "usage" /\ OpOf("select") = "checkout" /\ OpOf("freeplus") = "setup_card"
      /\ OpOf("portal") = "portal"
  BY DEF OpOf
<1>3. {"fetch", "select", "freeplus", "portal"} \subseteq Handlers \ {"submit"}
  BY DEF Handlers
<1>4. ASSUME NEW h \in Handlers \ {"submit"}, view' = [view EXCEPT !.busy = @ \cup {h}]
      PROVE  Raises(h)
  BY <1>1, <1>4 DEF Raises, View
<1>5. CASE fetchPlan(c)
  <2>1. Ask(c, "fetch", "usage", "free") /\ view' = [view EXCEPT !.asked = TRUE]
    BY <1>5 DEF fetchPlan
  <2>2. Raises("fetch")
    BY <1>1, <2>1 DEF Raises, View
  <2>3. QED
    BY <1>2, <1>3, <2>1, <2>2, PlansThere, AskStep
<1>6. CASE UsageEffect(c) \/ Retry(c)
  <2>1. /\ Ask(c, "fetch", "usage", "free")
        /\ view' = [view EXCEPT !.asked = TRUE, !.busy = @ \cup {"fetch"}, !.error = FALSE]
    BY <1>6 DEF UsageEffect, Retry, fetchUsage
  <2>2. Raises("fetch")
    BY <1>1, <1>3, <2>1 DEF Raises, View
  <2>3. QED
    BY <1>2, <1>3, <2>1, <2>2, PlansThere, AskStep
<1>7. CASE handleUpgradeFreePlus(c) \/ handleSetupCard(c)
  <2>1. Ask(c, "freeplus", "setup_card", "free_plus") /\ view' = [view EXCEPT !.busy = @ \cup {"freeplus"}]
    BY <1>7 DEF handleUpgradeFreePlus, handleSetupCard
  <2>2. QED
    BY <1>2, <1>3, <1>4, <2>1, PlansThere, AskStep
<1>8. CASE handleCancelSubscription(c) \/ handleManageBilling(c)
  <2>1. Ask(c, "portal", "portal", "free") /\ view' = [view EXCEPT !.busy = @ \cup {"portal"}]
    BY <1>8 DEF handleCancelSubscription, handleManageBilling
  <2>2. QED
    BY <1>2, <1>3, <1>4, <2>1, PlansThere, AskStep
<1>9. CASE \E p \in Sold \cup {"free"} : p # "free" /\ handleSelectPlan(c, p)
  <2>1. PICK p \in Sold : Ask(c, "select", "checkout", p) /\ view' = [view EXCEPT !.busy = @ \cup {"select"}]
    BY <1>9 DEF handleSelectPlan
  <2>2. QED
    BY <1>2, <1>3, <1>4, <2>1, PlansThere, AskStep
<1>10. QED
  BY <1>5, <1>6, <1>7, <1>8, <1>9 DEF Fetches

-----------------------------------------------------------------------------
(* An answer is read, or lost, and its handler awaits no more. *)
Released(c) ==
    \/ wait' = wait /\ c \in stray /\ stray' = stray \ {c}
    \/ stray' = stray /\ \E h \in Handlers : wait[h] = c /\ wait' = [wait EXCEPT ![h] = None]

LEMMA EndsAwaits ==
    ASSUME BillingInv, NEW c \in Calls, NEW good \in BOOLEAN, Ends(c, good), Released(c)
    PROVE  /\ AccountsInv' /\ AwaitsOwn' /\ wait' \in [Handlers -> Calls \cup {None}] /\ stray' \subseteq Calls
           /\ \A d \in Calls : AnswerTrue(d)'
           /\ UNCHANGED <<page, doc, cards, subs>>
           /\ \A g \in Handlers : wait[g] # c => wait'[g] = wait[g]
<1>1. TypeOK /\ TabTypeOK /\ AwaitsOwn
  BY DEF BillingInv, AccountsInv
<1>2. call' = [call EXCEPT ![c] = Idle] /\ UNCHANGED <<page, doc, backVars>>
  BY DEF Ends
<1>3. AccountsInv'
  BY <1>2, PageForgets DEF BillingInv
<1>4. UNCHANGED <<cards, subs>>
  BY <1>2 DEF backVars
<1>5. \A d \in Calls : AnswerTrue(d)'
  BY <1>1, <1>2, <1>4, GoStaysTrue DEF BillingInv
<1>6. \A d \in Calls \ {c} : OwnCall(d) => OwnCall(d)' /\ call'[d].op = call[d].op
  BY <1>1, <1>2 DEF OwnCall, TypeOK
<1>7. /\ wait' \in [Handlers -> Calls \cup {None}] /\ stray' \subseteq stray /\ c \notin stray'
      /\ \A g \in Handlers : /\ wait'[g] # None => wait'[g] = wait[g] /\ wait[g] # c
                             /\ wait[g] # c => wait'[g] = wait[g]
  <2>1. CASE wait' = wait /\ c \in stray /\ stray' = stray \ {c}
    BY <1>1, <2>1 DEF TabTypeOK, AwaitsOwn
  <2>2. ASSUME NEW h \in Handlers, stray' = stray, wait[h] = c, wait' = [wait EXCEPT ![h] = None]
        PROVE  /\ wait' \in [Handlers -> Calls \cup {None}] /\ stray' \subseteq stray /\ c \notin stray'
               /\ \A g \in Handlers : /\ wait'[g] # None => wait'[g] = wait[g] /\ wait[g] # c
                                      /\ wait[g] # c => wait'[g] = wait[g]
    <3>1. c # None
      BY BillingAssumption
    <3>2. \A g \in Handlers : wait[g] = c => g = h
      BY <1>1, <2>2, <3>1, OpsOf DEF AwaitsOwn
    <3>3. QED
      BY <1>1, <2>2, <3>1, <3>2 DEF TabTypeOK, AwaitsOwn
  <2>3. QED
    BY <2>1, <2>2 DEF Released
<1>8. AwaitsOwn'
  <2>1. ASSUME NEW g \in Handlers, NEW d, d = wait'[g], d # None
        PROVE  d \in Calls /\ OwnCall(d)' /\ call'[d].op = OpOf(g) /\ d \notin stray'
    <3>1. d = wait[g] /\ d # c /\ d \in Calls /\ OwnCall(d) /\ call[d].op = OpOf(g) /\ d \notin stray
      BY <1>1, <1>7, <2>1 DEF TabTypeOK, AwaitsOwn
    <3>2. QED
      BY <1>6, <1>7, <3>1
  <2>2. \A d \in stray' : OwnCall(d)'
    BY <1>1, <1>6, <1>7 DEF TabTypeOK, AwaitsOwn
  <2>3. QED
    BY <2>1, <2>2 DEF AwaitsOwn, OwnCall
<1>9. QED
  BY <1>1, <1>2, <1>3, <1>4, <1>5, <1>7, <1>8 DEF TabTypeOK

(* The page lowers the flag of the handler that ends, or is about to leave. *)
Lowers(h) ==
    /\ view' \in View /\ view'.asked = view.asked
    /\ view'.busy \subseteq view.busy
    /\ h \notin view'.busy \/ (leaving' # Nowhere /\ h \in {"select", "freeplus"})
    /\ leaving # Nowhere => leaving' # Nowhere

LEMMA EndStep ==
    ASSUME BillingInv, NEW c \in Calls, NEW good \in BOOLEAN, Ends(c, good), NEW h \in Handlers, wait[h] = c,
           wait' = [wait EXCEPT ![h] = None], stray' = stray, Lowers(h),
           view'.plan = view.plan \/ Earned(Me, view'.plan),
           view'.step = view.step \/ view'.step # "success" \/ HasCard(Me)
    PROVE  BillingInv'
<1>1. Released(c)
  BY DEF Released
<1>2. /\ AccountsInv' /\ AwaitsOwn' /\ wait' \in [Handlers -> Calls \cup {None}] /\ stray' \subseteq Calls
      /\ \A d \in Calls : AnswerTrue(d)'
      /\ UNCHANGED <<page, doc, cards, subs>>
      /\ \A g \in Handlers : wait[g] # c => wait'[g] = wait[g]
  BY <1>1, EndsAwaits
<1>3. \A g \in Handlers \ {h} : wait'[g] = wait[g]
  BY DEF BillingInv, TabTypeOK
<1>4. BusyFine'
  BY <1>2, <1>3 DEF Lowers, BillingInv, BusyFine, BusyHasReason, FlagHasCall, LeftUp, TabTypeOK, View
<1>5. QED
  BY <1>2, <1>4, PageMoves DEF Lowers, TabTypeOK

LEMMA UrlLeads == ASSUME NEW c PROVE Url(c) # Nowhere
BY DEF Url, Nowhere

LEMMA ReadsTruth ==
    ASSUME BillingInv, NEW c \in Calls, NEW h \in Handlers, wait[h] = c, NEW good \in BOOLEAN, Ends(c, good), good
    PROVE  /\ h = "fetch" => Earned(Me, call[c].plan) /\ call[c].plan \in Plans
           /\ h = "submit" => HasCard(Me)
<1>1. call[c] # Idle /\ call[c].user = Me /\ call[c].op = OpOf(h) /\ call[c].st = "done" /\ call[c].ok
  BY BillingAssumption DEF BillingInv, AwaitsOwn, OwnCall, Ends
<1>2. call[c] \in CallRec
  BY <1>1 DEF BillingInv, AccountsInv, TypeOK
<1>3. OpOf("fetch") = "usage" /\ OpOf("submit") = "confirm"
  BY DEF OpOf
<1>4. AnswerTrue(c)
  BY DEF BillingInv
<1>5. QED
  BY <1>1, <1>2, <1>3, <1>4 DEF AnswerTrue, CallRec

LEMMA AnswerStep ==
    ASSUME BillingInv, NEW c \in Calls, NEW good \in BOOLEAN,
           \/ FetchEnds(c, good) \/ RedirectEnds("select", c, good) \/ RedirectEnds("freeplus", c, good)
           \/ PortalEnds(c, good) \/ SubmitEnds(c, good) \/ StrayEnds(c, good)
    PROVE  BillingInv'
<1>1. view \in View
  BY DEF BillingInv, TabTypeOK
<1>2. Handlers = {"fetch", "select", "freeplus", "portal", "submit"}
  BY DEF Handlers
<1>3. CASE FetchEnds(c, good)
  <2> DEFINE p == IF good THEN call[c].plan ELSE view.plan
             e == page = "usage" /\ ~good
  <2>1. wait["fetch"] = c /\ Ends(c, good) /\ wait' = [wait EXCEPT !["fetch"] = None] /\ UNCHANGED <<stray, leaving>>
    BY <1>3 DEF FetchEnds
  <2>2. view' = [view EXCEPT !.plan = p, !.busy = @ \ {"fetch"}, !.error = e]
    BY <1>3 DEF FetchEnds
  <2>3. p = view.plan \/ (Earned(Me, p) /\ p \in Plans)
    BY <1>2, <2>1, ReadsTruth
  <2>4. e \in BOOLEAN /\ p \in Plans \cup {"unknown"}
    BY <1>1, <2>3 DEF View
  <2> HIDE DEF p, e
  <2>5. view' \in View /\ view'.plan = p /\ view'.busy = view.busy \ {"fetch"} /\ view'.asked = view.asked /\ view'.step = view.step
    BY <1>1, <2>2, <2>4 DEF View
  <2>6. Lowers("fetch")
    BY <2>1, <2>5 DEF Lowers
  <2>7. QED
    BY <1>2, <2>1, <2>3, <2>5, <2>6, EndStep
<1>4. ASSUME NEW h \in {"select", "freeplus"}, RedirectEnds(h, c, good) PROVE BillingInv'
  <2>1. wait[h] = c /\ Ends(c, good) /\ wait' = [wait EXCEPT ![h] = None] /\ stray' = stray
    BY <1>4 DEF RedirectEnds
  <2>2. Lowers(h) /\ view'.plan = view.plan /\ view'.step = view.step
    <3>1. CASE good
      <4>1. leaving' # Nowhere /\ view' = view
        BY <1>4, <3>1, UrlLeads DEF RedirectEnds
      <4>2. QED
        BY <1>1, <4>1 DEF Lowers
    <3>2. CASE ~good
      <4>1. leaving' = leaving /\ view' = [view EXCEPT !.busy = @ \ {h}]
        BY <1>4, <3>2 DEF RedirectEnds
      <4>2. QED
        BY <1>1, <4>1 DEF Lowers, View
    <3>3. QED
      BY <3>1, <3>2
  <2>3. QED
    BY <1>2, <2>1, <2>2, EndStep
<1>5. CASE PortalEnds(c, good)
  <2>1. /\ wait["portal"] = c /\ Ends(c, good) /\ wait' = [wait EXCEPT !["portal"] = None] /\ stray' = stray
        /\ view' = [view EXCEPT !.busy = @ \ {"portal"}] /\ leaving' \in {leaving, Url(c)}
    BY <1>5 DEF PortalEnds
  <2>2. Lowers("portal") /\ view'.plan = view.plan /\ view'.step = view.step
    BY <1>1, <2>1, UrlLeads DEF Lowers, View
  <2>3. QED
    BY <1>2, <2>1, <2>2, EndStep
<1>6. CASE SubmitEnds(c, good)
  <2> DEFINE s == IF good THEN "success" ELSE "form"
  <2>1. /\ wait["submit"] = c /\ Ends(c, good) /\ wait' = [wait EXCEPT !["submit"] = None]
        /\ UNCHANGED <<stray, leaving>> /\ view' = [view EXCEPT !.step = s]
    BY <1>6 DEF SubmitEnds, SetStep
  <2>2. s # "success" \/ HasCard(Me)
    BY <1>2, <2>1, ReadsTruth
  <2>3. s \in {"success", "form"}
    OBVIOUS
  <2> HIDE DEF s
  <2>4. view' \in View /\ view'.plan = view.plan /\ view'.busy = view.busy /\ view'.asked = view.asked /\ view'.step = s
    BY <1>1, <2>1, <2>3 DEF View
  <2>5. Lowers("submit")
    BY <1>1, <2>1, <2>4 DEF Lowers, View
  <2>6. QED
    BY <1>2, <2>1, <2>2, <2>4, <2>5, EndStep
<1>7. CASE StrayEnds(c, good)
  <2>1. /\ c \in stray /\ Ends(c, good) /\ stray' = stray \ {c} /\ UNCHANGED <<view, wait>>
        /\ leaving' \in {leaving, Url(c)}
    BY <1>7 DEF StrayEnds
  <2>2. Released(c)
    BY <2>1 DEF Released
  <2>3. /\ AccountsInv' /\ AwaitsOwn' /\ wait' \in [Handlers -> Calls \cup {None}] /\ stray' \subseteq Calls
        /\ \A d \in Calls : AnswerTrue(d)'
        /\ UNCHANGED <<page, doc, cards, subs>>
    BY <2>1, <2>2, EndsAwaits
  <2>4. BusyFine'
    BY <2>1, <2>3, UrlLeads DEF BillingInv, BusyFine, BusyHasReason, FlagHasCall, LeftUp
  <2>5. QED
    BY <1>1, <2>1, <2>3, <2>4, PageMoves DEF TabTypeOK
<1>8. QED
  BY <1>3, <1>4, <1>5, <1>6, <1>7

-----------------------------------------------------------------------------
(* The user and the browser. *)
LEMMA TabRests ==
    ASSUME BillingInv, UNCHANGED <<backVars, call, wait, stray>>, view' \in View,
           view'.plan = view.plan, view'.busy = view.busy, view'.asked = view.asked,
           doc' = doc, leaving' = leaving \/ leaving' # Nowhere,
           page' = page, view'.step = view.step \/ view'.step # "success"
    PROVE  BillingInv'
<1>1. AccountsInv' /\ \A d \in Calls : AnswerTrue(d)' /\ Kept(d)
  BY NothingBehind
<1>2. AwaitsOwn'
  BY <1>1, AwaitsStay DEF BillingInv
<1>3. TabTypeOK'
  BY DEF BillingInv, TabTypeOK
<1>4. BusyFine'
  BY DEF BillingInv, BusyFine, BusyHasReason, FlagHasCall, LeftUp
<1>5. UNCHANGED <<cards, subs>>
  BY DEF backVars
<1>6. QED
  BY <1>1, <1>2, <1>3, <1>4, <1>5, PageMoves

LEMMA RestStep ==
    ASSUME BillingInv,
           \/ GetPlans \/ Mounted \/ handleSubmit \/ BackToUsage
           \/ \E c \in Calls : handleSelectPlan(c, "free")
           \/ GoBack /\ doc' = "restored"
    PROVE  BillingInv'
<1>1. view \in View
  BY DEF BillingInv, TabTypeOK
<1>2. CASE GetPlans
  <2>1. view' = [view EXCEPT !.offer = Published] /\ UNCHANGED <<page, wait, stray, leaving, doc, backVars, call>>
    BY <1>2 DEF GetPlans
  <2>2. Published \in SUBSET PlanIds
    BY BillingAssumption
  <2>3. /\ view' \in View /\ view'.plan = view.plan /\ view'.busy = view.busy
        /\ view'.asked = view.asked /\ view'.step = view.step
    BY <1>1, <2>1, <2>2 DEF View
  <2>4. QED
    BY <2>1, <2>3, TabRests
<1>3. CASE Mounted \/ handleSubmit
  <2>1. PICK s \in {"error", "form", "processing"} :
          view' = [view EXCEPT !.step = s] /\ UNCHANGED <<page, wait, stray, leaving, doc, backVars, call>>
    BY <1>3 DEF Mounted, handleSubmit, SetStep, CardOnly
  <2>2. /\ view' \in View /\ view'.plan = view.plan /\ view'.busy = view.busy
        /\ view'.asked = view.asked /\ view'.step # "success"
    BY <1>1, <2>1 DEF View
  <2>3. QED
    BY <2>1, <2>2, TabRests
<1>4. CASE BackToUsage \/ \E c \in Calls : handleSelectPlan(c, "free")
  <2>1. leaving' # Nowhere /\ UNCHANGED <<page, view, wait, stray, doc, backVars, call>>
    BY <1>4 DEF BackToUsage, handleSelectPlan, Nowhere
  <2>2. QED
    BY <1>1, <2>1, TabRests
<1>5. CASE GoBack /\ doc' = "restored"
  <2>1. doc = "kept" /\ leaving' = Nowhere /\ UNCHANGED <<page, view, wait, stray, backVars, call>>
    BY <1>5 DEF GoBack, Load, Show
  <2>2. AccountsInv' /\ \A d \in Calls : AnswerTrue(d)' /\ Kept(d)
    BY <2>1, NothingBehind
  <2>3. TabTypeOK' /\ AwaitsOwn'
    BY <2>1, <2>2, AwaitsStay DEF BillingInv, TabTypeOK
  <2>4. BusyFine'
    BY <1>5, <2>1 DEF BillingInv, BusyFine, BusyHasReason, FlagHasCall, LeftUp
  <2>5. QED
    BY <2>1, <2>2, <2>3, <2>4, PageMoves DEF backVars
<1>6. QED
  BY <1>2, <1>3, <1>4, <1>5

LEMMA LoadStep ==
    ASSUME BillingInv,
           \/ \E p \in Pages : Follow(p)
           \/ ReloadDoc \/ Login \/ PaidFor \/ CardEntered \/ GivenUp \/ PortalLeft
           \/ GoBack /\ doc' # "restored"
           \/ Unload /\ leaving.to = "usage"
    PROVE  BillingInv'
<1>1. CASE \E p \in Pages : Follow(p)
  <2>1. PICK p \in Pages : Follow(p)
    BY <1>1
  <2>2. /\ view' = Unread(p) /\ wait' = NoWait /\ UNCHANGED <<backVars, call>>
        /\ stray' = stray \cup ({wait[h] : h \in Handlers} \ {None})
    BY <2>1 DEF Follow
  <2>3. QED
    BY <2>2, NothingBehind, Remounted
<1>2. CASE PaidFor \/ CardEntered
  <2>1. view' = Unread("pricing") /\ wait' = NoWait /\ stray' = {}
    BY <1>2 DEF PaidFor, CardEntered, Return, Load, Show
  <2>2. \/ \E x \in sessions : \E s \in Subs : Pay(x, s)
        \/ \E x \in sessions : \E f \in Cards : EnterCard(x, f)
    BY <1>2 DEF PaidFor, CardEntered
  <2>3. QED
    BY <2>1, <2>2, StripeBehind, Remounted
<1>3. CASE \/ ReloadDoc \/ Login \/ GivenUp \/ PortalLeft
           \/ GoBack /\ doc' # "restored"
           \/ Unload /\ leaving.to = "usage"
  <2>1. PICK p : view' = Unread(p) /\ wait' = NoWait /\ stray' = {} /\ UNCHANGED <<backVars, call>>
    BY <1>3 DEF ReloadDoc, Login, GivenUp, PortalLeft, GoBack, Unload, Return, Load, Show
  <2>2. QED
    BY <2>1, NothingBehind, Remounted
<1>4. QED
  BY <1>1, <1>2, <1>3

LEMMA LeaveStep ==
    ASSUME BillingInv, Unload, leaving.to # "usage"
    PROVE  BillingInv'
<1>1. /\ wait' = NoWait /\ stray' = {} /\ UNCHANGED <<page, view, backVars, call>>
      /\ leaving' # Nowhere /\ doc # "dropped" /\ doc' \in {"kept", "dropped"}
      /\ doc' = "kept" => wait = NoWait
  BY DEF Unload, Away
<1>2. AccountsInv' /\ \A d \in Calls : AnswerTrue(d)'
  BY <1>1, NothingBehind
<1>3. TabTypeOK' /\ AwaitsOwn'
  BY <1>1 DEF BillingInv, TabTypeOK, AwaitsOwn, NoWait
<1>4. BusyFine' /\ UNCHANGED <<cards, subs>>
  BY <1>1 DEF BillingInv, BusyFine, BusyHasReason, FlagHasCall, LeftUp, backVars
<1>5. QED
  BY <1>1, <1>2, <1>3, <1>4, PageMoves

LEMMA PortalStep ==
    ASSUME BillingInv, InPortal
    PROVE  BillingInv'
<1>1. UNCHANGED docVars /\ \E s \in Subs : EndSub(s) \/ \E p \in Sold : ChangePlan(s, p)
  BY DEF InPortal, SubsOf
<1>2. QED
  BY <1>1, StripeBehind, BehindTheTab

LEMMA AbandonStep ==
    ASSUME BillingInv, NEW c \in Calls, Abandon(c)
    PROVE  BillingInv'
<1>1. call' = [call EXCEPT ![c] = Idle] /\ UNCHANGED docVars /\ UNCHANGED backVars /\ c \notin Awaited
  BY DEF Abandon
<1>2. TypeOK /\ TabTypeOK
  BY DEF BillingInv, AccountsInv
<1>3. AccountsInv' /\ UNCHANGED <<cards, subs>>
  BY <1>1, PageForgets DEF BillingInv, backVars
<1>4. \A d \in Calls : AnswerTrue(d)'
  BY <1>1, <1>2, <1>3, GoStaysTrue DEF BillingInv
<1>5. \A d \in Calls \ {c} : OwnCall(d) => OwnCall(d)' /\ call'[d].op = call[d].op
  BY <1>1, <1>2 DEF OwnCall, TypeOK
<1>6. AwaitsOwn'
  <2>1. ASSUME NEW g \in Handlers, NEW d, d = wait[g], d # None
        PROVE  OwnCall(d)' /\ call'[d].op = OpOf(g) /\ d \notin stray
    <3>1. d \in Calls /\ d # c /\ OwnCall(d) /\ call[d].op = OpOf(g) /\ d \notin stray
      BY <1>1, <1>2, <2>1 DEF BillingInv, TabTypeOK, AwaitsOwn, Awaited
    <3>2. QED
      BY <1>5, <3>1
  <2>2. \A d \in stray : OwnCall(d)'
    BY <1>1, <1>2, <1>5 DEF BillingInv, TabTypeOK, AwaitsOwn, Awaited
  <2>3. QED
    BY <1>1, <2>1, <2>2 DEF AwaitsOwn, docVars, OwnCall
<1>7. TabTypeOK' /\ BusyFine'
  BY <1>1 DEF BillingInv, TabTypeOK, BusyFine, BusyHasReason, FlagHasCall, LeftUp, docVars
<1>8. QED
  BY <1>1, <1>3, <1>4, <1>6, <1>7, PageMoves DEF docVars

LEMMA ConfirmSends ==
    ASSUME AccountsInv, NEW c \in Calls, Confirm(c),
           UNCHANGED <<keys, cards, subs, sessions, events, historyVars>>
    PROVE  AccountsInv'
<1>1. PICK f \in Cards : method' = [method EXCEPT ![Me] = f]
  BY DEF Confirm
<1>2. Send(c, "confirm", Me, 0, "free_plus") /\ "free_plus" \in Plans
  BY PlansThere DEF Confirm
<1>3. PICK r : r = NewCall("confirm", Me, 0, "free_plus", NoEvent)
  OBVIOUS
<1>4. r \in CallRec /\ Plain(r)
  <2>1. "confirm" \in Ops /\ 0 \in Nat /\ NoEvent \in Event \cup {NoEvent}
    BY DEF Ops
  <2>2. r \in CallRec
    BY <1>2, <1>3, <2>1, Me_is_User, NewCallType
  <2>3. QED
    BY <1>3, <2>2 DEF Plain, NewCall
<1>5. TypeOK /\ call' = [call EXCEPT ![c] = r]
  BY <1>1, <1>2, <1>3 DEF AccountsInv, Send
<1>6. call' \in [Calls -> CallRec \cup {Idle}] /\ OthersAlone(c) /\ call'[c] = r
  BY <1>4, <1>5, Gone
<1>7. UNCHANGED <<missed, raced>>
  BY DEF historyVars
<1>8. TypeOK'
  BY <1>1, <1>2, <1>5, <1>6 DEF TypeOK
<1>9. CallFine(c)' /\ ~Making(c)' /\ ~IsUpgrade(c, "checked")'
  BY <1>4, <1>6, PlainIsFine
<1>10. QED
  BY <1>2, <1>6, <1>7, <1>8, <1>9, QuietKeeps

LEMMA ConfirmStep ==
    ASSUME BillingInv, NEW c \in Calls, ConfirmSetup(c)
    PROVE  BillingInv'
<1>1. view \in View /\ wait["submit"] = None
  BY DEF BillingInv, TabTypeOK, ConfirmSetup, Confirming
<1>2. CASE SetStep("form") /\ UNCHANGED <<wait, method, call>>
  <2>1. /\ view' = [view EXCEPT !.step = "form"]
        /\ UNCHANGED <<page, wait, stray, leaving, doc, backVars, call>>
    BY <1>2 DEF ConfirmSetup, SetStep, CardOnly, backVars
  <2>2. /\ view' \in View /\ view'.plan = view.plan /\ view'.busy = view.busy
        /\ view'.asked = view.asked /\ view'.step # "success"
    BY <1>1, <2>1 DEF View
  <2>3. QED
    BY <2>1, <2>2, TabRests
<1>3. ASSUME NEW f \in Cards, method' = [method EXCEPT ![Me] = f], Send(c, "confirm", Me, 0, "free_plus"),
             wait' = [wait EXCEPT !["submit"] = c], view' = view
      PROVE  BillingInv'
  <2>1. UNCHANGED <<page, stray, leaving, doc, keys, cards, subs, sessions, events, historyVars>>
    BY DEF ConfirmSetup, CardOnly
  <2>2. "submit" \in Handlers /\ OpOf("submit") = "confirm" /\ "free_plus" \in Plans
    BY PlansThere DEF Handlers, OpOf
  <2>3. /\ AwaitsOwn' /\ wait' \in [Handlers -> Calls \cup {None}] /\ stray' \subseteq Calls
        /\ \A g \in Handlers \ {"submit"} : wait'[g] = wait[g]
        /\ \A d \in Calls : AnswerTrue(d)'
    BY <1>1, <1>3, <2>1, <2>2, AskAwaits
  <2>4. AccountsInv'
    BY <1>3, <2>1, ConfirmSends DEF BillingInv, Confirm
  <2>5. "submit" \notin view.busy
    BY <1>1 DEF View
  <2>6. BusyFine'
    BY <1>1, <1>3, <2>1, <2>3, <2>5 DEF BillingInv, BusyFine, BusyHasReason, FlagHasCall, LeftUp, View
  <2>7. QED
    BY <1>1, <1>3, <2>1, <2>3, <2>4, <2>6, PageMoves DEF TabTypeOK
<1>4. QED
  BY <1>2, <1>3 DEF ConfirmSetup, Confirm

LEMMA AdriftStep ==
    ASSUME BillingInv, NEW c \in Calls, ConfirmAdrift(c)
    PROVE  BillingInv'
<1>1. UNCHANGED <<page, view, wait, leaving, doc, keys, cards, subs, sessions, events, historyVars>>
  BY DEF ConfirmAdrift
<1>2. view \in View /\ TypeOK /\ TabTypeOK /\ AwaitsOwn
  BY DEF BillingInv, TabTypeOK, AccountsInv
<1>3. BusyFine'
  BY <1>1 DEF BillingInv, BusyFine, BusyHasReason, FlagHasCall, LeftUp
<1>4. CASE UNCHANGED <<stray, method, call>>
  <2>1. UNCHANGED backVars
    BY <1>1, <1>4 DEF ConfirmAdrift, backVars
  <2>2. QED
    BY <1>1, <1>2, <1>4, <2>1, TabRests
<1>5. CASE Confirm(c) /\ stray' = stray \cup {c}
  <2>1. AccountsInv'
    BY <1>1, <1>5, ConfirmSends DEF BillingInv
  <2>2. PICK r : r = NewCall("confirm", Me, 0, "free_plus", NoEvent)
    OBVIOUS
  <2>3. /\ call[c] = Idle /\ call' = [call EXCEPT ![c] = r] /\ r.st = "sent"
        /\ r.op = "confirm" /\ r.user = Me /\ r # Idle
    BY <1>5, <2>2 DEF Confirm, Send, NewCall, Idle
  <2>4. call'[c] = r /\ \A d \in Calls \ {c} : call'[d] = call[d]
    BY <1>2, <2>3 DEF TypeOK
  <2>5. ~OwnCall(c) /\ OwnCall(c)' /\ \A d \in Calls : Kept(d)
    BY <2>3, <2>4 DEF OwnCall, Kept
  <2>6. \A d \in Calls : AnswerTrue(d)'
    BY <1>1, <1>2, <2>3, GoStaysTrue DEF BillingInv
  <2>7. TabTypeOK'
    BY <1>1, <1>2, <1>5 DEF TabTypeOK
  <2>8. AwaitsOwn'
    <3>1. ASSUME NEW g \in Handlers, NEW d, d = wait[g], d # None
          PROVE  d \in Calls /\ OwnCall(d)' /\ call'[d].op = OpOf(g) /\ d \notin stray'
      <4>1. d \in Calls /\ OwnCall(d) /\ call[d].op = OpOf(g) /\ d \notin stray
        BY <1>2, <3>1 DEF TabTypeOK, AwaitsOwn
      <4>2. QED
        BY <1>5, <2>5, <4>1 DEF Kept
    <3>2. \A d \in stray' : OwnCall(d)'
      BY <1>2, <1>5, <2>5 DEF TabTypeOK, AwaitsOwn, Kept
    <3>3. QED
      BY <1>1, <3>1, <3>2 DEF AwaitsOwn, OwnCall
  <2>9. QED
    BY <1>1, <1>3, <2>1, <2>6, <2>7, <2>8, PageMoves
<1>6. QED
  BY <1>4, <1>5 DEF ConfirmAdrift

-----------------------------------------------------------------------------
LEMMA SubscribedStart ==
    ASSUME NEW p \in Sold, NEW s \in Subs, Subscribed(p, s)
    PROVE  AccountsInv
<1> DEFINE row == [user |-> Me, plan |-> p, status |-> "live"]
           sub == [user |-> Me, plan |-> p, st |-> "active", had |-> {p}]
<1>1. Me \in Users /\ p \in Plans /\ p # "free_plus"
  BY Me_is_User, PlansThere, NotSold
<1>2. row \in Row /\ sub \in Sub /\ sub # NoSub
  BY <1>1 DEF Row, Sub, NoSub
<1>3. /\ keys = <<row>> /\ cards = {} /\ call = [c \in Calls |-> Idle]
      /\ subs = [t \in Subs |-> IF t = s THEN sub ELSE NoSub]
      /\ method = [u \in Users |-> NoCard] /\ sessions = {} /\ events = {} /\ missed = {} /\ raced = {}
  BY DEF Subscribed, InitWith
<1>4. row.user = Me /\ row.plan = p /\ row.status = "live" /\ sub.user = Me /\ sub.plan = p /\ sub.had = {p}
  OBVIOUS
<1> HIDE DEF row, sub
<1>5. keys \in Seq(Row) /\ DOMAIN keys = {1} /\ keys[1] = row
  BY <1>2, <1>3
<1>6. subs \in [Subs -> Sub \cup {NoSub}] /\ subs[s] = sub /\ \A t \in Subs : subs[t] # NoSub => t = s
  BY <1>2, <1>3
<1>7. TypeOK
  BY <1>3, <1>5, <1>6 DEF TypeOK
<1>8. PlansAreEarned
  <2>1. Me \in Family(Me) /\ s \in SubsOf(Me) /\ p \in subs[s].had
    BY <1>2, <1>4, <1>6 DEF Family, SubsOf
  <2>2. Bought(Me, p)
    BY <2>1 DEF Bought
  <2>3. QED
    BY <1>1, <1>4, <1>5, <2>2 DEF PlansAreEarned
<1>9. \A c \in Calls : CallFine(c) /\ CheckHolds(c) /\ ~Making(c)
  BY <1>3 DEF CallFine, CheckHolds, Making, IsUpgrade, At
<1>10. SharedOnlyIfRaced /\ \A t \in Subs : SubFine(t)
  BY <1>3, <1>4, <1>6 DEF SharedOnlyIfRaced, SubFine
<1>11. OneRowEach
  BY <1>9 DEF OneRowEach
<1>12. ServedOrTold
  <2>1. ASSUME NEW u \in Users, NEW q \in Sold, PaysFor(u, q) PROVE Recorded(u, q)
    <3>1. PICK t \in Subs : subs[t] # NoSub /\ subs[t].user = u /\ subs[t].had = {q}
      BY <2>1 DEF PaysFor, ActiveSubs, SubsOf
    <3>2. u = Me /\ q = p
      BY <1>4, <1>6, <3>1
    <3>3. ActiveKeys(u) = {1}
      BY <1>4, <1>5, <3>2 DEF ActiveKeys, IsActive
    <3>4. QED
      BY <1>4, <1>5, <1>9, <3>2, <3>3 DEF Recorded
  <2>2. QED
    BY <2>1 DEF ServedOrTold
<1>13. QED
  BY <1>3, <1>7, <1>8, <1>9, <1>10, <1>11, <1>12 DEF AccountsInv

LEMMA PagesStart == PagesInit => BillingInv
<1> SUFFICES ASSUME PagesInit PROVE BillingInv
  OBVIOUS
<1>1. AccountsInv /\ \A c \in Calls : call[c] = Idle
  <2>1. CASE Init
    <3>1. <<>> \in Seq(Row) /\ DOMAIN <<>> = {}
      OBVIOUS
    <3>2. QED
      BY <2>1, <3>1, AccountsStart DEF Init, InitWith
  <2>2. CASE \E p \in Sold : \E s \in Subs : Subscribed(p, s)
    BY <2>2, SubscribedStart DEF Subscribed, InitWith
  <2>3. QED
    BY <2>1, <2>2 DEF PagesInit
<1>2. view = Unread(page) /\ wait = NoWait /\ stray = {}
  BY DEF PagesInit
<1>3. TabTypeOK /\ AwaitsOwn
  BY <1>2, UnreadFine DEF TabTypeOK, AwaitsOwn, NoWait
<1>4. BusyFine /\ SuccessIsRecorded /\ ShownWasEarned
  BY <1>2, UnreadFine, UnknownNotSold DEF BusyFine, BusyHasReason, FlagHasCall, LeftUp, SuccessIsRecorded, ShownWasEarned
<1>5. \A c \in Calls : AnswerTrue(c)
  BY <1>1 DEF AnswerTrue
<1>6. QED
  BY <1>1, <1>3, <1>4, <1>5 DEF BillingInv, BusyFine

LEMMA PagesStep == BillingInv /\ [PagesNext]_pagesVars => BillingInv'
<1> SUFFICES ASSUME BillingInv, [PagesNext]_pagesVars PROVE BillingInv'
  OBVIOUS
<1>1. CASE Server
  BY <1>1, ServerStep
<1>2. CASE Tab
  <2>1. CASE \E p \in Pages : Follow(p)
    BY <2>1, LoadStep
  <2>2. CASE ReloadDoc \/ Login \/ PaidFor \/ CardEntered \/ GivenUp \/ PortalLeft
    BY <2>2, LoadStep
  <2>3. CASE GetPlans \/ Mounted \/ handleSubmit \/ BackToUsage
    BY <2>3, RestStep
  <2>4. CASE Unload
    BY <2>4, LoadStep, LeaveStep
  <2>5. CASE InPortal
    BY <2>5, PortalStep
  <2>6. CASE GoBack
    BY <2>6, LoadStep, RestStep
  <2>7. ASSUME NEW c \in Calls, Fetches(c) \/ handleUpgradeFreePlus(c) \/ handleCancelSubscription(c)
                                \/ handleManageBilling(c) \/ handleSetupCard(c)
        PROVE  BillingInv'
    BY <2>7, Asked
  <2>8. ASSUME NEW c \in Calls, NEW p \in Sold \cup {"free"}, handleSelectPlan(c, p) PROVE BillingInv'
    BY <2>8, Asked, RestStep
  <2>9. ASSUME NEW c \in Calls, Answers(c) PROVE BillingInv'
    BY <2>9, AnswerStep DEF Answers
  <2>10. ASSUME NEW c \in Calls, Abandon(c) \/ ConfirmSetup(c) \/ ConfirmAdrift(c)
         PROVE  BillingInv'
    BY <2>10, AbandonStep, ConfirmStep, AdriftStep
  <2>11. QED
    BY <1>2, <2>1, <2>2, <2>3, <2>4, <2>5, <2>6, <2>7, <2>8, <2>9, <2>10 DEF Tab
<1>3. CASE UNCHANGED pagesVars
  <2>1. UNCHANGED <<backVars, call>> /\ UNCHANGED docVars
    BY <1>3 DEF pagesVars, vars, stripeVars, historyVars, backVars
  <2>2. QED
    BY <2>1, NothingBehind, BehindTheTab
<1>4. QED
  BY <1>1, <1>2, <1>3 DEF PagesNext

(* The invariant of the billing pages, with the accounts behind them. *)
THEOREM BillingInvariant == PagesSpec => []BillingInv
BY PagesStart, PagesStep, PTL DEF PagesSpec

(* BusyHasReason of BillingPages: a loading flag is up while its handler
   awaits an answer, the page is about to be left or has not asked yet; in a
   document that Back restored, a redirect's flag may stay up.              *)
THEOREM ButtonsComeBack == PagesSpec => []BusyHasReason
<1>1. BillingInv => BusyHasReason
  BY DEF BillingInv
<1>2. QED
  BY <1>1, BillingInvariant, PTL

(* SuccessIsRecorded of BillingPages: the card page says so only once the card
   is in card_fingerprints, whatever was lost or refused on the way.       *)
THEOREM SuccessRecorded == PagesSpec => []SuccessIsRecorded
<1>1. BillingInv => SuccessIsRecorded
  BY DEF BillingInv
<1>2. QED
  BY <1>1, BillingInvariant, PTL

(* ShownWasEarned of BillingPages: no page shows a plan as current that was
   not bought, or Free+ without a card.                                    *)
THEOREM ShownEarned == PagesSpec => []ShownWasEarned
<1>1. BillingInv => ShownWasEarned
  BY DEF BillingInv
<1>2. QED
  BY <1>1, BillingInvariant, PTL

=============================================================================
