----------------------------- MODULE AccountsProofs -----------------------------
(* Proofs about Accounts and the KeyPage that extends it: plans, cards and
   payments, for any number of accounts, links, cards, calls, subscriptions
   and keys, whatever the page in front of them does.                       *)
EXTENDS KeyPage, SequenceTheorems, FiniteSetTheorems, WellFoundedInduction, TLAPS

LEMMA NotSold == "free" \notin Sold /\ "free_plus" \notin Sold
<1>1. ASSUME NEW p \in ActivePlans, ~p.isFree PROVE p.id \notin {"free", "free_plus"}
  BY <1>1 DEF ActivePlans, PlanIds, PLANS, Plan
<1>2. "free" \notin PaidIds /\ "free_plus" \notin PaidIds
  BY <1>1 DEF PaidIds
<1>3. QED
  BY <1>2, AccountsAssumption

LEMMA LinkedFamily ==
    ASSUME NEW l \in Links
    PROVE  l[1] \in Users /\ l[2] \in Users /\ Family(l[2]) \subseteq Family(l[1])
<1>1. l = <<l[1], l[2]>> /\ l[1] \in Users /\ l[2] \in Users
  BY AccountsAssumption
<1>2. ASSUME NEW v \in Users, <<l[2], v>> \in Links PROVE <<l[1], v>> \in Links
  BY <1>2, AccountsAssumption
<1>3. QED
  BY <1>1, <1>2 DEF Family

(* Every non-empty set of natural numbers has a least element, and every one
   that is bounded a greatest.                                             *)
LEMMA Least ==
    ASSUME NEW S \in SUBSET Nat, S # {}
    PROVE  \E m \in S : \A k \in S : m <= k
<1> DEFINE T == {0..k : k \in S}
<1>1. PICK X \in T : \A Y \in T : <<Y, X>> \notin StrictSubsetOrdering(Nat)
  <2>1. T \subseteq FiniteSubsetsOf(Nat)
    <3>1. ASSUME NEW k \in S PROVE IsFiniteSet(0..k) /\ 0..k \in SUBSET Nat
      BY FS_Interval
    <3>2. QED
      BY <3>1 DEF FiniteSubsetsOf
  <2>2. IsWellFoundedOn(StrictSubsetOrdering(Nat), FiniteSubsetsOf(Nat))
    BY FS_StrictSubsetOrderingWellFounded
  <2>3. T # {}
    OBVIOUS
  <2> HIDE DEF T
  <2>4. QED
    BY <2>1, <2>2, <2>3, WFMin
<1>2. PICK m \in S : X = 0..m
  OBVIOUS
<1>3. ASSUME NEW k \in S PROVE m <= k
  <2> SUFFICES ASSUME k < m PROVE FALSE
    OBVIOUS
  <2>1. 0..k \subseteq 0..m /\ 0..k # 0..m
    OBVIOUS
  <2>2. <<0..k, X>> \in StrictSubsetOrdering(Nat)
    BY <1>2, <2>1 DEF StrictSubsetOrdering
  <2>3. QED
    BY <1>1, <2>2
<1>4. QED
  BY <1>3

LEMMA Greatest ==
    ASSUME NEW n \in Nat, NEW S \in SUBSET (1..n), S # {}
    PROVE  \E m \in S : \A k \in S : k <= m
<1> DEFINE T == {n - k : k \in S}
<1>1. T \in SUBSET Nat /\ T # {}
  <2>1. ASSUME NEW k \in S PROVE n - k \in Nat
    OBVIOUS
  <2>2. QED
    BY <2>1
<1> HIDE DEF T
<1>2. PICK t \in T : \A x \in T : t <= x
  BY <1>1, Least
<1>3. PICK m \in S : t = n - m
  BY DEF T
<1>4. ASSUME NEW k \in S PROVE k <= m
  <2>1. n - k \in T
    BY DEF T
  <2>2. QED
    BY <1>2, <1>3, <2>1
<1>5. QED
  BY <1>4

-----------------------------------------------------------------------------
(* What Stripe has sold, and whose a card is, is never unsaid. *)
StripeGrows ==
    /\ cards \subseteq cards'
    /\ \A s \in Subs : subs[s] # NoSub =>
          /\ subs'[s] # NoSub /\ subs'[s].user = subs[s].user /\ subs[s].had \subseteq subs'[s].had
          /\ subs[s].st = "ended" => subs'[s].st = "ended"

LEMMA EarnedGrows ==
    ASSUME StripeGrows, NEW u, NEW p, Earned(u, p)
    PROVE  Earned(u, p)'
<1>1. \A v \in Family(u) : HasCard(v) => HasCard(v)'
  BY DEF StripeGrows, HasCard
<1>2. Bought(u, p) => Bought(u, p)'
  BY DEF StripeGrows, Bought, SubsOf
<1>3. QED
  BY <1>1, <1>2 DEF Earned

LEMMA EventGrows ==
    ASSUME StripeGrows, NEW e \in Event, EventFine(e)
    PROVE  EventFine(e)'
<1>1. e.type # "setup" => e.sub \in Subs
  BY DEF Event
<1>2. e.type = "deleted" => e.type # "setup"
  OBVIOUS
<1>3. QED
  BY <1>1, <1>2 DEF EventFine, StripeGrows

(* Rows stay, and what one was is not undone. *)
RowsMove ==
    \A k \in DOMAIN keys :
        /\ k \in DOMAIN keys'
        /\ keys[k].status # "pending" =>
              /\ keys'[k].status # "pending"
              /\ keys[k].status = "revoked" => keys'[k].status = "revoked"
              /\ \/ keys'[k].user = keys[k].user
                 \/ keys'[k].status = "revoked"
                 \/ keys'[k].user \in missed'

LEMMA CallSame ==
    ASSUME NEW c \in Calls, call'[c] = call[c], CallFine(c), StripeGrows, RowsMove, missed \subseteq missed',
           Making(c) => /\ keys'[call[c].new].status = keys[call[c].new].status
                        /\ keys'[call[c].new].user = keys[call[c].new].user
    PROVE  CallFine(c)'
<1>1. Making(c)' <=> Making(c)
  BY DEF Making, At
<1>2. Making(c) => NewRowFine(c)'
  BY DEF CallFine, NewRowFine, RowsMove
<1>3. Making(c) /\ call[c].op = "rotate" => OldRowFine(c)'
  BY DEF CallFine, OldRowFine, RowsMove
<1>4. ASSUME call[c] # Idle, call[c].op = "webhook" PROVE HookFine(c)'
  <2>1. PICK x : x = call[c]
    OBVIOUS
  <2>2. x.ev \in Event /\ EventFine(x.ev) /\ HookFine(c)
    BY <1>4, <2>1 DEF CallFine, HookFine
  <2>3. EventFine(x.ev)'
    BY <2>2, EventGrows
  <2>4. Earned(x.user, x.plan) => Earned(x.user, x.plan)'
    BY EarnedGrows
  <2>5. ASSUME x.ev.type = "completed", x.plan \in subs[x.ev.sub].had
        PROVE  x.plan \in subs'[x.ev.sub].had
    <3>1. x.ev.sub \in Subs /\ subs[x.ev.sub] # NoSub
      BY <2>2, <2>5 DEF Event, EventFine
    <3>2. QED
      BY <2>5, <3>1 DEF StripeGrows
  <2>6. call'[c] = x
    BY <2>1
  <2>7. QED
    BY <2>1, <2>2, <2>3, <2>4, <2>5, <2>6 DEF HookFine
<1>5. \A s : IsUpgrade(c, s)' <=> IsUpgrade(c, s)
  BY DEF IsUpgrade, At
<1>6. QED
  BY <1>1, <1>2, <1>3, <1>4, <1>5 DEF CallFine

-----------------------------------------------------------------------------
(* A step of one request: no other is touched. *)
OthersAlone(c) == \A d \in Calls \ {c} : call'[d] = call[d]

(* A request that holds nothing: it has not begun, is over, or only reads. *)
Plain(r) == r # Idle => r.op = "usage" \/ (r.op # "webhook" /\ r.st \in {"sent", "done"})

LEMMA PlainIsFine ==
    ASSUME NEW c \in Calls, Plain(call'[c])
    PROVE  CallFine(c)' /\ ~Making(c)' /\ ~IsUpgrade(c, "checked")'
BY DEF Plain, CallFine, Making, IsUpgrade, At

LEMMA Answered ==
    ASSUME TypeOK, NEW c \in Calls, NEW good \in BOOLEAN, call[c] # Idle, Answer(c, good)
    PROVE  /\ call' \in [Calls -> CallRec \cup {Idle}] /\ OthersAlone(c) /\ Plain(call'[c])
           /\ events' \subseteq events /\ events \ events' \subseteq {call[c].ev}
           /\ call[c].op # "webhook" => events' = events
           /\ ~good => events' = events
<1> DEFINE a == [call[c] EXCEPT !.st = "done"]
           r == [a EXCEPT !.ok = good]
           v == IF call[c].op = "webhook" \/ call[c].user \notin Watchers THEN Idle ELSE r
<1>1. call[c] \in CallRec
  BY DEF TypeOK
<1>2. a \in CallRec /\ a.op = call[c].op /\ a.st = "done"
  BY <1>1 DEF CallRec
<1>3. [call[c] EXCEPT !.st = "done", !.ok = good] = r
  BY <1>1 DEF CallRec
<1> HIDE DEF a
<1>4. r \in CallRec /\ r.op = call[c].op /\ r.st = "done"
  BY <1>2 DEF CallRec
<1> HIDE DEF r
<1>5. call' = [call EXCEPT ![c] = v]
  <2>1. CASE call[c].op = "webhook"
    BY <2>1 DEF Answer
  <2>2. CASE call[c].op # "webhook"
    BY <1>3, <2>2 DEF Answer, TypeOK
  <2>3. QED
    BY <2>1, <2>2
<1>6. v \in CallRec \cup {Idle} /\ Plain(v)
  BY <1>4 DEF Plain
<1> HIDE DEF v
<1>7. call' \in [Calls -> CallRec \cup {Idle}] /\ OthersAlone(c) /\ call'[c] = v
  BY <1>5, <1>6 DEF TypeOK, OthersAlone
<1>8. /\ events' \subseteq events /\ events \ events' \subseteq {call[c].ev}
      /\ call[c].op # "webhook" => events' = events
      /\ ~good => events' = events
  BY DEF Answer
<1>9. QED
  BY <1>6, <1>7, <1>8

LEMMA Gone ==
    ASSUME TypeOK, NEW c \in Calls, NEW r \in CallRec \cup {Idle}, call' = [call EXCEPT ![c] = r]
    PROVE  call' \in [Calls -> CallRec \cup {Idle}] /\ OthersAlone(c) /\ call'[c] = r
BY DEF TypeOK, OthersAlone

LEMMA NewCallType ==
    ASSUME NEW o \in Ops, NEW u \in Users, NEW k \in Nat, NEW p \in Plans, NEW e \in Event \cup {NoEvent}
    PROVE  NewCall(o, u, k, p, e) \in CallRec
BY DEF NewCall, CallRec

-----------------------------------------------------------------------------
(* What a step must do for each part of the invariant to stay. *)
LEMMA PlansStay ==
    ASSUME StripeGrows, \A k \in DOMAIN keys' : Earned(keys'[k].user, keys'[k].plan)
    PROVE  PlansAreEarned'
<1>1. ASSUME NEW k \in DOMAIN keys', NEW u, NEW p, u = keys'[k].user, p = keys'[k].plan
      PROVE  /\ p \in Sold => \E v \in Family(u) : \E s \in SubsOf(v)' : p \in subs'[s].had
             /\ p = "free_plus" => \E v \in Family(u) : HasCard(v)'
  <2>1. Earned(u, p)'
    BY <1>1, EarnedGrows
  <2>2. QED
    BY <2>1 DEF Earned, Bought
<1>2. QED
  BY <1>1 DEF PlansAreEarned, Bought

LEMMA CallsStay ==
    ASSUME AccountsInv, NEW c \in Calls, OthersAlone(c), subs' = subs, cards \subseteq cards',
           events' \subseteq events, missed \subseteq missed', RowsMove,
           \A d \in Calls \ {c} : Making(d) => /\ keys'[call[d].new].status = keys[call[d].new].status
                                               /\ keys'[call[d].new].user = keys[call[d].new].user,
           CallFine(c)'
    PROVE  /\ StripeGrows
           /\ \A s \in Subs : SubFine(s)'
           /\ \A e \in events' : EventFine(e)'
           /\ \A d \in Calls : CallFine(d)'
<1>1. StripeGrows
  BY DEF StripeGrows
<1>2. \A s \in Subs : SubFine(s)'
  BY DEF AccountsInv, SubFine
<1>3. \A e \in events' : EventFine(e)'
  BY DEF AccountsInv, EventFine
<1>4. ASSUME NEW d \in Calls \ {c} PROVE CallFine(d)'
  BY <1>1, CallSame DEF OthersAlone, AccountsInv
<1>5. QED
  BY <1>1, <1>2, <1>3, <1>4

LEMMA ChecksStay ==
    ASSUME AccountsInv, NEW c \in Calls, OthersAlone(c), cards' = cards, raced \subseteq raced',
           ~IsUpgrade(c, "checked")'
    PROVE  SharedOnlyIfRaced' /\ \A d \in Calls : CheckHolds(d)'
<1>1. SharedOnlyIfRaced'
  BY DEF AccountsInv, SharedOnlyIfRaced
<1>2. \A d \in Calls : IsUpgrade(d, "checked")' => d # c /\ call'[d] = call[d] /\ IsUpgrade(d, "checked")
  BY DEF OthersAlone, IsUpgrade, At
<1>3. \A f, u : OthersHave(f, u)' = OthersHave(f, u)
  BY DEF OthersHave
<1>4. ASSUME NEW d \in Calls PROVE CheckHolds(d)'
  <2>1. SUFFICES ASSUME IsUpgrade(d, "checked")', call'[d].card \notin raced'
                 PROVE  /\ ~OthersHave(call'[d].card, call'[d].user)
                        /\ \A e \in Calls : IsUpgrade(e, "checked")' /\ call'[e].card = call'[d].card
                                              => call'[e].user = call'[d].user
    BY <1>3 DEF CheckHolds, OthersHave
  <2>2. IsUpgrade(d, "checked") /\ call'[d] = call[d] /\ call[d].card \notin raced
    BY <1>2, <2>1
  <2>3. CheckHolds(d)
    BY DEF AccountsInv
  <2>4. QED
    BY <1>2, <2>2, <2>3 DEF CheckHolds
<1>5. QED
  BY <1>1, <1>4

LEMMA RowsStay ==
    ASSUME AccountsInv, NEW c \in Calls, OthersAlone(c), ~Making(c)'
    PROVE  OneRowEach' /\ \A d \in Calls : Making(d)' => d # c /\ Making(d) /\ call'[d] = call[d]
BY DEF AccountsInv, OneRowEach, OthersAlone, Making, At

LEMMA ServedStays ==
    ASSUME AccountsInv, subs' = subs, missed \subseteq missed',
           \A e \in events \ events' : e.type # "completed",
           \A u \in Users \ missed' : \A p \in Sold : Recorded(u, p) => Recorded(u, p)'
    PROVE  ServedOrTold'
<1>1. \A u, p : PaysFor(u, p)' => PaysFor(u, p)
  BY DEF PaysFor, ActiveSubs, SubsOf
<1>2. \A u : CheckoutTold(u) => CheckoutTold(u)'
  BY DEF CheckoutTold
<1>3. QED
  BY <1>1, <1>2 DEF AccountsInv, ServedOrTold

LEMMA RecordedSame ==
    ASSUME AccountsInv, NEW c \in Calls, OthersAlone(c), ~Making(c)', keys' = keys
    PROVE  \A u, p : Recorded(u, p) => Recorded(u, p)'
<1>1. \A u : ActiveKeys(u)' = ActiveKeys(u)
  BY DEF ActiveKeys, IsActive
<1>2. QED
  BY <1>1, RowsStay DEF Recorded

(* A step of a request that writes to no table. *)
LEMMA QuietKeeps ==
    ASSUME AccountsInv, TypeOK', NEW c \in Calls, OthersAlone(c), UNCHANGED <<keys, cards, subs, missed>>,
           events' \subseteq events, \A e \in events \ events' : e.type # "completed",
           raced \subseteq raced', CallFine(c)', ~Making(c)', ~IsUpgrade(c, "checked")'
    PROVE  AccountsInv'
<1>1. RowsMove
  BY DEF RowsMove
<1>2. /\ StripeGrows
      /\ \A s \in Subs : SubFine(s)'
      /\ \A e \in events' : EventFine(e)'
      /\ \A d \in Calls : CallFine(d)'
  BY <1>1, CallsStay
<1>3. SharedOnlyIfRaced' /\ \A d \in Calls : CheckHolds(d)'
  BY ChecksStay
<1>4. OneRowEach'
  BY RowsStay
<1>5. ServedOrTold'
  BY RecordedSame, ServedStays
<1>6. PlansAreEarned'
  BY <1>2, PlansStay DEF AccountsInv, PlansAreEarned, Earned
<1>7. QED
  BY <1>2, <1>3, <1>4, <1>5, <1>6 DEF AccountsInv

-----------------------------------------------------------------------------
(* The requests that only read, and the answers of all. *)
LEMMA AnswerKeeps ==
    ASSUME AccountsInv, NEW c \in Calls, NEW good \in BOOLEAN, call[c] # Idle, Answer(c, good),
           UNCHANGED <<keys, cards, subs, method, missed>>, raced \subseteq raced',
           sessions' \subseteq [user : Users, mode : {"subscription"}, plan : Sold]
                        \cup [user : Users, mode : {"setup"}, plan : {"free_plus"}],
           good /\ call[c].op = "webhook" => call[c].ev.type # "completed"
    PROVE  AccountsInv'
<1>1. TypeOK
  BY DEF AccountsInv
<1>2. /\ call' \in [Calls -> CallRec \cup {Idle}] /\ OthersAlone(c) /\ Plain(call'[c])
      /\ events' \subseteq events /\ events \ events' \subseteq {call[c].ev}
      /\ call[c].op # "webhook" => events' = events
      /\ ~good => events' = events
  BY <1>1, Answered
<1>3. TypeOK'
  BY <1>1, <1>2 DEF TypeOK
<1>4. \A e \in events \ events' : e.type # "completed"
  BY <1>2
<1>5. QED
  BY <1>2, <1>3, <1>4, PlainIsFine, QuietKeeps

LEMMA GoKeeps ==
    ASSUME AccountsInv, NEW c \in Calls, NEW r \in CallRec \cup {Idle}, call' = [call EXCEPT ![c] = r],
           UNCHANGED <<keys, cards, stripeVars, events, historyVars>>, Plain(r)
    PROVE  AccountsInv'
<1>1. TypeOK
  BY DEF AccountsInv
<1>2. call' \in [Calls -> CallRec \cup {Idle}] /\ OthersAlone(c) /\ call'[c] = r
  BY <1>1, Gone
<1>3. UNCHANGED <<keys, cards, subs, method, sessions, events, missed, raced>>
  BY DEF stripeVars, historyVars
<1>4. TypeOK'
  BY <1>1, <1>2, <1>3 DEF TypeOK
<1>5. CallFine(c)' /\ ~Making(c)' /\ ~IsUpgrade(c, "checked")'
  BY <1>2, PlainIsFine
<1>6. QED
  BY <1>2, <1>3, <1>4, <1>5, QuietKeeps

(* As GoKeeps, for a request that gets hold of something. *)
LEMMA HoldKeeps ==
    ASSUME AccountsInv, NEW c \in Calls, NEW r \in CallRec, call' = [call EXCEPT ![c] = r],
           UNCHANGED <<keys, cards, stripeVars, events, historyVars>>,
           CallFine(c)', r.op \notin {"create", "rotate"}, r.st # "checked"
    PROVE  AccountsInv'
<1>1. TypeOK
  BY DEF AccountsInv
<1>2. call' \in [Calls -> CallRec \cup {Idle}] /\ OthersAlone(c) /\ call'[c] = r
  BY <1>1, Gone
<1>3. UNCHANGED <<keys, cards, subs, method, sessions, events, missed, raced>>
  BY DEF stripeVars, historyVars
<1>4. TypeOK'
  BY <1>1, <1>2, <1>3 DEF TypeOK
<1>5. ~Making(c)' /\ ~IsUpgrade(c, "checked")'
  BY <1>2 DEF Making, IsUpgrade, At
<1>6. QED
  BY <1>2, <1>3, <1>4, <1>5, QuietKeeps

LEMMA SendKeeps ==
    ASSUME AccountsInv, NEW c \in Calls, NEW o \in Ops \ {"webhook"}, NEW u \in Users, NEW k \in Nat,
           NEW p \in Plans, call' = [call EXCEPT ![c] = NewCall(o, u, k, p, NoEvent)],
           UNCHANGED <<keys, cards, stripeVars, events, historyVars>>
    PROVE  AccountsInv'
<1> DEFINE r == NewCall(o, u, k, p, NoEvent)
<1>1. r \in CallRec
  BY NewCallType
<1>2. Plain(r)
  BY DEF NewCall, Plain
<1> HIDE DEF r
<1>3. QED
  BY <1>1, <1>2, GoKeeps DEF r

LEMMA KeysAreRows ==
    ASSUME TypeOK
    PROVE  /\ Len(keys) \in Nat /\ DOMAIN keys = 1..Len(keys)
           /\ \A k \in DOMAIN keys : keys[k] \in Row
BY DEF TypeOK

LEMMA ClientKeeps ==
    ASSUME AccountsInv, NEW c \in Calls, ClientStep(c)
    PROVE  AccountsInv'
<1>1. PICK u \in Users \ Watchers : \E o \in wants[u] \cap Requests :
         CASE o = "rotate" -> \E k \in {i \in DOMAIN keys : keys[i].user = u} : Send(c, o, u, k, "free")
           [] o = "checkout" -> \E p \in Sold : Send(c, o, u, 0, p)
           [] OTHER -> Send(c, o, u, 0, "free")
  BY DEF ClientStep, Client
<1>0. PICK o \in wants[u] \cap Requests :
         CASE o = "rotate" -> \E k \in {i \in DOMAIN keys : keys[i].user = u} : Send(c, o, u, k, "free")
           [] o = "checkout" -> \E p \in Sold : Send(c, o, u, 0, p)
           [] OTHER -> Send(c, o, u, 0, "free")
  BY <1>1
<1>2. o \in Ops \ {"webhook"}
  BY DEF Requests, Ops, KeyOps
<1>3. PICK k \in Nat, p \in Plans : Send(c, o, u, k, p)
  <2>1. DOMAIN keys \subseteq Nat /\ 0 \in Nat /\ "free" \in Plans /\ Sold \subseteq Plans
    BY KeysAreRows DEF AccountsInv, Plans
  <2>2. CASE o = "rotate"
    BY <1>0, <2>1, <2>2
  <2>3. CASE o = "checkout"
    BY <1>0, <2>1, <2>3
  <2>4. CASE o \notin {"rotate", "checkout"}
    BY <1>0, <2>1, <2>4
  <2>5. QED
    BY <2>2, <2>3, <2>4
<1>4. QED
  BY <1>2, <1>3, SendKeeps DEF Send, ClientStep

LEMMA FailKeeps ==
    ASSUME AccountsInv, NEW c \in Calls, Fail(c)
    PROVE  AccountsInv'
BY AnswerKeeps DEF Fail, stripeVars, historyVars, AccountsInv, TypeOK

LEMMA OpenSessionKeeps ==
    ASSUME AccountsInv, NEW c \in Calls, OpenSession(c)
    PROVE  AccountsInv'
<1>1. TypeOK /\ call[c] # Idle /\ call[c] \in CallRec /\ call[c].op # "webhook" /\ call[c].user \in Users
  BY DEF OpenSession, At, AccountsInv, TypeOK, CallRec
<1> DEFINE All == [user : Users, mode : {"subscription"}, plan : Sold]
                        \cup [user : Users, mode : {"setup"}, plan : {"free_plus"}]
<1>2. ASSUME call[c].op = "checkout" => call[c].plan \in Sold PROVE Opened(c) \subseteq All
  <2>1. CASE call[c].op = "checkout"
    BY <1>1, <1>2, <2>1 DEF Opened
  <2>2. CASE call[c].op = "setup_card"
    BY <1>1, <2>2 DEF Opened
  <2>3. CASE call[c].op \notin {"checkout", "setup_card"}
    BY <2>3 DEF Opened
  <2>4. QED
    BY <2>1, <2>2, <2>3
<1>3. sessions \subseteq All
  BY <1>1 DEF TypeOK
<1>4. PICK good \in BOOLEAN : Answer(c, good) /\ sessions' \subseteq All
  BY <1>2, <1>3 DEF OpenSession
<1>5. UNCHANGED <<keys, cards, subs, method, missed, raced>>
  BY DEF OpenSession, historyVars
<1>6. QED
  BY <1>1, <1>4, <1>5, AnswerKeeps

LEMMA AnswerPlanKeeps ==
    ASSUME AccountsInv, NEW c \in Calls, At(c, {"usage"}, "sent") \/ At(c, {"usage"}, "read") \/ At(c, {"usage"}, "checked"),
           UNCHANGED <<keys, cards, stripeVars, historyVars>>,
           \/ \E p \in Plans : AnswerPlan(c, p)
           \/ Step(c, "read") \/ Step(c, "checked")
    PROVE  AccountsInv'
<1>1. call[c] \in CallRec /\ call[c].op = "usage"
  BY DEF At, AccountsInv, TypeOK
<1>2. ASSUME NEW p \in Plans, AnswerPlan(c, p) PROVE AccountsInv'
  <2> DEFINE a == [call[c] EXCEPT !.st = "done"]
             b == [a EXCEPT !.ok = TRUE]
             r == [b EXCEPT !.plan = p]
  <2>1. [call[c] EXCEPT !.st = "done", !.ok = TRUE, !.plan = p] = r
    BY <1>1 DEF CallRec
  <2>2. a \in CallRec /\ a.op = "usage"
    BY <1>1 DEF CallRec
  <2> HIDE DEF a
  <2>3. b \in CallRec /\ b.op = "usage"
    BY <2>2 DEF CallRec
  <2> HIDE DEF b
  <2>4. r \in CallRec /\ r.op = "usage"
    BY <2>3 DEF CallRec
  <2> HIDE DEF r
  <2>5. call' = [call EXCEPT ![c] = r] /\ UNCHANGED events
    BY <1>2, <2>1 DEF AnswerPlan, Go
  <2>6. QED
    BY <2>4, <2>5, GoKeeps DEF Plain
<1>3. ASSUME NEW s \in {"read", "checked"}, Step(c, s) PROVE AccountsInv'
  <2> DEFINE r == [call[c] EXCEPT !.st = s]
  <2>1. r \in CallRec /\ r.op = "usage"
    BY <1>1 DEF CallRec
  <2>2. call' = [call EXCEPT ![c] = r] /\ UNCHANGED events
    BY <1>3 DEF Step, Go
  <2> HIDE DEF r
  <2>3. QED
    BY <2>1, <2>2, GoKeeps DEF Plain
<1>4. QED
  BY <1>2, <1>3

LEMMA UsageKeeps ==
    ASSUME AccountsInv, NEW c \in Calls, UsageKeys(c) \/ UsageStripe(c) \/ UsageCard(c)
    PROVE  AccountsInv'
<1>1. TypeOK
  BY DEF AccountsInv
<1>2. CASE UsageKeys(c)
  <2> DEFINE ks == ActiveKeys(call[c].user)
  <2>1. ASSUME ks # {} PROVE Oldest(ks) \in DOMAIN keys
    <3>1. ks \in SUBSET Nat /\ ks \subseteq DOMAIN keys
      BY <1>1, KeysAreRows DEF ActiveKeys
    <3> HIDE DEF ks
    <3>2. \E m \in ks : \A k \in ks : m <= k
      BY <2>1, <3>1, Least
    <3>3. \E m \in ks : \A k \in ks : k >= m
      BY <3>1, <3>2
    <3>4. QED
      BY <3>1, <3>3 DEF Oldest
  <2>2. ks # {} => keys[Oldest(ks)].plan \in Plans
    BY <1>1, <2>1, KeysAreRows DEF Row
  <2>3. (\E p \in Plans : AnswerPlan(c, p)) \/ Step(c, "read")
    BY <1>2, <2>2 DEF UsageKeys
  <2>4. QED
    BY <1>2, <2>3, AnswerPlanKeeps DEF UsageKeys
<1>3. CASE UsageStripe(c)
  <2>1. ASSUME NEW s \in ActiveSubs(call[c].user) PROVE subs[s].plan \in Plans
    BY <1>1, <2>1 DEF TypeOK, ActiveSubs, SubsOf, Sub, Plans
  <2>2. QED
    BY <1>3, <2>1, AnswerPlanKeeps DEF UsageStripe
<1>4. CASE UsageCard(c)
  BY <1>4, AnswerPlanKeeps DEF UsageCard, Plans
<1>5. QED
  BY <1>2, <1>3, <1>4

LEMMA ListKeeps ==
    ASSUME AccountsInv, NEW c \in Calls, ListKeys(c)
    PROVE  AccountsInv'
BY AnswerKeeps DEF ListKeys, At, stripeVars, historyVars, AccountsInv, TypeOK

-----------------------------------------------------------------------------
(* Cards: the upgrade to Free+ up to its commit. *)
LEMMA HookStays ==
    ASSUME NEW c \in Calls, NEW r, call'[c] = r, UNCHANGED <<cards, subs>>, HookFine(c),
           r.ev = call[c].ev, r.user = call[c].user, r.st # "done",
           r.ev.type # "setup" /\ r.st = "read" =>
               /\ Earned(r.user, r.plan)
               /\ r.ev.type = "completed" => r.plan \in subs[r.ev.sub].had
    PROVE  HookFine(c)'
<1>1. EventFine(r.ev) <=> EventFine(r.ev)'
  BY DEF EventFine
<1>2. Earned(r.user, r.plan) <=> Earned(r.user, r.plan)'
  BY DEF Earned, Bought, SubsOf, HasCard
<1>3. QED
  BY <1>1, <1>2 DEF HookFine

LEMMA UpgradeCardKeeps ==
    ASSUME AccountsInv, NEW c \in Calls, UpgradeCard(c)
    PROVE  AccountsInv'
<1>1. TypeOK /\ CallFine(c) /\ call[c] \in CallRec /\ call[c] # Idle /\ call[c].op \in {"confirm", "webhook"}
      /\ (call[c].op = "webhook" => call[c].ev.type = "setup")
  BY DEF UpgradeCard, IsUpgrade, At, AccountsInv, TypeOK
<1> DEFINE f == method[call[c].user]
           Read == f # NoCard /\ Go(c, [call[c] EXCEPT !.st = "read", !.card = f])
<1>2. CASE Answer(c, call[c].op = "webhook")
  <2> DEFINE good == call[c].op = "webhook"
  <2>1. Answer(c, good) /\ good \in BOOLEAN /\ UNCHANGED <<keys, cards, stripeVars, historyVars>>
    BY <1>2 DEF UpgradeCard
  <2> HIDE DEF good
  <2>2. QED
    BY <1>1, <2>1, AnswerKeeps DEF stripeVars, historyVars, TypeOK
<1>3. CASE Read
  <2> DEFINE a == [call[c] EXCEPT !.st = "read"]
             r == [a EXCEPT !.card = f]
  <2>1. f \in Cards
    BY <1>1, <1>3 DEF TypeOK, CallRec
  <2>2. [call[c] EXCEPT !.st = "read", !.card = f] = r
    BY <1>1 DEF CallRec
  <2>3. call' = [call EXCEPT ![c] = r] /\ UNCHANGED <<keys, cards, stripeVars, events, historyVars>>
    BY <1>3, <2>2 DEF UpgradeCard, Go
  <2> HIDE DEF f
  <2>4. a \in CallRec /\ a.st = "read" /\ a.op = call[c].op /\ a.ev = call[c].ev /\ a.user = call[c].user
    BY <1>1 DEF CallRec
  <2> HIDE DEF a
  <2>5. r \in CallRec /\ r.st = "read" /\ r.op = call[c].op /\ r.ev = call[c].ev /\ r.user = call[c].user
        /\ r.card \in Cards
    BY <2>1, <2>4 DEF CallRec
  <2> HIDE DEF r
  <2>6. call'[c] = r
    BY <1>1, <2>3, <2>5, Gone
  <2>7. r.op = "webhook" => HookFine(c)'
    BY <1>1, <2>3, <2>5, <2>6, HookStays DEF CallFine, stripeVars
  <2>8. CallFine(c)'
    BY <1>1, <2>5, <2>6, <2>7 DEF CallFine, Making, At
  <2>9. QED
    BY <1>1, <2>3, <2>5, <2>8, HoldKeeps
<1>4. QED
  BY <1>2, <1>3 DEF UpgradeCard

LEMMA UpgradeCheckKeeps ==
    ASSUME AccountsInv, NEW c \in Calls, UpgradeCheck(c)
    PROVE  AccountsInv'
<1>1. TypeOK /\ CallFine(c) /\ call[c] \in CallRec /\ call[c] # Idle /\ call[c].op \in {"confirm", "webhook"}
      /\ (call[c].op = "webhook" => call[c].ev.type = "setup") /\ call[c].card \in Cards
  BY DEF UpgradeCheck, IsUpgrade, At, AccountsInv, TypeOK, CallFine
<1> DEFINE u == call[c].user  f == call[c].card
<1>2. CASE OthersHave(f, u)
  <2> DEFINE good == call[c].op = "webhook"
  <2>1. Answer(c, good) /\ good \in BOOLEAN /\ UNCHANGED <<keys, cards, stripeVars, historyVars>>
    BY <1>2 DEF UpgradeCheck, historyVars
  <2> HIDE DEF good
  <2>2. QED
    BY <1>1, <2>1, AnswerKeeps DEF stripeVars, historyVars, TypeOK
<1>3. CASE ~OthersHave(f, u)
  <2> DEFINE r == [call[c] EXCEPT !.st = "checked"]
             Met == \E d \in Calls \ {c} : IsUpgrade(d, "checked") /\ call[d].card = f /\ call[d].user # u
  <2>1. /\ call' = [call EXCEPT ![c] = r] /\ UNCHANGED <<keys, cards, stripeVars, events, missed>>
        /\ raced' = IF Met THEN raced \cup {f} ELSE raced
    BY <1>3 DEF UpgradeCheck, Step, Go
  <2>2. r \in CallRec /\ r.st = "checked" /\ r.op = call[c].op /\ r.ev = call[c].ev /\ r.user = u /\ r.card = f
    BY <1>1 DEF CallRec
  <2> HIDE DEF r
  <2>3. call' \in [Calls -> CallRec \cup {Idle}] /\ OthersAlone(c) /\ call'[c] = r
    BY <1>1, <2>1, <2>2, Gone
  <2>4. UNCHANGED <<keys, cards, subs, method, sessions, events, missed>> /\ raced \subseteq raced' /\ (Met => f \in raced')
    BY <2>1 DEF stripeVars
  <2>5. CallFine(c)' /\ ~Making(c)'
    <3>1. r.op = "webhook" => HookFine(c)'
      BY <1>1, <2>2, <2>3, <2>4, HookStays DEF CallFine
    <3>2. QED
      BY <1>1, <2>2, <2>3, <3>1 DEF CallFine, Making, At
  <2>6. /\ StripeGrows
        /\ \A s \in Subs : SubFine(s)'
        /\ \A e \in events' : EventFine(e)'
        /\ \A d \in Calls : CallFine(d)'
    <3>1. RowsMove
      BY <2>4 DEF RowsMove
    <3>2. QED
      BY <2>3, <2>4, <2>5, <3>1, CallsStay
  <2>7. SharedOnlyIfRaced'
    BY <2>4 DEF AccountsInv, SharedOnlyIfRaced
  <2>8. ASSUME NEW d \in Calls PROVE CheckHolds(d)'
    <3>1. \A g, v : OthersHave(g, v)' <=> OthersHave(g, v)
      BY <2>4 DEF OthersHave
    <3>2. \A e \in Calls \ {c} : call'[e] = call[e] /\ (IsUpgrade(e, "checked")' <=> IsUpgrade(e, "checked"))
      BY <2>3 DEF OthersAlone, IsUpgrade, At
    <3>3. SUFFICES ASSUME IsUpgrade(d, "checked")', call'[d].card \notin raced'
                   PROVE  /\ ~OthersHave(call'[d].card, call'[d].user)
                          /\ \A e \in Calls : IsUpgrade(e, "checked")' /\ call'[e].card = call'[d].card
                                                => call'[e].user = call'[d].user
      BY <2>4 DEF CheckHolds, OthersHave
    <3> HIDE DEF Met
    <3>4. CASE d = c
      <4>1. call'[d].card = f /\ call'[d].user = u /\ ~Met
        BY <2>2, <2>3, <2>4, <3>3, <3>4
      <4>2. QED
        BY <1>3, <3>2, <3>4, <4>1 DEF Met
    <3>5. CASE d # c
      <4>1. CheckHolds(d) /\ IsUpgrade(d, "checked") /\ call'[d] = call[d] /\ call[d].card \notin raced
        BY <2>4, <3>2, <3>3, <3>5 DEF AccountsInv
      <4>2. ~OthersHave(call[d].card, call[d].user)
            /\ \A e \in Calls : IsUpgrade(e, "checked") /\ call[e].card = call[d].card => call[e].user = call[d].user
        BY <4>1 DEF CheckHolds
      <4>3. call[d].card = f => call[d].user = u
        BY <2>4, <3>3, <3>5, <4>1 DEF Met
      <4>4. QED
        BY <2>2, <2>3, <3>2, <4>1, <4>2, <4>3
    <3>6. QED
      BY <3>4, <3>5
  <2>9. OneRowEach'
    BY <2>3, <2>5, RowsStay
  <2>10. ServedOrTold'
    BY <2>3, <2>4, <2>5, RecordedSame, ServedStays
  <2>11. PlansAreEarned'
    BY <2>4, <2>6, PlansStay DEF AccountsInv, PlansAreEarned, Earned
  <2>12. TypeOK'
    BY <1>1, <2>3, <2>4 DEF TypeOK
  <2>13. QED
    BY <2>6, <2>7, <2>8, <2>9, <2>10, <2>11, <2>12 DEF AccountsInv
<1>4. QED
  BY <1>2, <1>3

-----------------------------------------------------------------------------
(* The webhook, before it writes. *)
LEMMA DeliverKeeps ==
    ASSUME AccountsInv, NEW c \in Calls, NEW e \in events, Deliver(c, e)
    PROVE  AccountsInv'
<1> DEFINE r == NewCall("webhook", e.user, 0, "free", e)
<1>1. e \in Event /\ EventFine(e) /\ e.user \in Users
  BY DEF AccountsInv, TypeOK, Event
<1>2. "webhook" \in Ops /\ "free" \in Plans /\ 0 \in Nat /\ e \in Event \cup {NoEvent}
  BY <1>1 DEF Ops, Plans
<1>3. r \in CallRec
  BY <1>1, <1>2, NewCallType
<1>4. r.op = "webhook" /\ r.st = "sent" /\ r.ev = e /\ r.user = e.user
  BY DEF NewCall
<1>5. call' = [call EXCEPT ![c] = r] /\ UNCHANGED <<keys, cards, stripeVars, events, historyVars>>
  BY DEF Deliver
<1> HIDE DEF r
<1>6. call'[c] = r
  BY <1>3, <1>5, Gone DEF AccountsInv
<1>7. EventFine(e)'
  BY <1>1, <1>5 DEF EventFine, stripeVars
<1>8. HookFine(c)'
  BY <1>1, <1>4, <1>6, <1>7 DEF HookFine
<1>9. CallFine(c)'
  BY <1>4, <1>6, <1>8 DEF CallFine, Making, IsUpgrade, At
<1>10. QED
  BY <1>3, <1>4, <1>5, <1>9, HoldKeeps

LEMMA HookReadKeeps ==
    ASSUME AccountsInv, NEW c \in Calls, HookRead(c)
    PROVE  AccountsInv'
<1> DEFINE e == call[c].ev
           q == IF e.type = "completed" THEN subs[e.sub].plan ELSE PlanWithout(e.user)
           a == [call[c] EXCEPT !.st = "read"]
           r == [a EXCEPT !.plan = q]
<1>1. TypeOK /\ call[c] \in CallRec /\ call[c] # Idle /\ call[c].op = "webhook" /\ e.type \in {"completed", "deleted"}
  BY DEF HookRead, At, AccountsInv, TypeOK
<1>2. HookFine(c) /\ e \in Event /\ EventFine(e) /\ call[c].user = e.user /\ e.user \in Users
  BY <1>1 DEF AccountsInv, CallFine, HookFine, CallRec
<1>3. q \in Plans /\ Earned(e.user, q) /\ (e.type = "completed" => q \in subs[e.sub].had)
  <2>1. CASE e.type = "completed"
    <3>1. e.sub \in Subs /\ subs[e.sub] # NoSub /\ subs[e.sub] \in Sub /\ subs[e.sub].user = e.user
      BY <1>1, <1>2, <2>1 DEF Event, EventFine, TypeOK
    <3>2. SubFine(e.sub)
      BY <3>1 DEF AccountsInv
    <3>3. q \in Sold /\ q \in subs[e.sub].had
      BY <2>1, <3>1, <3>2 DEF Sub, SubFine
    <3>4. e.sub \in SubsOf(e.user) /\ e.user \in Family(e.user)
      BY <3>1 DEF SubsOf, Family
    <3>5. Bought(e.user, q)
      BY <3>3, <3>4 DEF Bought
    <3>6. Earned(e.user, q) /\ q \in Plans
      BY <3>3, <3>5, NotSold DEF Earned, Plans
    <3>7. QED
      BY <3>3, <3>6
  <2>2. CASE e.type = "deleted"
    BY <2>2, NotSold DEF PlanWithout, Earned, Family, Plans
  <2>3. QED
    BY <1>1, <2>1, <2>2
<1>4. [call[c] EXCEPT !.st = "read", !.plan = q] = r
  BY <1>1 DEF CallRec
<1>5. call' = [call EXCEPT ![c] = r] /\ UNCHANGED <<keys, cards, stripeVars, events, historyVars>>
  BY <1>4 DEF HookRead, Go
<1> HIDE DEF q
<1>6. a \in CallRec /\ a.st = "read" /\ a.op = "webhook" /\ a.ev = e /\ a.user = e.user
  BY <1>1, <1>2 DEF CallRec
<1> HIDE DEF a
<1>7. r \in CallRec /\ r.st = "read" /\ r.op = "webhook" /\ r.ev = e /\ r.user = e.user /\ r.plan = q
  BY <1>3, <1>6 DEF CallRec
<1> HIDE DEF r
<1>8. call'[c] = r
  BY <1>1, <1>5, <1>7, Gone
<1>9. HookFine(c)'
  <2>1. UNCHANGED <<cards, subs>>
    BY <1>5 DEF stripeVars
  <2>2. QED
    BY <1>2, <1>3, <1>7, <1>8, <2>1, HookStays
<1>10. CallFine(c)'
  BY <1>1, <1>7, <1>8, <1>9 DEF CallFine, Making, IsUpgrade, At
<1>11. QED
  BY <1>5, <1>7, <1>10, HoldKeeps

-----------------------------------------------------------------------------
(* Keys: a step that changes rows and holds nothing afterwards. *)
LEMMA StillRows ==
    ASSUME TypeOK, NEW f, DOMAIN f = DOMAIN keys, f = [k \in DOMAIN keys |-> f[k]],
           \A k \in DOMAIN keys : f[k] \in Row
    PROVE  f \in Seq(Row)
<1>1. DOMAIN keys = 1..Len(keys) /\ Len(keys) \in Nat
  BY KeysAreRows
<1>2. f \in [1..Len(keys) -> Row]
  BY <1>1
<1>3. QED
  BY <1>1, <1>2, SeqDef

LEMMA WriteKeeps ==
    ASSUME AccountsInv, NEW c \in Calls, NEW good \in BOOLEAN, call[c] # Idle, Answer(c, good),
           UNCHANGED <<cards, stripeVars, raced>>, missed \subseteq missed', keys' \in Seq(Row), RowsMove,
           \A d \in Calls \ {c} : Making(d) => /\ keys'[call[d].new].status = keys[call[d].new].status
                                               /\ keys'[call[d].new].user = keys[call[d].new].user,
           \A k \in DOMAIN keys' : Earned(keys'[k].user, keys'[k].plan),
           ServedOrTold'
    PROVE  AccountsInv'
<1>1. TypeOK
  BY DEF AccountsInv
<1>2. /\ call' \in [Calls -> CallRec \cup {Idle}] /\ OthersAlone(c) /\ Plain(call'[c])
      /\ events' \subseteq events
  BY <1>1, Answered
<1>3. UNCHANGED <<subs, method, sessions>>
  BY DEF stripeVars
<1>4. TypeOK'
  BY <1>1, <1>2, <1>3 DEF TypeOK
<1>5. CallFine(c)' /\ ~Making(c)' /\ ~IsUpgrade(c, "checked")'
  BY <1>2, PlainIsFine
<1>6. /\ StripeGrows
      /\ \A s \in Subs : SubFine(s)'
      /\ \A e \in events' : EventFine(e)'
      /\ \A d \in Calls : CallFine(d)'
  BY <1>2, <1>3, <1>5, CallsStay
<1>7. SharedOnlyIfRaced' /\ \A d \in Calls : CheckHolds(d)'
  BY <1>2, <1>5, ChecksStay
<1>8. OneRowEach'
  BY <1>2, <1>5, RowsStay
<1>9. PlansAreEarned'
  BY <1>6, PlansStay
<1>10. QED
  BY <1>4, <1>6, <1>7, <1>8, <1>9 DEF AccountsInv

(* The rows of a step that gives no key another plan, owner or place: none
   gets active but what a request has made.                                *)
LEMMA StatusKeeps ==
    ASSUME AccountsInv, NEW c \in Calls, call[c] # Idle, call[c].op # "webhook", Answer(c, TRUE),
           UNCHANGED <<cards, stripeVars, historyVars>>, keys' \in Seq(Row), DOMAIN keys' = DOMAIN keys,
           \A k \in DOMAIN keys :
               /\ keys'[k].user = keys[k].user /\ keys'[k].plan = keys[k].plan
               /\ \/ keys'[k].status = keys[k].status
                  \/ IsActive(k) /\ keys'[k].status \in {"live", "disabled"}
                  \/ Making(c) /\ k = call[c].new /\ keys'[k].status = "live"
                  \/ keys'[k].status = "revoked" /\ keys[k].status # "pending",
           \A u \in Users \ missed : ActiveKeys(u) # {} => ActiveKeys(u)' # {}
    PROVE  AccountsInv'
<1>1. RowsMove
  <2>1. Making(c) => keys[call[c].new].status = "pending"
    BY DEF AccountsInv, CallFine, NewRowFine
  <2>2. QED
    BY <2>1 DEF RowsMove, IsActive
<1>2. ASSUME NEW d \in Calls \ {c}, Making(d)
      PROVE  keys'[call[d].new].status = keys[call[d].new].status /\ keys'[call[d].new].user = keys[call[d].new].user
  <2>1. CallFine(d) /\ NewRowFine(d)
    BY <1>2 DEF AccountsInv, CallFine
  <2>2. Making(c) => call[c].new # call[d].new
    BY <1>2 DEF AccountsInv, OneRowEach
  <2>3. QED
    BY <2>1, <2>2 DEF NewRowFine, IsActive
<1>3. \A k \in DOMAIN keys' : Earned(keys'[k].user, keys'[k].plan)
  BY DEF AccountsInv, PlansAreEarned, Earned
<1>4. OthersAlone(c) /\ Plain(call'[c]) /\ events' = events
  BY Answered DEF AccountsInv
<1>5. ~Making(c)' /\ \A d \in Calls : Making(d)' => d # c /\ Making(d) /\ call'[d] = call[d]
  BY <1>4, PlainIsFine, RowsStay
<1>6. ASSUME NEW u \in Users \ missed, NEW p \in Sold, Recorded(u, p) PROVE Recorded(u, p)'
  <2>1. \A k \in ActiveKeys(u)' : keys'[k].plan = p
    <3>1. ASSUME NEW k \in ActiveKeys(u)', k \notin ActiveKeys(u) PROVE Making(c) /\ k = call[c].new /\ keys[k].user = u
      BY <3>1 DEF ActiveKeys, IsActive
    <3>2. Making(c) => call[c].user = keys[call[c].new].user
      BY DEF AccountsInv, CallFine, NewRowFine
    <3>3. \A k \in ActiveKeys(u)' : k \in DOMAIN keys
      BY DEF ActiveKeys
    <3>4. QED
      BY <1>6, <3>1, <3>2, <3>3 DEF Recorded
  <2>2. \A d \in Calls : Making(d)' /\ call'[d].user = u => keys'[call'[d].new].plan = p
    BY <1>5, <1>6 DEF Recorded, AccountsInv, CallFine, NewRowFine
  <2>3. QED
    BY <1>6, <2>1, <2>2 DEF Recorded
<1>7. ServedOrTold'
  <2>1. subs' = subs /\ missed' = missed
    BY DEF stripeVars, historyVars
  <2>2. QED
    BY <1>4, <1>6, <2>1, ServedStays
<1>8. QED
  BY <1>1, <1>2, <1>3, <1>7, WriteKeeps DEF historyVars

LEMMA CreateCommitKeeps ==
    ASSUME AccountsInv, NEW c \in Calls, CreateCommit(c)
    PROVE  AccountsInv'
<1> DEFINE n == call[c].new
<1>1. TypeOK /\ Making(c) /\ call[c] # Idle /\ call[c].op # "webhook"
  BY DEF CreateCommit, Making, At, AccountsInv
<1>2. n \in DOMAIN keys /\ keys[n].status = "pending"
  BY <1>1 DEF AccountsInv, CallFine, NewRowFine
<1>3. keys' = [keys EXCEPT ![n].status = "live"] /\ Answer(c, TRUE) /\ UNCHANGED <<cards, stripeVars, historyVars>>
  BY DEF CreateCommit
<1>4. \A k \in DOMAIN keys : keys[k] \in Row
  BY <1>1, KeysAreRows
<1>5. /\ DOMAIN keys' = DOMAIN keys /\ keys' = [k \in DOMAIN keys |-> keys'[k]]
      /\ \A k \in DOMAIN keys : /\ keys'[k] \in Row /\ keys'[k].user = keys[k].user /\ keys'[k].plan = keys[k].plan
                                /\ keys'[k].status = IF k = n THEN "live" ELSE keys[k].status
  BY <1>2, <1>3, <1>4 DEF Row
<1>6. keys' \in Seq(Row)
  BY <1>1, <1>5, StillRows
<1>7. \A u : ActiveKeys(u) \subseteq ActiveKeys(u)'
  BY <1>5 DEF ActiveKeys, IsActive
<1>8. QED
  BY <1>1, <1>3, <1>5, <1>6, <1>7, StatusKeeps

LEMMA RotateCommitKeeps ==
    ASSUME AccountsInv, NEW c \in Calls, RotateCommit(c)
    PROVE  AccountsInv'
<1> DEFINE n == call[c].new
           o == call[c].key
           mid == [keys EXCEPT ![o].status = "revoked"]
<1>1. TypeOK /\ Making(c) /\ call[c] # Idle /\ call[c].op = "rotate"
  BY DEF RotateCommit, Making, At, AccountsInv
<1>2. NewRowFine(c) /\ OldRowFine(c)
  BY <1>1 DEF AccountsInv, CallFine
<1>3. n \in DOMAIN keys /\ o \in DOMAIN keys /\ keys[n].status = "pending" /\ keys[o].status # "pending" /\ n # o
  BY <1>2 DEF NewRowFine, OldRowFine
<1>4. keys' = [keys EXCEPT ![o].status = "revoked", ![n].status = "live"] /\ Answer(c, TRUE)
      /\ UNCHANGED <<cards, stripeVars, historyVars>>
  BY DEF RotateCommit
<1>5. \A k \in DOMAIN keys : keys[k] \in Row
  BY <1>1, KeysAreRows
<1>6. /\ DOMAIN mid = DOMAIN keys
      /\ \A k \in DOMAIN keys : /\ mid[k] \in Row /\ mid[k].user = keys[k].user /\ mid[k].plan = keys[k].plan
                                /\ mid[k].status = IF k = o THEN "revoked" ELSE keys[k].status
  BY <1>3, <1>5 DEF Row
<1>7. keys' = [mid EXCEPT ![n].status = "live"]
  BY <1>4
<1> HIDE DEF mid
<1>8. /\ DOMAIN keys' = DOMAIN keys /\ keys' = [k \in DOMAIN keys |-> keys'[k]]
      /\ \A k \in DOMAIN keys : /\ keys'[k] \in Row /\ keys'[k].user = keys[k].user /\ keys'[k].plan = keys[k].plan
                                /\ keys'[k].status = IF k = n THEN "live" ELSE mid[k].status
  BY <1>3, <1>6, <1>7 DEF Row
<1>9. keys' \in Seq(Row)
  BY <1>1, <1>8, StillRows
<1>10. ASSUME NEW u \in Users \ missed, ActiveKeys(u) # {} PROVE ActiveKeys(u)' # {}
  <2>1. CASE call[c].user = u
    <3>1. n \in ActiveKeys(u)'
      BY <1>2, <1>3, <1>8, <2>1 DEF ActiveKeys, IsActive, NewRowFine
    <3>2. QED
      BY <3>1
  <2>2. CASE call[c].user # u
    <3>1. o \notin ActiveKeys(u)
      BY <1>2, <1>10, <2>2 DEF OldRowFine, ActiveKeys, IsActive
    <3>2. ActiveKeys(u) \subseteq ActiveKeys(u)'
      BY <1>3, <1>6, <1>8, <3>1 DEF ActiveKeys, IsActive
    <3>3. QED
      BY <1>10, <3>2
  <2>3. QED
    BY <2>1, <2>2
<1>11. \A k \in DOMAIN keys :
          \/ keys'[k].status = keys[k].status
          \/ Making(c) /\ k = call[c].new /\ keys'[k].status = "live"
          \/ keys'[k].status = "revoked" /\ keys[k].status # "pending"
  BY <1>1, <1>3, <1>6, <1>8
<1>12. QED
  BY <1>1, <1>4, <1>8, <1>9, <1>10, <1>11, StatusKeeps

LEMMA ToggleKeeps ==
    ASSUME AccountsInv, NEW c \in Calls, Toggle(c)
    PROVE  AccountsInv'
<1> DEFINE k == call[c].key
           from == IF call[c].op = "disable" THEN "live" ELSE "disabled"
           to == IF call[c].op = "disable" THEN "disabled" ELSE "live"
<1>1. TypeOK /\ call[c] # Idle /\ call[c].op # "webhook" /\ UNCHANGED <<cards, stripeVars, historyVars>>
  BY DEF Toggle, At, AccountsInv
<1>2. CASE k \in ActiveKeys(call[c].user) /\ keys[k].status = from
  <2>1. keys' = [keys EXCEPT ![k].status = to] /\ Answer(c, TRUE)
    BY <1>2 DEF Toggle
  <2>2. \A j \in DOMAIN keys : keys[j] \in Row
    BY <1>1, KeysAreRows
  <2>3. k \in DOMAIN keys /\ IsActive(k) /\ to \in {"live", "disabled"}
    BY <1>2 DEF ActiveKeys
  <2> HIDE DEF to, from
  <2>4. /\ DOMAIN keys' = DOMAIN keys /\ keys' = [j \in DOMAIN keys |-> keys'[j]]
        /\ \A j \in DOMAIN keys : /\ keys'[j] \in Row /\ keys'[j].user = keys[j].user /\ keys'[j].plan = keys[j].plan
                                  /\ keys'[j].status = IF j = k THEN to ELSE keys[j].status
    BY <2>1, <2>2, <2>3 DEF Row
  <2>5. keys' \in Seq(Row)
    BY <1>1, <2>4, StillRows
  <2>6. \A u : ActiveKeys(u) \subseteq ActiveKeys(u)'
    BY <2>3, <2>4 DEF ActiveKeys, IsActive
  <2>7. QED
    BY <1>1, <2>1, <2>3, <2>4, <2>5, <2>6, StatusKeeps
<1>3. CASE ~(k \in ActiveKeys(call[c].user) /\ keys[k].status = from)
  <2>1. Answer(c, FALSE) /\ UNCHANGED keys
    BY <1>3 DEF Toggle
  <2>2. QED
    BY <1>1, <2>1, AnswerKeeps DEF stripeVars, historyVars, TypeOK
<1>4. QED
  BY <1>2, <1>3

-----------------------------------------------------------------------------
(* Keys: a step that adds a row, for a request to hold. *)
LEMMA MakeKeeps ==
    ASSUME AccountsInv, NEW c \in Calls, At(c, {"create", "rotate"}, "sent"),
           NEW p \in Plans, Insert(call[c].user, p),
           Go(c, [call[c] EXCEPT !.st = "read", !.new = Len(keys) + 1]),
           UNCHANGED <<cards, stripeVars, missed>>, raced \subseteq raced',
           Earned(call[c].user, p),
           ActiveKeys(call[c].user) # {} => \E k \in ActiveKeys(call[c].user) : keys[k].plan = p,
           call[c].op = "rotate" => call[c].key \in ActiveKeys(call[c].user)
    PROVE  AccountsInv'
<1>0. PICK n : n = Len(keys) + 1
  OBVIOUS
<1> DEFINE u == call[c].user
           a == [call[c] EXCEPT !.st = "read"]
           r == [a EXCEPT !.new = n]
<1>1. TypeOK /\ call[c] \in CallRec /\ call[c].op \in {"create", "rotate"} /\ u \in Users
  BY DEF At, AccountsInv, TypeOK, CallRec
<1>2. Len(keys) \in Nat /\ DOMAIN keys = 1..Len(keys) /\ \A k \in DOMAIN keys : keys[k] \in Row
  BY <1>1, KeysAreRows
<1>3. /\ keys' \in Seq(Row) /\ DOMAIN keys' = DOMAIN keys \cup {n} /\ n \notin DOMAIN keys /\ n \in Nat
      /\ \A k \in DOMAIN keys : keys'[k] = keys[k]
      /\ keys'[n].user = u /\ keys'[n].plan = p /\ keys'[n].status = "pending"
  <2>1. [user |-> u, plan |-> p, status |-> "pending"] \in Row
    BY <1>1 DEF Row
  <2>2. keys \in Seq(Row)
    BY <1>1 DEF TypeOK
  <2>3. keys' = Append(keys, [user |-> u, plan |-> p, status |-> "pending"])
    BY DEF Insert
  <2>4. QED
    BY <1>0, <1>2, <2>1, <2>2, <2>3
<1>4. call' = [call EXCEPT ![c] = r] /\ events' = events /\ subs' = subs /\ method' = method /\ sessions' = sessions
  <2>1. [call[c] EXCEPT !.st = "read", !.new = n] = r
    BY <1>1 DEF CallRec
  <2>2. QED
    BY <1>0, <2>1 DEF Go, stripeVars
<1>5. a \in CallRec /\ a.st = "read" /\ a.op = call[c].op /\ a.user = u /\ a.key = call[c].key
  BY <1>1 DEF CallRec
<1> HIDE DEF a
<1>6. r \in CallRec /\ r.st = "read" /\ r.op = call[c].op /\ r.user = u /\ r.key = call[c].key /\ r.new = n
  BY <1>3, <1>5 DEF CallRec
<1> HIDE DEF r
<1>7. call' \in [Calls -> CallRec \cup {Idle}] /\ OthersAlone(c) /\ call'[c] = r
  BY <1>1, <1>4, <1>6, Gone
<1>8. TypeOK'
  BY <1>1, <1>3, <1>4, <1>7 DEF TypeOK
<1>9. \A v : ActiveKeys(v)' = ActiveKeys(v)
  <2>1. \A k \in DOMAIN keys : IsActive(k)' <=> IsActive(k)
    BY <1>3 DEF IsActive
  <2>2. ~IsActive(n)'
    BY <1>3 DEF IsActive
  <2>3. QED
    BY <1>3, <2>1, <2>2 DEF ActiveKeys
<1>10. CallFine(c)' /\ ~IsUpgrade(c, "checked")'
  <2>1. NewRowFine(c)'
    BY <1>3, <1>6, <1>7 DEF NewRowFine
  <2>2. call[c].op = "rotate" => OldRowFine(c)'
    BY <1>3, <1>6, <1>7 DEF OldRowFine, ActiveKeys, IsActive
  <2>3. QED
    BY <1>1, <1>6, <1>7, <2>1, <2>2 DEF CallFine, IsUpgrade, At
<1>11. RowsMove
  BY <1>3 DEF RowsMove
<1>12. \A d \in Calls \ {c} : Making(d) => call[d].new \in DOMAIN keys
  BY DEF AccountsInv, CallFine, NewRowFine
<1>13. /\ StripeGrows
       /\ \A s \in Subs : SubFine(s)'
       /\ \A e \in events' : EventFine(e)'
       /\ \A d \in Calls : CallFine(d)'
  BY <1>3, <1>4, <1>7, <1>10, <1>11, <1>12, CallsStay
<1>14. SharedOnlyIfRaced' /\ \A d \in Calls : CheckHolds(d)'
  BY <1>7, <1>10, ChecksStay
<1>15. \A d \in Calls \ {c} : call'[d] = call[d] /\ (Making(d)' <=> Making(d))
  BY <1>7 DEF OthersAlone, Making, At
<1>16. OneRowEach'
  BY <1>3, <1>6, <1>7, <1>12, <1>15 DEF AccountsInv, OneRowEach
<1>17. PlansAreEarned'
  <2>1. ASSUME NEW k \in DOMAIN keys' PROVE Earned(keys'[k].user, keys'[k].plan)
    <3>1. CASE k = n
      BY <1>3, <3>1
    <3>2. CASE k \in DOMAIN keys
      BY <1>3, <3>2 DEF AccountsInv, PlansAreEarned, Earned
    <3>3. QED
      BY <1>3, <3>1, <3>2
  <2>2. QED
    BY <1>13, <2>1, PlansStay
<1>18. ASSUME NEW v \in Users, NEW q \in Sold, Recorded(v, q) PROVE Recorded(v, q)'
  <2>1. ActiveKeys(v)' # {} /\ \A k \in ActiveKeys(v)' : keys'[k].plan = q
    <3>1. ActiveKeys(v) \subseteq DOMAIN keys
      BY DEF ActiveKeys
    <3>2. QED
      BY <1>3, <1>9, <1>18, <3>1 DEF Recorded
  <2>2. v = u => p = q
    BY <1>18 DEF Recorded
  <2>3. ASSUME NEW d \in Calls, Making(d)', call'[d].user = v PROVE keys'[call'[d].new].plan = q
    <3>1. CASE d = c
      BY <1>3, <1>6, <1>7, <2>2, <2>3, <3>1
    <3>2. CASE d # c
      BY <1>3, <1>12, <1>15, <1>18, <2>3, <3>2 DEF Recorded
    <3>3. QED
      BY <3>1, <3>2
  <2>4. QED
    BY <2>1, <2>3 DEF Recorded
<1>19. ServedOrTold'
  BY <1>4, <1>18, ServedStays
<1>20. QED
  BY <1>8, <1>13, <1>14, <1>16, <1>17, <1>19 DEF AccountsInv

LEMMA CreateReadKeeps ==
    ASSUME AccountsInv, NEW c \in Calls, CreateRead(c)
    PROVE  AccountsInv'
<1> DEFINE u == call[c].user
           p == PlanOfNewKey(u)
<1>1. TypeOK /\ At(c, {"create", "rotate"}, "sent") /\ call[c].op = "create"
  BY DEF CreateRead, At, AccountsInv
<1>2. ASSUME ActiveKeys(u) # {} PROVE \E k \in ActiveKeys(u) : keys[k].plan = p
  <2>1. Len(keys) \in Nat /\ ActiveKeys(u) \in SUBSET (1..Len(keys))
    BY <1>1, KeysAreRows DEF ActiveKeys
  <2>2. \E m \in ActiveKeys(u) : \A k \in ActiveKeys(u) : k <= m
    BY <1>2, <2>1, Greatest
  <2>3. Newest(ActiveKeys(u)) \in ActiveKeys(u)
    BY <2>2 DEF Newest
  <2>4. QED
    BY <1>2, <2>3 DEF PlanOfNewKey
<1>3. p \in Plans /\ Earned(u, p)
  <2>1. CASE ActiveKeys(u) = {}
    BY <2>1, NotSold DEF PlanOfNewKey, Plans, Earned
  <2>2. CASE ActiveKeys(u) # {}
    <3>1. PICK k \in ActiveKeys(u) : keys[k].plan = p
      BY <1>2, <2>2
    <3>2. k \in DOMAIN keys /\ keys[k].user = u /\ keys[k] \in Row
      BY <1>1, KeysAreRows DEF ActiveKeys
    <3>3. QED
      BY <3>1, <3>2 DEF AccountsInv, PlansAreEarned, Earned, Row
  <2>3. QED
    BY <2>1, <2>2
<1>4. /\ Insert(u, p) /\ Go(c, [call[c] EXCEPT !.st = "read", !.new = Len(keys) + 1])
      /\ UNCHANGED <<cards, stripeVars, missed>> /\ raced' = raced
  BY DEF CreateRead, historyVars
<1> HIDE DEF p
<1>5. QED
  BY <1>1, <1>2, <1>3, <1>4, MakeKeeps

LEMMA RotateReadKeeps ==
    ASSUME AccountsInv, NEW c \in Calls, RotateRead(c)
    PROVE  AccountsInv'
<1> DEFINE u == call[c].user
           k == call[c].key
<1>1. TypeOK /\ At(c, {"create", "rotate"}, "sent") /\ call[c] # Idle /\ call[c].op = "rotate"
      /\ UNCHANGED <<cards, stripeVars, missed>>
  BY DEF RotateRead, At, AccountsInv
<1>2. CASE k \in Rotatable(u)
  <2>1. /\ Insert(u, keys[k].plan) /\ Go(c, [call[c] EXCEPT !.st = "read", !.new = Len(keys) + 1])
        /\ raced \subseteq raced'
    BY <1>2 DEF RotateRead
  <2>2. k \in ActiveKeys(u) /\ k \in DOMAIN keys /\ keys[k].user = u
    BY <1>2 DEF Rotatable, ActiveKeys
  <2>3. keys[k].plan \in Plans /\ Earned(u, keys[k].plan)
    BY <1>1, <2>2, KeysAreRows DEF Row, AccountsInv, PlansAreEarned, Earned
  <2>4. QED
    BY <1>1, <2>1, <2>2, <2>3, MakeKeeps
<1>3. CASE k \notin Rotatable(u)
  <2>1. Answer(c, FALSE) /\ UNCHANGED <<keys, raced>>
    BY <1>3 DEF RotateRead
  <2>2. QED
    BY <1>1, <2>1, AnswerKeeps DEF stripeVars, TypeOK
<1>4. QED
  BY <1>2, <1>3

-----------------------------------------------------------------------------
(* Plans: an UPDATE of the rows of an account. *)
LEMMA PlanWritten ==
    ASSUME TypeOK, NEW ks, NEW p \in Plans, keys' = WithPlan(ks, p)
    PROVE  /\ keys' \in Seq(Row) /\ DOMAIN keys' = DOMAIN keys /\ RowsMove
           /\ \A k \in DOMAIN keys : /\ keys'[k].user = keys[k].user /\ keys'[k].status = keys[k].status
                                     /\ keys'[k].plan = IF k \in ks THEN p ELSE keys[k].plan
           /\ \A u : ActiveKeys(u)' = ActiveKeys(u)
<1>1. \A k \in DOMAIN keys : keys[k] \in Row
  BY KeysAreRows
<1>2. /\ DOMAIN keys' = DOMAIN keys /\ keys' = [k \in DOMAIN keys |-> keys'[k]]
      /\ \A k \in DOMAIN keys : keys'[k] = IF k \in ks THEN [keys[k] EXCEPT !.plan = p] ELSE keys[k]
  BY DEF WithPlan
<1>3. \A k \in DOMAIN keys : /\ keys'[k] \in Row
                            /\ keys'[k].user = keys[k].user /\ keys'[k].status = keys[k].status
                            /\ keys'[k].plan = IF k \in ks THEN p ELSE keys[k].plan
  BY <1>1, <1>2 DEF Row
<1>4. keys' \in Seq(Row)
  BY <1>2, <1>3, StillRows
<1>5. RowsMove
  BY <1>2, <1>3 DEF RowsMove
<1>6. \A u : ActiveKeys(u)' = ActiveKeys(u)
  BY <1>2, <1>3 DEF ActiveKeys, IsActive
<1>7. QED
  BY <1>2, <1>3, <1>4, <1>5, <1>6

LEMMA HookWriteKeeps ==
    ASSUME AccountsInv, NEW c \in Calls, HookWrite(c)
    PROVE  AccountsInv'
<1>1. PICK u, e, p : u = call[c].user /\ e = call[c].ev /\ p = IF e.type = "updated" THEN e.plan ELSE call[c].plan
  OBVIOUS
<1>2. /\ TypeOK /\ call[c] # Idle /\ call[c].op = "webhook" /\ HookFine(c) /\ call[c] \in CallRec
      /\ Answer(c, TRUE) /\ UNCHANGED <<cards, stripeVars, raced>>
      /\ UpdateUserPlan(u, p)
      /\ e.type = "updated" \/ (e.type \in {"completed", "deleted"} /\ call[c].st = "read")
  BY <1>1 DEF HookWrite, At, AccountsInv, TypeOK, CallFine, UpdateUserPlan
<1>3. e \in Event /\ e.user = u /\ EventFine(e) /\ u \in Users /\ e.sub \in Subs /\ subs[e.sub] \in Sub
      /\ subs[e.sub].user = u /\ (e.type = "deleted" => subs[e.sub].st = "ended")
  BY <1>1, <1>2 DEF HookFine, EventFine, Event, CallRec, TypeOK
<1>4. Earned(u, p) /\ p \in Plans /\ (e.type # "deleted" => p \in subs[e.sub].had)
  <2>1. CASE e.type = "updated"
    <3>1. p \in Sold /\ p \in subs[e.sub].had
      BY <1>1, <1>3, <2>1 DEF EventFine, Event
    <3>2. Bought(u, p)
      <4>1. subs[e.sub] # NoSub
        BY <1>3, <2>1 DEF EventFine
      <4>2. e.sub \in SubsOf(u) /\ u \in Family(u)
        BY <1>3, <4>1 DEF SubsOf, Family
      <4>3. QED
        BY <3>1, <4>2 DEF Bought
    <3>3. QED
      BY <3>1, <3>2, NotSold DEF Earned, Plans
  <2>2. CASE e.type # "updated"
    BY <1>1, <1>2, <2>2 DEF HookFine, CallRec
  <2>3. QED
    BY <2>1, <2>2
<1>5. /\ keys' = WithPlan(ActiveKeys(u), p)
      /\ missed' = IF p \in Sold /\ Misses(u, p) THEN missed \cup {u} ELSE missed
  BY <1>2 DEF UpdateUserPlan
<1>6. /\ keys' \in Seq(Row) /\ DOMAIN keys' = DOMAIN keys /\ RowsMove
      /\ \A k \in DOMAIN keys : /\ keys'[k].user = keys[k].user /\ keys'[k].status = keys[k].status
                                /\ keys'[k].plan = IF k \in ActiveKeys(u) THEN p ELSE keys[k].plan
      /\ \A v : ActiveKeys(v)' = ActiveKeys(v)
  BY <1>2, <1>4, <1>5, PlanWritten
<1>7. \A k \in DOMAIN keys' : Earned(keys'[k].user, keys'[k].plan)
  <2>1. \A k \in ActiveKeys(u) : keys[k].user = u
    BY DEF ActiveKeys
  <2>2. \A k \in DOMAIN keys : Earned(keys[k].user, keys[k].plan)
    BY DEF AccountsInv, PlansAreEarned, Earned
  <2>3. QED
    BY <1>4, <1>6, <2>1, <2>2
<1>8. \A d \in Calls : Making(d) => call[d].new \in DOMAIN keys /\ keys[call[d].new].user = call[d].user
                                      /\ \A v : call[d].new \notin ActiveKeys(v)
  BY DEF AccountsInv, CallFine, NewRowFine, ActiveKeys, IsActive
<1>9. OthersAlone(c) /\ Plain(call'[c]) /\ events' \subseteq events /\ events \ events' \subseteq {e}
  BY <1>1, <1>2, Answered
<1>10. ~Making(c)' /\ \A d \in Calls : Making(d)' => d # c /\ Making(d) /\ call'[d] = call[d]
  BY <1>9, PlainIsFine, RowsStay
<1>11. ServedOrTold'
  <2>1. SUFFICES ASSUME NEW w \in Users, w \notin missed', NEW q \in Sold, PaysFor(w, q)'
                 PROVE  (CheckoutTold(w) \/ Recorded(w, q))'
    BY DEF ServedOrTold
  <2>2. PaysFor(w, q) /\ w \notin missed
    BY <1>2, <1>5, <2>1 DEF stripeVars, PaysFor, ActiveSubs, SubsOf
  <2>3. CheckoutTold(w) \/ Recorded(w, q)
    BY <2>2 DEF AccountsInv, ServedOrTold
  <2>4. CASE w # u
    <3>1. CheckoutTold(w) => CheckoutTold(w)'
      BY <1>3, <1>9, <2>4 DEF CheckoutTold
    <3>2. ActiveKeys(w) \cap ActiveKeys(u) = {} /\ ActiveKeys(w) \subseteq DOMAIN keys
      BY <2>4 DEF ActiveKeys
    <3>3. Recorded(w, q) => \A k \in ActiveKeys(w) : keys'[k].plan = q
      BY <1>6, <3>2 DEF Recorded
    <3>4. Recorded(w, q) => \A d \in Calls : Making(d) /\ call[d].user = w => keys'[call[d].new].plan = q
      BY <1>6, <1>8 DEF Recorded
    <3>5. Recorded(w, q) => Recorded(w, q)'
      BY <1>6, <1>10, <3>3, <3>4 DEF Recorded
    <3>6. QED
      BY <2>3, <3>1, <3>5
  <2>5. CASE w = u
    <3>1. PICK s \in ActiveSubs(u) : SubsOf(u) = {s} /\ subs[s].had = {q}
      BY <2>2, <2>5 DEF PaysFor
    <3>2. s = e.sub /\ subs[s].st = "active"
      <4>1. e.sub \in SubsOf(u)
        BY <1>2, <1>3 DEF SubsOf, EventFine
      <4>2. QED
        BY <3>1, <4>1 DEF ActiveSubs
    <3>3. p = q
      BY <1>3, <1>4, <3>1, <3>2
    <3>4. ~Misses(u, p)
      BY <1>5, <2>1, <2>5, <3>3
    <3>5. ActiveKeys(u) # {} /\ \A d \in Calls : Making(d) /\ call[d].user = u => keys[call[d].new].plan = p
      BY <1>8, <3>4 DEF Misses, Making, At
    <3>6. ActiveKeys(u)' # {} /\ \A k \in ActiveKeys(u)' : keys'[k].plan = p
      <4>1. ActiveKeys(u) \subseteq DOMAIN keys
        BY DEF ActiveKeys
      <4>2. QED
        BY <1>6, <3>5, <4>1
    <3>7. \A d \in Calls : Making(d)' /\ call'[d].user = u => keys'[call'[d].new].plan = p
      BY <1>6, <1>8, <1>10, <3>5
    <3>8. QED
      BY <2>5, <3>3, <3>6, <3>7 DEF Recorded
  <2>6. QED
    BY <2>4, <2>5
<1>12. \A d \in Calls \ {c} : Making(d) => /\ keys'[call[d].new].status = keys[call[d].new].status
                                           /\ keys'[call[d].new].user = keys[call[d].new].user
  BY <1>6, <1>8
<1>13. missed \subseteq missed'
  BY <1>5
<1>14. QED
  BY <1>2, <1>6, <1>7, <1>11, <1>12, <1>13, WriteKeeps

(* The checkout that Stripe does not explain: the account is in missed. *)
LEMMA HookDropsKeeps ==
    ASSUME AccountsInv, NEW c \in Calls, HookDrops(c)
    PROVE  AccountsInv'
<1>1. PICK u, e : u = call[c].user /\ e = call[c].ev
  OBVIOUS
<1>2. /\ TypeOK /\ call[c] # Idle /\ call[c].op = "webhook" /\ HookFine(c)
      /\ Answer(c, TRUE) /\ UNCHANGED <<keys, cards, stripeVars, raced>>
      /\ missed' = IF events' = events THEN missed ELSE missed \cup {u}
  BY <1>1 DEF HookDrops, At, AccountsInv, CallFine
<1>3. e.user = u
  BY <1>1, <1>2 DEF HookFine
<1>4. OthersAlone(c) /\ Plain(call'[c]) /\ events' \subseteq events /\ events \ events' \subseteq {e}
  BY <1>1, <1>2, Answered
<1>5. \A v, q : Recorded(v, q) => Recorded(v, q)'
  BY <1>2, <1>4, PlainIsFine, RecordedSame
<1>6. ServedOrTold'
  <2>1. SUFFICES ASSUME NEW w \in Users, w \notin missed', NEW q \in Sold, PaysFor(w, q)'
                 PROVE  (CheckoutTold(w) \/ Recorded(w, q))'
    BY DEF ServedOrTold
  <2>2. PaysFor(w, q) /\ w \notin missed
    BY <1>2, <2>1 DEF stripeVars, PaysFor, ActiveSubs, SubsOf
  <2>3. CheckoutTold(w) \/ Recorded(w, q)
    BY <2>2 DEF AccountsInv, ServedOrTold
  <2>4. CheckoutTold(w) => CheckoutTold(w)'
    BY <1>2, <1>3, <1>4, <2>1 DEF CheckoutTold
  <2>5. QED
    BY <1>5, <2>3, <2>4
<1>7. keys' \in Seq(Row) /\ RowsMove /\ missed \subseteq missed'
  BY <1>2 DEF TypeOK, RowsMove
<1>8. \A k \in DOMAIN keys' : Earned(keys'[k].user, keys'[k].plan)
  BY <1>2 DEF AccountsInv, PlansAreEarned, Earned
<1>9. \A d \in Calls \ {c} : Making(d) => /\ keys'[call[d].new].status = keys[call[d].new].status
                                          /\ keys'[call[d].new].user = keys[call[d].new].user
  BY <1>2
<1>10. QED
  BY <1>2, <1>6, <1>7, <1>8, <1>9, WriteKeeps

LEMMA UpgradeCommitKeeps ==
    ASSUME AccountsInv, NEW c \in Calls, UpgradeCommit(c)
    PROVE  AccountsInv'
<1>1. PICK u, f : u = call[c].user /\ f = call[c].card
  OBVIOUS
<1>2. /\ TypeOK /\ call[c] # Idle /\ call[c] \in CallRec /\ CallFine(c) /\ CheckHolds(c)
      /\ IsUpgrade(c, "checked") /\ (call[c].op = "webhook" => call[c].ev.type = "setup")
      /\ cards' = cards \cup {<<u, f>>} /\ keys' = WithPlan(Upgradable(u), "free_plus")
      /\ Answer(c, TRUE) /\ UNCHANGED <<subs, method, sessions, missed, raced>>
  BY <1>1 DEF UpgradeCommit, IsUpgrade, At, AccountsInv, TypeOK, stripeVars, historyVars
<1>3. f \in Cards /\ u \in Users
  BY <1>1, <1>2 DEF CallFine, CallRec
<1>4. /\ keys' \in Seq(Row) /\ DOMAIN keys' = DOMAIN keys /\ RowsMove
      /\ \A k \in DOMAIN keys : /\ keys'[k].user = keys[k].user /\ keys'[k].status = keys[k].status
                                /\ keys'[k].plan = IF k \in Upgradable(u) THEN "free_plus" ELSE keys[k].plan
      /\ \A v : ActiveKeys(v)' = ActiveKeys(v)
  <2>1. "free_plus" \in Plans
    BY DEF Plans
  <2>2. QED
    BY <1>2, <2>1, PlanWritten
<1>5. /\ call' \in [Calls -> CallRec \cup {Idle}] /\ OthersAlone(c) /\ Plain(call'[c])
      /\ events' \subseteq events /\ \A e \in events \ events' : e.type # "completed"
  BY <1>2, Answered
<1>6. CallFine(c)' /\ ~Making(c)' /\ ~IsUpgrade(c, "checked")'
  BY <1>5, PlainIsFine
<1>7. OneRowEach' /\ \A d \in Calls : Making(d)' => d # c /\ Making(d) /\ call'[d] = call[d]
  BY <1>5, <1>6, RowsStay
<1>8. TypeOK'
  <2>1. <<u, f>> \in Users \X Cards
    BY <1>3
  <2>2. QED
    BY <1>2, <1>4, <1>5, <2>1 DEF TypeOK
<1>9. \A d \in Calls : Making(d) => call[d].new \in DOMAIN keys /\ \A v : call[d].new \notin ActiveKeys(v)
  BY DEF AccountsInv, CallFine, NewRowFine, ActiveKeys, IsActive
<1>10. /\ StripeGrows
       /\ \A s \in Subs : SubFine(s)'
       /\ \A e \in events' : EventFine(e)'
       /\ \A d \in Calls : CallFine(d)'
  BY <1>2, <1>4, <1>5, <1>6, <1>9, CallsStay
<1>11. PlansAreEarned'
  <2>1. ASSUME NEW k \in DOMAIN keys, NEW v, NEW p, v = keys'[k].user, p = keys'[k].plan
        PROVE  /\ p \in Sold => \E w \in Family(v) : \E s \in SubsOf(w)' : p \in subs'[s].had
               /\ p = "free_plus" => \E w \in Family(v) : HasCard(w)'
    <3>1. CASE k \in Upgradable(u)
      <4>1. v = u /\ p = "free_plus"
        BY <1>4, <2>1, <3>1 DEF Upgradable, ActiveKeys
      <4>2. u \in Family(u) /\ HasCard(u)'
        BY <1>2, <1>3 DEF Family, HasCard
      <4>3. QED
        BY <4>1, <4>2, NotSold
    <3>2. CASE k \notin Upgradable(u)
      <4>1. Earned(v, p)
        BY <1>4, <2>1, <3>2 DEF AccountsInv, PlansAreEarned, Earned
      <4>2. Earned(v, p)'
        BY <1>10, <4>1, EarnedGrows
      <4>3. QED
        BY <4>2 DEF Earned, Bought
    <3>3. QED
      BY <3>1, <3>2
  <2>2. QED
    BY <1>4, <2>1 DEF PlansAreEarned, Bought
<1>12. SharedOnlyIfRaced'
  <2>1. ASSUME NEW v \in Users, <<v, f>> \in cards, v # u PROVE f \in raced
    BY <1>1, <1>2, <2>1 DEF CheckHolds, OthersHave
  <2>2. \A g \in Cards : \A v, w \in Users : <<v, g>> \in cards /\ <<w, g>> \in cards /\ v # w => g \in raced
    BY DEF AccountsInv, SharedOnlyIfRaced
  <2>3. QED
    BY <1>2, <2>1, <2>2 DEF SharedOnlyIfRaced
<1>13. ASSUME NEW d \in Calls PROVE CheckHolds(d)'
  <2>1. \A e \in Calls : IsUpgrade(e, "checked")' => e # c /\ call'[e] = call[e] /\ IsUpgrade(e, "checked")
    BY <1>5, <1>6 DEF OthersAlone, IsUpgrade, At
  <2>2. SUFFICES ASSUME NEW g, NEW w, g = call'[d].card, w = call'[d].user, IsUpgrade(d, "checked")', g \notin raced'
                 PROVE  /\ ~\E v \in Users \ {w} : <<v, g>> \in cards'
                        /\ \A e \in Calls : IsUpgrade(e, "checked")' /\ call'[e].card = g => call'[e].user = w
    BY DEF CheckHolds, OthersHave
  <2>3. /\ ~\E v \in Users \ {w} : <<v, g>> \in cards
        /\ \A e \in Calls : IsUpgrade(e, "checked") /\ call[e].card = g => call[e].user = w
    BY <1>2, <2>1, <2>2 DEF AccountsInv, CheckHolds, OthersHave
  <2>4. g = f => w = u
    BY <1>1, <1>2, <2>3
  <2>5. QED
    BY <1>2, <2>1, <2>3, <2>4
<1>14. ASSUME NEW v \in Users, NEW q \in Sold, Recorded(v, q) PROVE Recorded(v, q)'
  <2>1. ASSUME NEW k \in DOMAIN keys, keys[k].plan = q PROVE keys'[k].plan = q
    BY <1>4, <2>1, NotSold DEF Upgradable
  <2>2. ActiveKeys(v) \subseteq DOMAIN keys
    BY DEF ActiveKeys
  <2>3. ActiveKeys(v)' # {} /\ \A k \in ActiveKeys(v)' : keys'[k].plan = q
    BY <1>4, <1>14, <2>1, <2>2 DEF Recorded
  <2>4. \A d \in Calls : Making(d)' /\ call'[d].user = v => keys'[call'[d].new].plan = q
    BY <1>7, <1>9, <1>14, <2>1 DEF Recorded
  <2>5. QED
    BY <2>3, <2>4 DEF Recorded
<1>15. ServedOrTold'
  BY <1>2, <1>5, <1>14, ServedStays
<1>16. QED
  BY <1>7, <1>8, <1>10, <1>11, <1>12, <1>13, <1>15 DEF AccountsInv

-----------------------------------------------------------------------------
(* The environment touches no request. *)
LEMMA EnvKeeps ==
    ASSUME AccountsInv, TypeOK', UNCHANGED <<call, cards, raced>>, missed \subseteq missed', StripeGrows, RowsMove,
           \A d \in Calls : Making(d) => /\ keys'[call[d].new].status = keys[call[d].new].status
                                        /\ keys'[call[d].new].user = keys[call[d].new].user,
           \A s \in Subs : SubFine(s)', \A e \in events' : EventFine(e)',
           \A k \in DOMAIN keys' : Earned(keys'[k].user, keys'[k].plan),
           ServedOrTold'
    PROVE  AccountsInv'
<1>1. \A c \in Calls : CallFine(c)'
  BY CallSame DEF AccountsInv
<1>2. \A c \in Calls : CheckHolds(c)'
  BY DEF AccountsInv, CheckHolds, IsUpgrade, At, OthersHave
<1>3. SharedOnlyIfRaced'
  BY DEF AccountsInv, SharedOnlyIfRaced
<1>4. OneRowEach'
  BY DEF AccountsInv, OneRowEach, Making, At
<1>5. PlansAreEarned'
  BY PlansStay
<1>6. QED
  BY <1>1, <1>2, <1>3, <1>4, <1>5 DEF AccountsInv

LEMMA MergeKeeps ==
    ASSUME AccountsInv, NEW l \in Links, Merge(l[1], l[2])
    PROVE  AccountsInv'
<1>1. PICK u, v : u = l[1] /\ v = l[2]
  OBVIOUS
<1>2. u \in Users /\ v \in Users /\ Family(v) \subseteq Family(u)
  BY <1>1, LinkedFamily
<1>3. TypeOK /\ \A k \in DOMAIN keys : keys[k] \in Row
  BY KeysAreRows DEF AccountsInv
<1>4. /\ DOMAIN keys' = DOMAIN keys /\ keys' = [k \in DOMAIN keys |-> keys'[k]]
      /\ \A k \in DOMAIN keys : keys'[k] = IF keys[k].user = v /\ keys[k].status # "pending"
                                          THEN [keys[k] EXCEPT !.user = u] ELSE keys[k]
      /\ missed' = IF ActiveKeys(v) # {} THEN missed \cup {u, v} ELSE missed
      /\ UNCHANGED <<cards, call, subs, method, sessions, events, raced>>
  BY <1>1 DEF Merge, stripeVars
<1>5. \A k \in DOMAIN keys : /\ keys'[k] \in Row /\ keys'[k].plan = keys[k].plan /\ keys'[k].status = keys[k].status
                            /\ keys'[k].user = IF keys[k].user = v /\ keys[k].status # "pending"
                                               THEN u ELSE keys[k].user
  BY <1>2, <1>3, <1>4 DEF Row
<1>6. keys' \in Seq(Row)
  BY <1>3, <1>4, <1>5, StillRows
<1>7. TypeOK'
  BY <1>3, <1>4, <1>6 DEF TypeOK
<1>8. StripeGrows
  BY <1>4 DEF StripeGrows
<1>9. RowsMove
  <2>1. ASSUME NEW k \in DOMAIN keys, keys[k].status # "pending", keys[k].user = v
        PROVE  keys[k].status = "revoked" \/ ActiveKeys(v) # {}
    BY <1>3, <2>1 DEF Row, ActiveKeys, IsActive
  <2>2. QED
    BY <1>4, <1>5, <2>1 DEF RowsMove
<1>10. \A d \in Calls : Making(d) => /\ call[d].new \in DOMAIN keys /\ keys[call[d].new].status = "pending"
                                    /\ keys'[call[d].new].status = keys[call[d].new].status
                                    /\ keys'[call[d].new].user = keys[call[d].new].user
                                    /\ keys'[call[d].new].plan = keys[call[d].new].plan
  BY <1>5 DEF AccountsInv, CallFine, NewRowFine
<1>11. /\ \A s \in Subs : SubFine(s)'
       /\ \A e \in events' : EventFine(e)'
  BY <1>4 DEF AccountsInv, SubFine, EventFine
<1>12. \A k \in DOMAIN keys' : Earned(keys'[k].user, keys'[k].plan)
  <2>1. \A k \in DOMAIN keys : Earned(keys[k].user, keys[k].plan)
    BY DEF AccountsInv, PlansAreEarned, Earned
  <2>2. \A q : Earned(v, q) => Earned(u, q)
    BY <1>2 DEF Earned, Bought
  <2>3. QED
    BY <1>4, <1>5, <2>1, <2>2
<1>13. ASSUME NEW w \in Users \ missed', NEW q \in Sold, Recorded(w, q) PROVE Recorded(w, q)'
  <2>1. \A k \in DOMAIN keys : keys[k].user = v => ~IsActive(k) \/ ActiveKeys(v) # {}
    BY DEF ActiveKeys
  <2>2. \A k \in DOMAIN keys : (keys'[k].user = w /\ keys'[k].status \in {"live", "disabled"})
                               <=> (keys[k].user = w /\ keys[k].status \in {"live", "disabled"})
    BY <1>4, <1>5, <2>1 DEF IsActive
  <2>3. ActiveKeys(w)' = ActiveKeys(w) /\ ActiveKeys(w) \subseteq DOMAIN keys
    BY <1>4, <2>2 DEF ActiveKeys, IsActive
  <2>4. ActiveKeys(w)' # {} /\ \A k \in ActiveKeys(w)' : keys'[k].plan = q
    BY <1>5, <1>13, <2>3 DEF Recorded
  <2>5. \A d \in Calls : Making(d)' /\ call'[d].user = w => keys'[call'[d].new].plan = q
    BY <1>4, <1>10, <1>13 DEF Recorded, Making, At
  <2>6. QED
    BY <2>4, <2>5 DEF Recorded
<1>14. ServedOrTold'
  <2>1. missed \subseteq missed' /\ subs' = subs /\ \A e \in events \ events' : e.type # "completed"
    BY <1>4
  <2>2. QED
    BY <1>13, <2>1, ServedStays
<1>15. QED
  BY <1>4, <1>7, <1>8, <1>9, <1>10, <1>11, <1>12, <1>14, EnvKeeps

LEMMA StripeKeeps ==
    ASSUME AccountsInv, TypeOK', UNCHANGED <<keys, cards, call, historyVars>>, StripeGrows,
           events \subseteq events', \A e \in events' \ events : EventFine(e)', \A s \in Subs : SubFine(s)',
           \A w \in Users : \A q \in Sold : PaysFor(w, q)' => PaysFor(w, q) \/ CheckoutTold(w)'
    PROVE  AccountsInv'
<1>1. UNCHANGED <<missed, raced>>
  BY DEF historyVars
<1>2. RowsMove
  BY DEF RowsMove
<1>3. \A e \in events' : EventFine(e)'
  <2>1. \A e \in events : EventFine(e)'
    BY EventGrows DEF AccountsInv, TypeOK
  <2>2. QED
    BY <2>1
<1>4. \A k \in DOMAIN keys' : Earned(keys'[k].user, keys'[k].plan)
  BY DEF AccountsInv, PlansAreEarned, Earned
<1>5. ServedOrTold'
  <2>1. \A w : CheckoutTold(w) => CheckoutTold(w)'
    BY DEF CheckoutTold
  <2>2. \A w, q : Recorded(w, q) => Recorded(w, q)'
    BY DEF Recorded, ActiveKeys, IsActive, Making, At
  <2>3. QED
    BY <1>1, <2>1, <2>2 DEF AccountsInv, ServedOrTold
<1>6. QED
  BY <1>1, <1>2, <1>3, <1>4, <1>5, EnvKeeps

LEMMA PayKeeps ==
    ASSUME AccountsInv, NEW x \in sessions, NEW s \in Subs, Pay(x, s)
    PROVE  AccountsInv'
<1>1. PICK z : z = [user |-> x.user, plan |-> x.plan, st |-> "active", had |-> {x.plan}]
  OBVIOUS
<1>2. TypeOK /\ subs[s] = NoSub /\ subs' = [subs EXCEPT ![s] = z] /\ sessions' \subseteq sessions
      /\ UNCHANGED <<keys, cards, call, method, historyVars>>
  BY <1>1 DEF AccountsInv, Pay
<1>3. x.user \in Users /\ x.plan \in Sold
  BY <1>2 DEF Pay, TypeOK
<1>4. z \in Sub /\ z # NoSub /\ z.user = x.user /\ z.plan = x.plan /\ z.had = {x.plan} /\ z.st = "active"
  BY <1>1, <1>3 DEF Sub, NoSub
<1>5. subs' \in [Subs -> Sub \cup {NoSub}] /\ subs'[s] = z /\ \A t \in Subs \ {s} : subs'[t] = subs[t]
  BY <1>2, <1>4 DEF TypeOK
<1>6. PICK e : e = [type |-> "completed", user |-> x.user, sub |-> s, plan |-> x.plan]
  OBVIOUS
<1>7. events' = events \cup {e}
  BY <1>4, <1>5, <1>6 DEF Pay, Emit, SubEvent
<1>8. e \in Event /\ e.type = "completed" /\ e.user = x.user /\ e.sub = s /\ e.plan = x.plan
  BY <1>3, <1>6 DEF Event
<1>9. EventFine(e)'
  BY <1>4, <1>5, <1>8 DEF EventFine
<1>10. TypeOK'
  BY <1>2, <1>5, <1>7, <1>8 DEF TypeOK
<1>11. StripeGrows
  BY <1>2, <1>5 DEF StripeGrows
<1>12. \A t \in Subs : SubFine(t)'
  BY <1>4, <1>5 DEF AccountsInv, SubFine
<1>13. CheckoutTold(x.user)'
  BY <1>7, <1>8 DEF CheckoutTold
<1>14. ASSUME NEW w \in Users, w # x.user, NEW q \in Sold, PaysFor(w, q)' PROVE PaysFor(w, q)
  <2>1. SubsOf(w)' = SubsOf(w) /\ s \notin SubsOf(w)
    BY <1>2, <1>4, <1>5, <1>14 DEF SubsOf
  <2>2. PICK t \in ActiveSubs(w)' : SubsOf(w)' = {t} /\ subs'[t].had = {q}
    BY <1>14 DEF PaysFor
  <2>3. t \in SubsOf(w) /\ subs'[t].st = "active"
    BY <2>1, <2>2 DEF ActiveSubs
  <2>4. t # s /\ t \in Subs
    BY <2>1, <2>3 DEF SubsOf
  <2>5. QED
    BY <1>5, <2>1, <2>2, <2>3, <2>4 DEF PaysFor, ActiveSubs
<1>15. \A w \in Users : \A q \in Sold : PaysFor(w, q)' => PaysFor(w, q) \/ CheckoutTold(w)'
  <2>1. SUFFICES ASSUME NEW w \in Users, NEW q \in Sold, PaysFor(w, q)' PROVE PaysFor(w, q) \/ CheckoutTold(w)'
    OBVIOUS
  <2>2. CASE w = x.user
    BY <1>13, <2>2
  <2>3. QED
    BY <1>14, <2>1, <2>2
<1>16. events \subseteq events' /\ \A d \in events' \ events : EventFine(d)'
  BY <1>7, <1>9
<1>17. QED
  BY <1>2, <1>10, <1>11, <1>12, <1>15, <1>16, StripeKeeps

LEMMA CardKeeps ==
    ASSUME AccountsInv, NEW f \in Cards,
           (\E x \in sessions : EnterCard(x, f)) \/ \E u \in Users : AddCard(u, f)
    PROVE  AccountsInv'
<1>1. TypeOK
  BY DEF AccountsInv
<1>2. PICK u \in Users : /\ method' = [method EXCEPT ![u] = f] /\ sessions' \subseteq sessions
                         /\ events' \subseteq events \cup {[type |-> "setup", user |-> u]} /\ events \subseteq events'
                         /\ UNCHANGED <<keys, cards, call, subs, historyVars>>
  <2>1. CASE \E x \in sessions : EnterCard(x, f)
    <3>1. PICK x \in sessions : EnterCard(x, f)
      BY <2>1
    <3>2. x.user \in Users
      BY <1>1 DEF TypeOK
    <3>3. QED
      BY <3>1, <3>2 DEF EnterCard, Emit
  <2>2. CASE \E u \in Users : AddCard(u, f)
    BY <2>2 DEF AddCard
  <2>3. QED
    BY <2>1, <2>2
<1>3. PICK e : e = [type |-> "setup", user |-> u]
  OBVIOUS
<1>4. e \in Event /\ EventFine(e)' /\ events' \subseteq events \cup {e}
  BY <1>2, <1>3 DEF Event, EventFine
<1>5. TypeOK'
  BY <1>1, <1>2, <1>4 DEF TypeOK
<1>6. StripeGrows /\ \A t \in Subs : SubFine(t)'
  BY <1>2 DEF StripeGrows, AccountsInv, SubFine
<1>7. \A w \in Users : \A q \in Sold : PaysFor(w, q)' => PaysFor(w, q)
  BY <1>2 DEF PaysFor, ActiveSubs, SubsOf
<1>8. \A d \in events' \ events : EventFine(d)'
  BY <1>4
<1>9. QED
  BY <1>2, <1>5, <1>6, <1>7, <1>8, StripeKeeps

(* A change of plan takes its account out of the hypothesis of ServedOrTold,
   and so does the end of a subscription.                                  *)
LEMMA SubKeeps ==
    ASSUME AccountsInv, NEW s \in Subs, NEW z \in Sub, NEW e \in Event,
           subs' = [subs EXCEPT ![s] = z], events' = events \cup {e},
           UNCHANGED <<keys, cards, call, method, sessions, historyVars>>,
           subs[s] # NoSub, subs[s].st = "active", z.user = subs[s].user, subs[s].had \subseteq z.had, z.plan \in z.had,
           e.type # "setup", e.sub = s, e.user = z.user, e.plan \in z.had, e.type = "deleted" => z.st = "ended",
           z.st = "ended" \/ \A q : z.had # {q}
    PROVE  AccountsInv'
<1>1. TypeOK
  BY DEF AccountsInv
<1>2. subs' \in [Subs -> Sub \cup {NoSub}] /\ subs'[s] = z /\ \A t \in Subs \ {s} : subs'[t] = subs[t]
  BY <1>1 DEF TypeOK
<1>3. z # NoSub
  <2>1. z.st \in {"active", "ended"} /\ NoSub.st = "none"
    BY DEF Sub, NoSub
  <2>2. QED
    BY <2>1
<1>4. TypeOK'
  BY <1>1, <1>2 DEF TypeOK
<1>5. StripeGrows
  BY <1>2, <1>3 DEF StripeGrows
<1>6. \A t \in Subs : SubFine(t)'
  BY <1>2 DEF AccountsInv, SubFine
<1>7. EventFine(e)'
  BY <1>2, <1>3 DEF EventFine
<1>8. ASSUME NEW w \in Users, NEW q \in Sold, PaysFor(w, q)' PROVE PaysFor(w, q)
  <2>1. PICK t \in ActiveSubs(w)' : SubsOf(w)' = {t} /\ subs'[t].had = {q}
    BY <1>8 DEF PaysFor
  <2>2. t \in Subs /\ subs'[t].st = "active" /\ t \in SubsOf(w)'
    BY <2>1 DEF ActiveSubs, SubsOf
  <2>3. t # s
    BY <1>2, <2>1, <2>2 DEF Sub
  <2>4. SubsOf(w)' = SubsOf(w)
    BY <1>2, <1>3 DEF SubsOf
  <2>5. QED
    BY <1>2, <2>1, <2>2, <2>3, <2>4 DEF PaysFor, ActiveSubs
<1>9. events \subseteq events' /\ \A d \in events' \ events : EventFine(d)'
  BY <1>7
<1>10. QED
  BY <1>4, <1>5, <1>6, <1>8, <1>9, StripeKeeps

LEMMA ChangePlanKeeps ==
    ASSUME AccountsInv, NEW s \in Subs, NEW p \in Sold, ChangePlan(s, p)
    PROVE  AccountsInv'
<1> DEFINE a == [subs[s] EXCEPT !.plan = p]
           h == subs[s].had \cup {p}
           z == [a EXCEPT !.had = h]
<1>1. subs[s] # NoSub /\ subs[s] \in Sub /\ subs[s].st = "active" /\ subs[s].plan # p /\ SubFine(s)
  BY DEF ChangePlan, AccountsInv, TypeOK, NoSub
<1>2. subs[s].plan \in subs[s].had
  BY <1>1 DEF SubFine
<1>3. [subs EXCEPT ![s].plan = p, ![s].had = @ \cup {p}] = [subs EXCEPT ![s] = z]
  BY <1>1 DEF AccountsInv, TypeOK, Sub
<1>4. a \in Sub /\ a.user = subs[s].user /\ a.plan = p /\ a.had = subs[s].had /\ a.st = "active"
  BY <1>1 DEF Sub
<1> HIDE DEF a
<1>5. h \in SUBSET Sold /\ subs[s].had \subseteq h /\ p \in h /\ \A q : h # {q}
  BY <1>1, <1>2 DEF Sub
<1> HIDE DEF h
<1>6. z \in Sub /\ z.user = subs[s].user /\ z.plan = p /\ z.had = h /\ z.st = "active"
  BY <1>4, <1>5 DEF Sub
<1>7. subs' = [subs EXCEPT ![s] = z]
  BY <1>3 DEF ChangePlan
<1> HIDE DEF z
<1>8. subs'[s] = z
  BY <1>7 DEF AccountsInv, TypeOK
<1>9. PICK e : e = [type |-> "updated", user |-> z.user, sub |-> s, plan |-> z.plan]
  OBVIOUS
<1>10. events' = events \cup {e}
  BY <1>8, <1>9 DEF ChangePlan, Emit, SubEvent
<1>11. e \in Event /\ e.type = "updated" /\ e.sub = s /\ e.user = z.user /\ e.plan = p
  BY <1>6, <1>9 DEF Event, Sub
<1>12. UNCHANGED <<keys, cards, call, method, sessions, historyVars>>
  BY DEF ChangePlan
<1>13. QED
  BY <1>1, <1>5, <1>6, <1>7, <1>10, <1>11, <1>12, SubKeeps

LEMMA EndSubKeeps ==
    ASSUME AccountsInv, NEW s \in Subs, EndSub(s)
    PROVE  AccountsInv'
<1> DEFINE z == [subs[s] EXCEPT !.st = "ended"]
<1>1. subs[s] # NoSub /\ subs[s] \in Sub /\ subs[s].st = "active" /\ SubFine(s)
  BY DEF EndSub, AccountsInv, TypeOK, NoSub
<1>2. subs[s].plan \in subs[s].had
  BY <1>1 DEF SubFine
<1>3. z \in Sub /\ z.user = subs[s].user /\ z.plan = subs[s].plan /\ z.had = subs[s].had /\ z.st = "ended"
  BY <1>1 DEF Sub
<1>4. subs' = [subs EXCEPT ![s] = z]
  BY DEF EndSub
<1> HIDE DEF z
<1>5. subs'[s] = z
  BY <1>4 DEF AccountsInv, TypeOK
<1>6. PICK e : e = [type |-> "deleted", user |-> z.user, sub |-> s, plan |-> z.plan]
  OBVIOUS
<1>7. events' = events \cup {e}
  BY <1>5, <1>6 DEF EndSub, Emit, SubEvent
<1>8. e \in Event /\ e.type = "deleted" /\ e.sub = s /\ e.user = z.user /\ e.plan = z.plan
  BY <1>3, <1>6 DEF Event, Sub
<1>9. UNCHANGED <<keys, cards, call, method, sessions, historyVars>>
  BY DEF EndSub
<1>10. QED
  BY <1>1, <1>2, <1>3, <1>4, <1>7, <1>8, <1>9, SubKeeps

-----------------------------------------------------------------------------
(* The steps of the page: whatever it sends, it sends as requests. *)
LEMMA Me_is_User == Me \in Users
BY AccountsAssumption, PageAssumption

LEMMA PageSends ==
    ASSUME AccountsInv, NEW c \in Calls, NEW o \in KeyOps, NEW k \in Nat,
           call' = [call EXCEPT ![c] = NewCall(o, Me, k, "free", NoEvent)], UNCHANGED backVars
    PROVE  AccountsInv'
<1>1. o \in Ops \ {"webhook"} /\ "free" \in Plans
  BY DEF KeyOps, Ops, Plans
<1>2. QED
  BY <1>1, Me_is_User, SendKeeps DEF backVars, stripeVars

LEMMA PageForgets ==
    ASSUME AccountsInv, NEW c \in Calls, call' = [call EXCEPT ![c] = Idle], UNCHANGED backVars
    PROVE  AccountsInv'
BY GoKeeps DEF Plain, backVars, stripeVars

LEMMA Stutter ==
    ASSUME AccountsInv, UNCHANGED vars
    PROVE  AccountsInv'
<1>1. UNCHANGED <<keys, cards, call, subs, method, sessions, events, historyVars>>
  BY DEF vars, stripeVars, historyVars
<1>2. TypeOK'
  BY <1>1 DEF AccountsInv, TypeOK
<1>3. StripeGrows /\ \A s \in Subs : SubFine(s)'
  BY <1>1 DEF StripeGrows, AccountsInv, SubFine
<1>4. \A w, q : PaysFor(w, q)' => PaysFor(w, q)
  BY <1>1 DEF PaysFor, ActiveSubs, SubsOf
<1>5. QED
  BY <1>1, <1>2, <1>3, <1>4, StripeKeeps

-----------------------------------------------------------------------------
(* What the handlers do to the tab. *)
TabStays == ui'.loading = ui.loading /\ ui'.asked = ui.asked /\ ui'.revealed = ui.revealed

LEMMA Pressed ==
    ASSUME PageTypeOK, Press
    PROVE  /\ ui' \in Ui /\ ui'.loading = ui.loading /\ ui'.asked = ui.asked /\ ui'.revealed \in {ui.revealed, 0}
           /\ Drawn /\ UNCHANGED <<shown, task, body, excuse, made, call, backVars>>
<1>1. ui \in Ui /\ shown \subseteq Nat /\ NoConfirm \in [what : {"none", "rotate", "disable"}, key : Nat]
  BY DEF PageTypeOK, NoConfirm
<1>2. ASSUME NEW k \in Nat, NEW w \in {"rotate", "disable"}, ui' = [ui EXCEPT !.confirm = [what |-> w, key |-> k]]
      PROVE  ui' \in Ui /\ TabStays
  BY <1>1, <1>2 DEF Ui, TabStays
<1>3. CASE \E k \in shown : \E w \in {"rotate", "disable"} : ui' = [ui EXCEPT !.confirm = [what |-> w, key |-> k]]
  BY <1>1, <1>2, <1>3 DEF Press, TabStays
<1>4. CASE ui' = [ui EXCEPT !.form = ~@]
  <2>1. ui.form \in BOOLEAN
    BY <1>1 DEF Ui
  <2>2. PICK b \in BOOLEAN : b = ~ui.form
    BY <2>1
  <2>3. ui' = [ui EXCEPT !.form = b]
    BY <1>4, <2>2
  <2>4. ui' \in Ui /\ TabStays
    BY <1>1, <2>3 DEF Ui, TabStays
  <2>5. QED
    BY <2>4 DEF Press, TabStays
<1>5. CASE ui' = [ui EXCEPT !.confirm = NoConfirm]
  <2>1. ui' \in Ui /\ TabStays
    BY <1>1, <1>5 DEF Ui, TabStays
  <2>2. QED
    BY <2>1 DEF Press, TabStays
<1>6. CASE ui' = [ui EXCEPT !.error = FALSE]
  <2>1. ui' \in Ui /\ TabStays
    BY <1>1, <1>6 DEF Ui, TabStays
  <2>2. QED
    BY <2>1 DEF Press, TabStays
<1>7. CASE ui' = [ui EXCEPT !.revealed = 0]
  <2>1. ui' \in Ui /\ ui'.loading = ui.loading /\ ui'.asked = ui.asked /\ ui'.revealed = 0
    BY <1>1, <1>7 DEF Ui
  <2>2. QED
    BY <2>1 DEF Press
<1>8. QED
  BY <1>3, <1>4, <1>5, <1>6, <1>7 DEF Press

LEMMA Begun ==
    ASSUME PageTypeOK, NEW c \in Calls,
           handleCreate(c) \/ \E k \in shown : handleRotate(c, k) \/ handleToggleDisable(c, k)
    PROVE  /\ Drawn /\ ui' \in Ui /\ TabStays /\ task[c] = NoTask /\ UNCHANGED <<shown, body, made, backVars>>
           /\ excuse' = IF Working THEN excuse \cup {"overlap"} ELSE excuse
           /\ \E t \in Task : /\ task' = [task EXCEPT ![c] = t]
                              /\ t.h = "create" => "create" \in wants[Me]
                              /\ \/ t.at = "token" /\ t.h = "create" /\ UNCHANGED call
                                 \/ t.at = "request" /\ t.h \in {"create", "rotate", "disable"} /\ Send(c, t.h, Me, t.key, "free")
<1>1. ui \in Ui /\ shown \subseteq Nat
  BY DEF PageTypeOK
<1>2. ASSUME NEW k \in Nat, ui' = [ui EXCEPT !.acting = k] PROVE ui' \in Ui /\ TabStays
  BY <1>1, <1>2 DEF Ui, TabStays
<1>3. CASE handleCreate(c)
  <2>1. ui' \in Ui /\ TabStays
    BY <1>1, <1>3 DEF handleCreate, Ui, TabStays
  <2>2. CASE Begin(c, "create", 0)
    <3>1. PICK t : t = [h |-> "create", key |-> 0, at |-> "request"]
      OBVIOUS
    <3>2. t \in Task /\ t.h = "create" /\ t.key = 0 /\ t.at = "request"
      BY <3>1 DEF Task
    <3>3. QED
      BY <1>3, <2>1, <2>2, <3>1, <3>2 DEF handleCreate, Begin
  <2>3. CASE ~Begin(c, "create", 0)
    <3>1. PICK t : t = [h |-> "create", key |-> 0, at |-> "token"]
      OBVIOUS
    <3>2. t \in Task /\ t.h = "create" /\ t.at = "token"
      BY <3>1 DEF Task
    <3>3. QED
      BY <1>3, <2>1, <2>3, <3>1, <3>2 DEF handleCreate
  <2>4. QED
    BY <2>2, <2>3
<1>4. ASSUME NEW k \in shown, handleRotate(c, k) \/ handleToggleDisable(c, k)
      PROVE  /\ Drawn /\ ui' \in Ui /\ TabStays
             /\ \E h \in {"rotate", "disable"} : Begin(c, h, k)
  BY <1>1, <1>2, <1>4 DEF handleRotate, handleToggleDisable
<1>5. ASSUME NEW k \in shown, NEW h \in {"rotate", "disable"}, Begin(c, h, k)
      PROVE  /\ task[c] = NoTask /\ UNCHANGED <<shown, body, made, backVars>>
             /\ excuse' = IF Working THEN excuse \cup {"overlap"} ELSE excuse
             /\ \E t \in Task : /\ task' = [task EXCEPT ![c] = t] /\ t.at = "request" /\ t.h = h /\ Send(c, t.h, Me, t.key, "free")
  <2>1. PICK t : t = [h |-> h, key |-> k, at |-> "request"]
    OBVIOUS
  <2>2. t \in Task /\ t.h = h /\ t.key = k /\ t.at = "request"
    BY <1>1, <2>1 DEF Task
  <2>3. QED
    BY <1>5, <2>1, <2>2 DEF Begin
<1>6. QED
  BY <1>3, <1>4, <1>5

LEMMA TaskMoved ==
    ASSUME PageTypeOK, NEW c \in Calls, task[c] # NoTask, NEW s \in {"token", "request", "list"},
           task' = [task EXCEPT ![c].at = s]
    PROVE  /\ task' \in [Calls -> Task \cup {NoTask}] /\ \A d \in Calls \ {c} : task'[d] = task[d]
           /\ task'[c] # NoTask /\ task'[c].at = s /\ task'[c].h = task[c].h
<1>1. task[c] \in Task /\ task \in [Calls -> Task \cup {NoTask}]
  BY DEF PageTypeOK
<1> DEFINE t == [task[c] EXCEPT !.at = s]
<1>2. t \in Task /\ t.at = s /\ t.h = task[c].h /\ task' = [task EXCEPT ![c] = t]
  BY <1>1 DEF Task
<1> HIDE DEF t
<1>3. t # NoTask
  BY <1>2 DEF Task, NoTask
<1>4. QED
  BY <1>1, <1>2, <1>3

LEMMA TaskSet ==
    ASSUME PageTypeOK, NEW c \in Calls, NEW t \in Task \cup {NoTask}, task' = [task EXCEPT ![c] = t]
    PROVE  task' \in [Calls -> Task \cup {NoTask}] /\ task'[c] = t /\ \A d \in Calls \ {c} : task'[d] = task[d]
BY DEF PageTypeOK

LEMMA FinishedUi ==
    ASSUME PageTypeOK, NEW c \in Calls
    PROVE  /\ Finished(c) \in Ui /\ Finished(c).loading = ui.loading /\ Finished(c).asked = ui.asked
           /\ Finished(c).revealed = ui.revealed
BY DEF PageTypeOK, Finished, Ui

LEMMA RequestDone ==
    ASSUME PageTypeOK, TypeOK, TaskCalls, NEW c \in Calls, MutationDone(c)
    PROVE  /\ ui' \in Ui /\ ui'.loading = TRUE /\ ui'.asked = ui.asked
           /\ task[c] # NoTask /\ task[c].at = "request" /\ task' = [task EXCEPT ![c].at = "list"]
           /\ made' = made \cup ({ui'.revealed} \ {0})
           /\ call' = [call EXCEPT ![c] = NewCall("list", Me, 0, "free", NoEvent)]
           /\ UNCHANGED <<shown, body, excuse, backVars>>
<1>1. PICK new : new = IF task[c].h = "disable" THEN ui.revealed ELSE call[c].new
  OBVIOUS
<1>2. ui \in Ui /\ task[c] \in Task /\ task[c] # NoTask /\ task[c].at = "request" /\ call[c].ok /\ call[c].st = "done"
  BY DEF MutationDone, AnswerRead, PageTypeOK
<1>3. call[c] \in CallRec
  BY <1>2 DEF TypeOK, TaskCalls, TaskCall, OwnCall
<1>4. new \in Nat
  BY <1>1, <1>2, <1>3 DEF CallRec, Ui
<1>5. PICK f, g : f = (IF task[c].h = "create" THEN FALSE ELSE ui.form)
                  /\ g = (IF ui.confirm.what = task[c].h THEN NoConfirm ELSE ui.confirm)
  OBVIOUS
<1>6. f \in BOOLEAN /\ g \in [what : {"none", "rotate", "disable"}, key : Nat]
  BY <1>2, <1>5 DEF Ui, NoConfirm
<1> DEFINE a == [ui EXCEPT !.revealed = new]
           b == [a EXCEPT !.loading = TRUE]
           d == [b EXCEPT !.error = FALSE]
           e == [d EXCEPT !.form = f]
           r == [e EXCEPT !.confirm = g]
<1>7. ui' = r
  BY <1>1, <1>2, <1>5 DEF MutationDone, Ui
<1>8. a \in Ui /\ a.revealed = new /\ a.asked = ui.asked
  BY <1>2, <1>4 DEF Ui
<1> HIDE DEF a
<1>9. b \in Ui /\ b.revealed = new /\ b.asked = ui.asked /\ b.loading = TRUE
  BY <1>8 DEF Ui
<1> HIDE DEF b
<1>10. d \in Ui /\ d.revealed = new /\ d.asked = ui.asked /\ d.loading = TRUE
  BY <1>9 DEF Ui
<1> HIDE DEF d
<1>11. e \in Ui /\ e.revealed = new /\ e.asked = ui.asked /\ e.loading = TRUE
  BY <1>6, <1>10 DEF Ui
<1> HIDE DEF e
<1>12. r \in Ui /\ r.revealed = new /\ r.asked = ui.asked /\ r.loading = TRUE
  BY <1>6, <1>11 DEF Ui
<1> HIDE DEF r
<1>13. made' = made \cup ({new} \ {0})
  BY <1>1 DEF MutationDone
<1>14. QED
  BY <1>2, <1>7, <1>12, <1>13 DEF MutationDone, fetchKeys

LEMMA RequestFailed ==
    ASSUME PageTypeOK, NEW c \in Calls, MutationFailed(c)
    PROVE  /\ ui' \in Ui /\ TabStays /\ task[c] # NoTask /\ task[c].at = "request" /\ call[c].st = "done"
           /\ task' = [task EXCEPT ![c] = NoTask] /\ call' = [call EXCEPT ![c] = Idle]
           /\ excuse' = IF call[c].ok THEN excuse \cup {"lost"} ELSE excuse
           /\ UNCHANGED <<shown, body, made, backVars>>
<1> DEFINE r == Finished(c)
<1>1. r \in Ui /\ r.loading = ui.loading /\ r.asked = ui.asked /\ r.revealed = ui.revealed
  BY FinishedUi
<1>2. ui' = [r EXCEPT !.error = TRUE]
  BY DEF MutationFailed
<1> HIDE DEF r
<1>3. QED
  BY <1>1, <1>2 DEF MutationFailed, AnswerRead, Ui, TabStays

LEMMA ListHere ==
    ASSUME PageTypeOK, NEW c \in Calls, NEW good \in BOOLEAN, ListArrives(c, good)
    PROVE  /\ ui' \in Ui /\ ui'.loading = FALSE /\ ui'.asked = ui.asked /\ ui'.revealed = ui.revealed
           /\ task[c] # NoTask /\ task[c].at = "list" /\ call[c].st = "done"
           /\ task' = [task EXCEPT ![c] = NoTask] /\ call' = [call EXCEPT ![c] = Idle]
           /\ shown' = (IF good THEN Listed(c) ELSE shown) /\ body' = [body EXCEPT ![c] = <<>>]
           /\ excuse' = (IF good THEN excuse ELSE excuse \cup {"lost"})
           /\ UNCHANGED <<made, backVars>>
<1> DEFINE r == IF task[c].h = "mount" THEN ui ELSE Finished(c)
           a == [r EXCEPT !.loading = FALSE]
           z == [a EXCEPT !.error = r.error \/ ~good]
<1>1. r \in Ui /\ r.asked = ui.asked /\ r.revealed = ui.revealed
  BY FinishedUi DEF PageTypeOK
<1>2. ui' = [r EXCEPT !.loading = FALSE, !.error = @ \/ ~good]
  BY DEF ListArrives
<1> HIDE DEF r
<1>3. ui' = z
  BY <1>1, <1>2 DEF Ui
<1>4. a \in Ui /\ a.asked = ui.asked /\ a.revealed = ui.revealed /\ a.loading = FALSE
  BY <1>1 DEF Ui
<1>5. r.error \in BOOLEAN
  BY <1>1 DEF Ui
<1> HIDE DEF a
<1>6. z \in Ui /\ z.asked = ui.asked /\ z.revealed = ui.revealed /\ z.loading = FALSE
  BY <1>4, <1>5 DEF Ui
<1> HIDE DEF z
<1>7. QED
  BY <1>3, <1>6 DEF ListArrives, AnswerRead

LEMMA PageMounted ==
    ASSUME PageTypeOK, NEW c \in Calls, Mount(c)
    PROVE  /\ ui' \in Ui /\ ui'.loading = ui.loading /\ ui'.asked = TRUE /\ ui'.revealed = ui.revealed
           /\ ~ui.asked /\ task[c] = NoTask /\ call[c] = Idle
           /\ \E t \in Task : t.at = "list" /\ task' = [task EXCEPT ![c] = t]
           /\ call' = [call EXCEPT ![c] = NewCall("list", Me, 0, "free", NoEvent)]
           /\ UNCHANGED <<shown, body, excuse, made, backVars>>
<1>1. PICK t : t = [h |-> "mount", key |-> 0, at |-> "list"]
  OBVIOUS
<1>2. t \in Task /\ t.at = "list"
  BY <1>1 DEF Task
<1>3. QED
  BY <1>1, <1>2 DEF Mount, fetchKeys, PageTypeOK, Ui

-----------------------------------------------------------------------------
(* A request of the page's account goes its way, and no other begins, as long
   as nobody but the pages sends any.                                       *)
OwnMoves(d) ==
    /\ OwnCall(d) => /\ OwnCall(d)' /\ call'[d].op = call[d].op /\ call'[d].key = call[d].key
                     /\ call[d].st = "done" \/ (call[d].op = "list" /\ call[d].st = "sent") => call'[d] = call[d]
    /\ OwnCall(d)' => OwnCall(d)

LEMMA AnsweredOwn ==
    ASSUME TypeOK, NEW c \in Calls, NEW good \in BOOLEAN, call[c] # Idle, Answer(c, good), OwnCall(c)
    PROVE  /\ OwnCall(c)' /\ call'[c].op = call[c].op /\ call'[c].key = call[c].key
           /\ call'[c].st = "done" /\ call'[c].ok = good
<1> DEFINE a == [call[c] EXCEPT !.st = "done"]
           r == [a EXCEPT !.ok = good]
<1>1. call[c] \in CallRec /\ call[c].user = Me /\ call[c].op # "webhook"
  BY DEF TypeOK, OwnCall
<1>2. [call[c] EXCEPT !.st = "done", !.ok = good] = r
  BY <1>1 DEF CallRec
<1>3. call' = [call EXCEPT ![c] = r]
  BY <1>1, <1>2, PageAssumption DEF Answer, TypeOK
<1>4. a \in CallRec /\ a.st = "done" /\ a.op = call[c].op /\ a.user = Me /\ a.key = call[c].key
  BY <1>1 DEF CallRec
<1> HIDE DEF a
<1>5. r \in CallRec /\ r.st = "done" /\ r.op = call[c].op /\ r.user = Me /\ r.key = call[c].key /\ r.ok = good
  BY <1>4 DEF CallRec
<1> HIDE DEF r
<1>6. call'[c] = r
  BY <1>3 DEF TypeOK
<1>7. r # Idle
  BY <1>4, <1>5, <1>1 DEF CallRec, Idle, Ops, KeyOps
<1>8. QED
  BY <1>1, <1>5, <1>6, <1>7 DEF OwnCall

LEMMA AnsweredOther ==
    ASSUME TypeOK, NEW c \in Calls, NEW good \in BOOLEAN, call[c] # Idle, Answer(c, good), ~OwnCall(c)
    PROVE  ~OwnCall(c)'
<1>1. CASE call[c].op = "webhook"
  BY <1>1 DEF Answer, OwnCall, TypeOK
<1>2. CASE call[c].op # "webhook"
  <2>1. call[c].user # Me /\ call[c] \in CallRec
    BY <1>2 DEF OwnCall, TypeOK
  <2>2. PICK r : r = [call[c] EXCEPT !.st = "done", !.ok = good]
    OBVIOUS
  <2>3. r.user = call[c].user
    BY <2>1, <2>2 DEF CallRec
  <2>4. call'[c] = Idle \/ call'[c] = r
    BY <1>2, <2>2 DEF Answer, TypeOK
  <2>5. QED
    BY <2>1, <2>3, <2>4 DEF OwnCall
<1>3. QED
  BY <1>1, <1>2

LEMMA AnswerMoves ==
    ASSUME TypeOK, NEW c \in Calls, NEW good \in BOOLEAN, call[c] # Idle, Answer(c, good),
           call[c].st \in {"sent", "read", "checked"}, call[c].op = "list" => call[c].st # "sent"
    PROVE  \A d \in Calls : OwnMoves(d)
<1>1. OthersAlone(c) /\ Plain(call'[c])
  BY Answered
<1>2. \A d \in Calls \ {c} : OwnMoves(d)
  BY <1>1 DEF OthersAlone, OwnMoves, OwnCall
<1>3. OwnCall(c) => OwnMoves(c)
  BY AnsweredOwn DEF OwnMoves
<1>4. QED
  BY <1>2, <1>3, AnsweredOther DEF OwnMoves

LEMMA GoMoves ==
    ASSUME TypeOK, NEW c \in Calls, call[c] # Idle, NEW r, Go(c, r),
           call[c].st \in {"sent", "read", "checked"}, call[c].op # "list",
           r.op = call[c].op, r.user = call[c].user, r.key = call[c].key
    PROVE  \A d \in Calls : OwnMoves(d)
<1>1. OthersAlone(c) /\ call'[c] = r
  BY DEF Go, TypeOK, OthersAlone
<1>2. r # Idle
  <2>1. r.op \in Ops /\ Idle.op \notin Ops
    BY DEF TypeOK, CallRec, Idle, Ops, KeyOps
  <2>2. QED
    BY <2>1
<1>3. QED
  BY <1>1, <1>2 DEF OthersAlone, OwnMoves, OwnCall

LEMMA SendMoves ==
    ASSUME TypeOK, NEW c \in Calls, NEW r \in CallRec, call[c] = Idle, call' = [call EXCEPT ![c] = r],
           r.op = "webhook" \/ r.user # Me
    PROVE  \A d \in Calls : OwnMoves(d)
<1>1. OthersAlone(c) /\ call'[c] = r
  BY Gone
<1>2. QED
  BY <1>1 DEF OthersAlone, OwnMoves, OwnCall

LEMMA HandleMoves ==
    ASSUME AccountsInv, NEW c \in Calls, Handle(c)
    PROVE  \A d \in Calls : OwnMoves(d)
<1>1. TypeOK /\ (call[c] # Idle => call[c] \in CallRec)
  BY DEF AccountsInv, TypeOK
<1>2. ASSUME NEW good \in BOOLEAN, call[c] # Idle, Answer(c, good), call[c].st \in {"sent", "read", "checked"},
             call[c].op = "list" => call[c].st # "sent"
      PROVE  \A d \in Calls : OwnMoves(d)
  BY <1>1, <1>2, AnswerMoves
<1>3. ASSUME call[c] # Idle, call[c].st \in {"sent", "read", "checked"}, call[c].op # "list",
             \/ \E q : \/ Go(c, [call[c] EXCEPT !.st = "read", !.new = q])
                      \/ Go(c, [call[c] EXCEPT !.st = "read", !.card = q])
                      \/ Go(c, [call[c] EXCEPT !.st = "read", !.plan = q])
                      \/ AnswerPlan(c, q)
             \/ Step(c, "read") \/ Step(c, "checked")
      PROVE  \A d \in Calls : OwnMoves(d)
  <2>1. PICK r : Go(c, r) /\ \/ \E q : \/ r = [call[c] EXCEPT !.st = "read", !.new = q]
                                       \/ r = [call[c] EXCEPT !.st = "read", !.card = q]
                                       \/ r = [call[c] EXCEPT !.st = "read", !.plan = q]
                                       \/ r = [call[c] EXCEPT !.st = "done", !.ok = TRUE, !.plan = q]
                              \/ r = [call[c] EXCEPT !.st = "read"] \/ r = [call[c] EXCEPT !.st = "checked"]
    BY <1>3 DEF AnswerPlan, Step
  <2>2. r.op = call[c].op /\ r.user = call[c].user /\ r.key = call[c].key
    BY <1>1, <1>3, <2>1 DEF CallRec
  <2>3. QED
    BY <1>1, <1>3, <2>1, <2>2, GoMoves
<1>4. CASE Fail(c)
  <2>1. call[c].st \in {"sent", "read", "checked"}
    BY <1>1, <1>4 DEF Fail, CallRec
  <2>2. QED
    BY <1>2, <1>4, <2>1 DEF Fail
<1>5. CASE CreateRead(c) \/ RotateRead(c)
  <2>1. CASE CreateRead(c)
    BY <1>3, <2>1 DEF CreateRead, At
  <2>2. CASE RotateRead(c)
    BY <1>2, <1>3, <2>2 DEF RotateRead, At
  <2>3. QED
    BY <1>5, <2>1, <2>2
<1>6. CASE CreateCommit(c) \/ RotateCommit(c)
  BY <1>2, <1>6 DEF CreateCommit, RotateCommit, At
<1>7. CASE Toggle(c)
  BY <1>2, <1>7 DEF Toggle, At
<1>8. CASE OpenSession(c)
  <2>1. PICK good \in BOOLEAN : Answer(c, good)
    BY <1>8 DEF OpenSession
  <2>2. QED
    BY <1>2, <1>8, <2>1 DEF OpenSession, At
<1>9. CASE UsageKeys(c) \/ UsageStripe(c) \/ UsageCard(c)
  BY <1>3, <1>9 DEF UsageKeys, UsageStripe, UsageCard, At
<1>10. CASE UpgradeCard(c) \/ UpgradeCheck(c)
  <2> DEFINE good == call[c].op = "webhook"
  <2>1. good \in BOOLEAN /\ call[c] # Idle /\ call[c].st \in {"sent", "read"} /\ call[c].op \in {"confirm", "webhook"}
    BY <1>10 DEF UpgradeCard, UpgradeCheck, IsUpgrade, At
  <2>2. Answer(c, good) \/ (\E q : Go(c, [call[c] EXCEPT !.st = "read", !.card = q])) \/ Step(c, "checked")
    BY <1>10 DEF UpgradeCard, UpgradeCheck
  <2> HIDE DEF good
  <2>3. QED
    BY <1>2, <1>3, <2>1, <2>2
<1>11. CASE UpgradeCommit(c) \/ HookWrite(c)
  BY <1>2, <1>11 DEF UpgradeCommit, HookWrite, IsUpgrade, At
<1>12. CASE HookRead(c) \/ HookDrops(c)
  BY <1>2, <1>3, <1>12 DEF HookRead, HookDrops, At
<1>13. CASE \E e \in events : Deliver(c, e)
  <2>1. PICK e \in events : Deliver(c, e)
    BY <1>13
  <2>2. PICK r : r = NewCall("webhook", e.user, 0, "free", e)
    OBVIOUS
  <2>3. "webhook" \in Ops /\ "free" \in Plans /\ 0 \in Nat /\ e \in Event \cup {NoEvent} /\ e.user \in Users
    BY <1>1 DEF Ops, Plans, TypeOK, Event
  <2>4. r \in CallRec /\ r.op = "webhook"
    BY <2>2, <2>3, NewCallType DEF NewCall
  <2>5. call[c] = Idle /\ call' = [call EXCEPT ![c] = r]
    BY <2>1, <2>2 DEF Deliver
  <2>6. QED
    BY <1>1, <2>4, <2>5, SendMoves
<1>14. QED
  BY <1>4, <1>5, <1>6, <1>7, <1>8, <1>9, <1>10, <1>11, <1>12, <1>13 DEF Handle

LEMMA NextMoves ==
    ASSUME AccountsInv, Next
    PROVE  \A d \in Calls : OwnMoves(d)
<1>1. CASE Env
  <2>1. call' = call
    BY <1>1 DEF Env, Stripe, Merge, Pay, EnterCard, AddCard, ChangePlan, EndSub
  <2>2. QED
    BY <2>1 DEF OwnMoves, OwnCall
<1>2. ASSUME NEW c \in Calls, ClientStep(c) PROVE \A d \in Calls : OwnMoves(d)
  <2>1. PICK u \in Users \ Watchers : \E o \in wants[u] \cap Requests : \E k, p : Send(c, o, u, k, p)
    BY <1>2 DEF ClientStep, Client
  <2>2. PICK o, k, p : Send(c, o, u, k, p)
    BY <2>1
  <2>3. PICK r : r = NewCall(o, u, k, p, NoEvent)
    OBVIOUS
  <2>4. r.user = u /\ u # Me
    BY <2>3, PageAssumption DEF NewCall
  <2>5. call[c] = Idle /\ call' = [call EXCEPT ![c] = r]
    BY <2>2, <2>3 DEF Send
  <2>6. \A d \in Calls : d # c => call'[d] = call[d]
    BY <2>5 DEF AccountsInv, TypeOK
  <2>7. call'[c] = r
    BY <2>5 DEF AccountsInv, TypeOK
  <2>8. QED
    BY <2>4, <2>5, <2>6, <2>7 DEF OwnMoves, OwnCall
<1>3. QED
  BY <1>1, <1>2, HandleMoves DEF Next

-----------------------------------------------------------------------------
(* The steps of the page: each is one handler's. *)
LEMMA SentOwn ==
    ASSUME TypeOK, NEW c \in Calls, NEW o \in KeyOps, NEW k,
           call' = [call EXCEPT ![c] = NewCall(o, Me, k, "free", NoEvent)]
    PROVE  OthersAlone(c) /\ OwnCall(c)' /\ call'[c].op = o /\ call'[c].st = "sent" /\ call'[c].key = k
<1>1. PICK r : r = NewCall(o, Me, k, "free", NoEvent)
  OBVIOUS
<1>2. r.op = o /\ r.user = Me /\ r.st = "sent" /\ r.key = k
  BY <1>1 DEF NewCall
<1>3. call'[c] = r /\ OthersAlone(c)
  BY <1>1 DEF TypeOK, OthersAlone
<1>4. r # Idle /\ o # "webhook"
  <2>1. Idle.op \notin KeyOps /\ "webhook" \notin KeyOps
    BY DEF Idle, KeyOps
  <2>2. QED
    BY <1>2, <2>1
<1>5. QED
  BY <1>2, <1>3, <1>4 DEF OwnCall

LEMMA TasksApart ==
    ASSUME TaskCalls, NEW c \in Calls, OthersAlone(c), \A d \in Calls \ {c} : task'[d] = task[d], TaskCall(c)'
    PROVE  TaskCalls'
<1>1. ASSUME NEW d \in Calls PROVE TaskCall(d)'
  <2>1. CASE d = c
    BY <2>1
  <2>2. CASE d # c
    BY <2>2 DEF TaskCalls, TaskCall, OwnCall, OthersAlone
  <2>3. QED
    BY <2>1, <2>2
<1>2. QED
  BY <1>1 DEF TaskCalls

LEMMA PageSendStep ==
    ASSUME KeyPageInv, NEW c \in Calls, NEW o \in KeyOps, NEW k \in Nat, UNCHANGED <<shown, body, backVars>>,
           call' = [call EXCEPT ![c] = NewCall(o, Me, k, "free", NoEvent)], ui' \in Ui,
           task' \in [Calls -> Task \cup {NoTask}], \A d \in Calls \ {c} : task'[d] = task[d],
           \/ task'[c].at = "list" /\ o = "list"
           \/ task'[c].at = "request" /\ task'[c].h = o
    PROVE  KeyPageInv'
<1>1. AccountsInv /\ PageTypeOK /\ TaskCalls /\ TypeOK
  BY DEF KeyPageInv, AccountsInv
<1>2. AccountsInv'
  BY <1>1, PageSends
<1>3. PageTypeOK'
  BY <1>1 DEF PageTypeOK
<1>4. OthersAlone(c) /\ OwnCall(c)' /\ call'[c].op = o /\ call'[c].st = "sent"
  BY <1>1, SentOwn
<1>5. TaskCall(c)'
  BY <1>4 DEF TaskCall
<1>6. TaskCalls'
  BY <1>1, <1>4, <1>5, TasksApart
<1>7. QED
  BY <1>2, <1>3, <1>6 DEF KeyPageInv

LEMMA PageForgetStep ==
    ASSUME KeyPageInv, NEW c \in Calls, call' = [call EXCEPT ![c] = Idle], UNCHANGED backVars, ui' \in Ui,
           task' \in [Calls -> Task \cup {NoTask}], \A d \in Calls \ {c} : task'[d] = task[d], task'[c] = NoTask,
           shown' \in {shown, Listed(c)}, body' \in {body, [body EXCEPT ![c] = <<>>]}
    PROVE  KeyPageInv'
<1>1. AccountsInv /\ PageTypeOK /\ TaskCalls /\ TypeOK
  BY DEF KeyPageInv, AccountsInv
<1>2. AccountsInv'
  BY <1>1, PageForgets
<1>3. shown' \subseteq Nat
  BY <1>1 DEF PageTypeOK, Listed
<1>4. DOMAIN body' = Calls /\ \A d \in Calls : DOMAIN body'[d] \subseteq Nat
  BY <1>1 DEF PageTypeOK
<1>5. PageTypeOK'
  BY <1>3, <1>4 DEF PageTypeOK
<1>6. OthersAlone(c)
  BY <1>1, Gone
<1>7. TaskCalls'
  BY <1>1, <1>6, TasksApart DEF TaskCall
<1>8. QED
  BY <1>2, <1>5, <1>7 DEF KeyPageInv

LEMMA PageStep ==
    ASSUME KeyPageInv, Page
    PROVE  KeyPageInv'
<1>1. AccountsInv /\ PageTypeOK /\ TaskCalls /\ TypeOK
  BY DEF KeyPageInv, AccountsInv
<1>2. ASSUME UNCHANGED <<call, backVars, body>>, shown' \subseteq shown, ui' \in Ui,
             task' \in [Calls -> Task \cup {NoTask}],
             \A d \in Calls : task'[d] = task[d] \/ task'[d] = NoTask \/ (task'[d].at = "token" /\ task'[d].h = "create")
      PROVE  KeyPageInv'
  <2>1. AccountsInv'
    BY <1>1, <1>2, Stutter DEF vars, backVars, stripeVars, historyVars
  <2>2. PageTypeOK'
    BY <1>1, <1>2 DEF PageTypeOK
  <2>3. ASSUME NEW d \in Calls PROVE TaskCall(d)'
    <3>1. CASE task'[d] = task[d]
      BY <1>1, <1>2, <3>1 DEF TaskCalls, TaskCall, OwnCall
    <3>2. CASE task'[d] = NoTask
      BY <3>2 DEF TaskCall
    <3>3. CASE task'[d].at = "token" /\ task'[d].h = "create"
      BY <3>3 DEF TaskCall
    <3>4. QED
      BY <1>2, <3>1, <3>2, <3>3
  <2>4. QED
    BY <2>1, <2>2, <2>3 DEF KeyPageInv, TaskCalls
<1>3. {"list", "create", "rotate", "disable"} \subseteq KeyOps /\ 0 \in Nat /\ "list" \in KeyOps /\ "create" \in KeyOps
  BY DEF KeyOps
<1>4. CASE Press
  BY <1>1, <1>2, <1>4, Pressed DEF PageTypeOK
<1>5. CASE Reload
  <2>1. Fresh \in Ui
    BY DEF Fresh, Ui, NoConfirm
  <2>2. QED
    BY <1>1, <1>2, <1>5, <2>1 DEF Reload, PageTypeOK
<1>6. ASSUME NEW c \in Calls, Mount(c) PROVE KeyPageInv'
  <2>1. PICK t \in Task : t.at = "list" /\ task' = [task EXCEPT ![c] = t]
    BY <1>1, <1>6, PageMounted
  <2>2. task' \in [Calls -> Task \cup {NoTask}] /\ task'[c] = t /\ \A d \in Calls \ {c} : task'[d] = task[d]
    BY <1>1, <2>1, TaskSet
  <2>3. ui' \in Ui /\ UNCHANGED <<shown, body, backVars>> /\ call' = [call EXCEPT ![c] = NewCall("list", Me, 0, "free", NoEvent)]
    BY <1>1, <1>6, PageMounted
  <2>4. QED
    BY <1>3, <2>1, <2>2, <2>3, PageSendStep
<1>7. ASSUME NEW c \in Calls, handleCreate(c) \/ \E k \in shown : handleRotate(c, k) \/ handleToggleDisable(c, k)
      PROVE  KeyPageInv'
  <2>1. PICK t \in Task :
             /\ task' = [task EXCEPT ![c] = t]
             /\ \/ t.at = "token" /\ t.h = "create" /\ UNCHANGED call
                \/ t.at = "request" /\ t.h \in {"create", "rotate", "disable"} /\ Send(c, t.h, Me, t.key, "free")
    BY <1>1, <1>7, Begun
  <2>2. task' \in [Calls -> Task \cup {NoTask}] /\ task'[c] = t /\ \A d \in Calls \ {c} : task'[d] = task[d]
    BY <1>1, <2>1, TaskSet
  <2>3. ui' \in Ui /\ UNCHANGED <<shown, body, backVars>>
    BY <1>1, <1>7, Begun
  <2>4. CASE t.at = "token" /\ t.h = "create" /\ UNCHANGED call
    BY <1>2, <2>2, <2>3, <2>4
  <2>5. CASE t.at = "request" /\ t.h \in {"create", "rotate", "disable"} /\ Send(c, t.h, Me, t.key, "free")
    <3>1. t.key \in Nat /\ t.h \in KeyOps
      BY <1>3, <2>5 DEF Task
    <3>2. QED
      BY <2>2, <2>3, <2>5, <3>1, PageSendStep DEF Send
  <2>6. QED
    BY <2>1, <2>4, <2>5
<1>8. ASSUME NEW c \in Calls, getTurnstileToken(c) PROVE KeyPageInv'
  <2>1. /\ task' \in [Calls -> Task \cup {NoTask}] /\ \A d \in Calls \ {c} : task'[d] = task[d]
        /\ task'[c] # NoTask /\ task'[c].at = "request" /\ task'[c].h = task[c].h
    BY <1>1, <1>8, TaskMoved DEF getTurnstileToken
  <2>2. task[c].h = "create"
    BY <1>1, <1>8 DEF getTurnstileToken, TaskCalls, TaskCall
  <2>3. QED
    BY <1>1, <1>3, <1>8, <2>1, <2>2, PageSendStep DEF getTurnstileToken, Send, PageTypeOK
<1>9. ASSUME NEW c \in Calls, MutationDone(c) PROVE KeyPageInv'
  <2>1. /\ ui' \in Ui /\ task[c] # NoTask /\ task' = [task EXCEPT ![c].at = "list"]
        /\ call' = [call EXCEPT ![c] = NewCall("list", Me, 0, "free", NoEvent)]
        /\ UNCHANGED <<shown, body, excuse, backVars>>
    BY <1>1, <1>9, RequestDone
  <2>2. /\ task' \in [Calls -> Task \cup {NoTask}] /\ \A d \in Calls \ {c} : task'[d] = task[d]
        /\ task'[c].at = "list"
    BY <1>1, <2>1, TaskMoved
  <2>3. QED
    BY <1>3, <2>1, <2>2, PageSendStep
<1>10. ASSUME NEW c \in Calls, MutationFailed(c) \/ Forget(c) \/ \E good \in BOOLEAN : ListArrives(c, good)
      PROVE  KeyPageInv'
  <2>1. /\ ui' \in Ui /\ call' = [call EXCEPT ![c] = Idle] /\ UNCHANGED backVars
        /\ task' = [task EXCEPT ![c] = NoTask]
        /\ shown' \in {shown, Listed(c)} /\ body' \in {body, [body EXCEPT ![c] = <<>>]}
    <3>1. CASE MutationFailed(c)
      BY <1>1, <3>1, RequestFailed
    <3>2. CASE Forget(c)
      BY <1>1, <3>2 DEF Forget, PageTypeOK
    <3>3. ASSUME NEW good \in BOOLEAN, ListArrives(c, good)
          PROVE  /\ ui' \in Ui /\ call' = [call EXCEPT ![c] = Idle] /\ UNCHANGED backVars
                 /\ task' = [task EXCEPT ![c] = NoTask]
                 /\ shown' \in {shown, Listed(c)} /\ body' \in {body, [body EXCEPT ![c] = <<>>]}
      BY <1>1, <3>3, ListHere
    <3>4. QED
      BY <1>10, <3>1, <3>2, <3>3
  <2>2. task' \in [Calls -> Task \cup {NoTask}] /\ task'[c] = NoTask /\ \A d \in Calls \ {c} : task'[d] = task[d]
    BY <1>1, <2>1, TaskSet
  <2>3. QED
    BY <2>1, <2>2, PageForgetStep
<1>11. QED
  BY <1>4, <1>5, <1>6, <1>7, <1>8, <1>9, <1>10 DEF Page

LEMMA OtherStep ==
    ASSUME KeyPageInv, Other
    PROVE  KeyPageInv'
<1>1. AccountsInv /\ PageTypeOK /\ TaskCalls /\ TypeOK
  BY DEF KeyPageInv, AccountsInv
<1>2. ActiveKeys(Me) \subseteq Nat
  BY <1>1, KeysAreRows DEF ActiveKeys
<1>3. PICK c \in Calls : task[c] = NoTask /\ \E o \in KeyOps, k \in Nat : Send(c, o, Me, k, "free") /\ Elsewhere
  <2>1. {"create", "rotate", "disable", "enable"} \subseteq KeyOps /\ 0 \in Nat
    BY DEF KeyOps
  <2>2. QED
    BY <1>2, <2>1 DEF Other, docsCreateKey, docsRollKey, apiToggle
<1>4. PICK o \in KeyOps, k \in Nat : Send(c, o, Me, k, "free") /\ Elsewhere
  BY <1>3
<1>5. AccountsInv' /\ OthersAlone(c)
  BY <1>1, <1>4, PageSends, SentOwn DEF Send, Elsewhere
<1>6. PageTypeOK'
  BY <1>1, <1>4 DEF Elsewhere, PageTypeOK
<1>7. task' = task
  BY <1>4 DEF Elsewhere
<1>8. TaskCalls'
  BY <1>1, <1>3, <1>5, <1>7, TasksApart DEF TaskCall
<1>9. QED
  BY <1>5, <1>6, <1>8 DEF KeyPageInv

LEMMA ListStep ==
    ASSUME KeyPageInv, NEW c \in Calls, ListKeys(c), UNCHANGED tabVars
    PROVE  KeyPageInv'
<1>1. AccountsInv /\ PageTypeOK /\ TaskCalls /\ TypeOK /\ call[c] # Idle /\ call[c].op = "list" /\ Answer(c, TRUE)
  BY DEF KeyPageInv, AccountsInv, ListKeys, At
<1>2. AccountsInv'
  BY <1>1, ListKeeps
<1>3. ActiveKeys(call[c].user) \subseteq Nat
  BY <1>1, KeysAreRows DEF ActiveKeys
<1>4. PageTypeOK' /\ task' = task
  BY <1>1, <1>3 DEF PageTypeOK, ListKeys, tabVars
<1>5. OthersAlone(c)
  BY <1>1, Answered
<1>6. TaskCall(c)'
  <2>1. task'[c] = task[c] /\ (task[c] # NoTask => task[c].at \in {"token", "request", "list"}) /\ TaskCall(c)
    BY <1>1, <1>4 DEF TaskCalls, PageTypeOK, Task
  <2>2. CASE OwnCall(c)
    <3>1. OwnCall(c)' /\ call'[c].op = call[c].op /\ call'[c].st = "done"
      BY <1>1, <2>2, AnsweredOwn
    <3>2. QED
      BY <2>1, <2>2, <3>1 DEF TaskCall
  <2>3. CASE ~OwnCall(c)
    BY <2>1, <2>3 DEF TaskCall
  <2>4. QED
    BY <2>2, <2>3
<1>7. TaskCalls'
  BY <1>1, <1>4, <1>5, <1>6, TasksApart
<1>8. QED
  BY <1>2, <1>4, <1>7 DEF KeyPageInv

LEMMA HandleKeeps ==
    ASSUME AccountsInv, NEW c \in Calls, Handle(c)
    PROVE  AccountsInv'
<1>1. CASE Fail(c) \/ OpenSession(c) \/ UsageKeys(c) \/ UsageStripe(c) \/ UsageCard(c)
  BY <1>1, FailKeeps, OpenSessionKeeps, UsageKeeps
<1>2. CASE CreateRead(c) \/ CreateCommit(c) \/ RotateRead(c) \/ RotateCommit(c) \/ Toggle(c)
  BY <1>2, CreateReadKeeps, CreateCommitKeeps, RotateReadKeeps, RotateCommitKeeps, ToggleKeeps
<1>3. CASE UpgradeCard(c) \/ UpgradeCheck(c) \/ UpgradeCommit(c)
  BY <1>3, UpgradeCardKeeps, UpgradeCheckKeeps, UpgradeCommitKeeps
<1>4. CASE HookDrops(c) \/ HookRead(c) \/ HookWrite(c) \/ \E e \in events : Deliver(c, e)
  BY <1>4, HookDropsKeeps, HookReadKeeps, HookWriteKeeps, DeliverKeeps
<1>5. QED
  BY <1>1, <1>2, <1>3, <1>4 DEF Handle

LEMMA AccountStep ==
    ASSUME AccountsInv, Next
    PROVE  AccountsInv'
<1>1. CASE \E l \in Links : Merge(l[1], l[2])
  BY <1>1, MergeKeeps
<1>2. CASE Stripe
  BY <1>2, PayKeeps, CardKeeps, EndSubKeeps, ChangePlanKeeps DEF Stripe
<1>3. ASSUME NEW c \in Calls, ClientStep(c) PROVE AccountsInv'
  BY <1>3, ClientKeeps
<1>4. QED
  BY <1>1, <1>2, <1>3, HandleKeeps DEF Next, Env

LEMMA AccountsStart ==
    ASSUME NEW ks \in Seq(Row), \A k \in DOMAIN ks : ks[k].plan = "free", InitWith(ks, [s \in Subs |-> NoSub])
    PROVE  AccountsInv
<1>1. /\ keys = ks /\ cards = {} /\ \A c \in Calls : call[c] = Idle
      /\ \A s \in Subs : subs[s] = NoSub
      /\ sessions = {} /\ events = {} /\ TypeOK
  BY DEF InitWith, TypeOK
<1>2. PlansAreEarned
  BY <1>1, NotSold DEF PlansAreEarned
<1>3. \A c \in Calls : CallFine(c) /\ CheckHolds(c) /\ ~Making(c)
  BY <1>1 DEF CallFine, CheckHolds, Making, IsUpgrade, At
<1>4. ServedOrTold
  BY <1>1 DEF ServedOrTold, PaysFor, ActiveSubs, SubsOf
<1>5. SharedOnlyIfRaced /\ \A s \in Subs : SubFine(s)
  BY <1>1 DEF SharedOnlyIfRaced, SubFine
<1>6. OneRowEach
  BY <1>3 DEF OneRowEach
<1>7. QED
  BY <1>1, <1>2, <1>3, <1>4, <1>5, <1>6 DEF AccountsInv

LEMMA KeyPageStart == KeyPageInit => KeyPageInv
<1> SUFFICES ASSUME KeyPageInit PROVE KeyPageInv
  OBVIOUS
<1>1. PageTypeOK /\ TaskCalls
  <2>1. Fresh \in Ui
    BY DEF Fresh, Ui, NoConfirm
  <2>2. QED
    BY <2>1 DEF KeyPageInit, PageTypeOK, TaskCalls, TaskCall
<1> DEFINE one == <<[user |-> Me, plan |-> "free", status |-> "live"]>>
<1>2. CASE Init
  <2>1. <<>> \in Seq(Row) /\ DOMAIN <<>> = {}
    OBVIOUS
  <2>2. QED
    BY <1>1, <1>2, <2>1, AccountsStart DEF Init, KeyPageInv
<1>3. CASE InitWith(one, [s \in Subs |-> NoSub])
  <2>1. [user |-> Me, plan |-> "free", status |-> "live"] \in Row
    BY Me_is_User DEF Row, Plans
  <2>2. one \in Seq(Row) /\ \A k \in DOMAIN one : one[k].plan = "free"
    BY <2>1
  <2> HIDE DEF one
  <2>3. QED
    BY <1>1, <1>3, <2>2, AccountsStart DEF KeyPageInv
<1>4. QED
  BY <1>2, <1>3 DEF KeyPageInit

LEMMA KeyPageStep == KeyPageInv /\ [KeyPageNext]_keyPageVars => KeyPageInv'
<1> SUFFICES ASSUME KeyPageInv, [KeyPageNext]_keyPageVars PROVE KeyPageInv'
  OBVIOUS
<1>1. CASE Page \/ Other
  BY <1>1, PageStep, OtherStep
<1>2. CASE (\E c \in Calls : ListKeys(c)) /\ UNCHANGED tabVars
  BY <1>2, ListStep
<1>3. CASE Next /\ UNCHANGED <<tabVars, body>>
  <2>1. AccountsInv' /\ PageTypeOK'
    BY <1>3, AccountStep DEF KeyPageInv, PageTypeOK, tabVars
  <2>2. \A d \in Calls : OwnMoves(d) /\ task'[d] = task[d]
    BY <1>3, NextMoves DEF KeyPageInv, tabVars
  <2>3. ASSUME NEW d \in Calls PROVE TaskCall(d)'
    <3>1. TaskCall(d) /\ OwnMoves(d) /\ task'[d] = task[d] /\ (task[d] # NoTask => task[d].at \in {"token", "request", "list"})
      BY <2>2 DEF KeyPageInv, TaskCalls, PageTypeOK, Task
    <3>2. QED
      BY <3>1 DEF TaskCall, OwnMoves
  <2>4. QED
    BY <2>1, <2>3 DEF KeyPageInv, TaskCalls
<1>4. CASE UNCHANGED keyPageVars
  BY <1>4, Stutter DEF KeyPageInv, PageTypeOK, TaskCalls, TaskCall, OwnCall, keyPageVars, vars, tabVars
<1>5. QED
  BY <1>1, <1>2, <1>3, <1>4 DEF KeyPageNext

(* The invariant of the accounts, whatever the portal's page, the docs portal,
   other clients and Stripe do.                                             *)
THEOREM AccountsInvariant == KeyPageSpec => []KeyPageInv
BY KeyPageStart, KeyPageStep, PTL DEF KeyPageSpec

(* PlansAreEarned of Accounts: no key is on a plan that nobody has bought, and
   none on Free+ without a card.                                            *)
THEOREM PlansEarned == KeyPageSpec => []PlansAreEarned
<1>1. KeyPageInv => PlansAreEarned
  BY DEF KeyPageInv, AccountsInv
<1>2. QED
  BY <1>1, AccountsInvariant, PTL

(* SharedOnlyIfRaced of Accounts: one card, one account, but for two checks at
   the same time.                                                           *)
THEOREM CardsShared == KeyPageSpec => []SharedOnlyIfRaced
<1>1. KeyPageInv => SharedOnlyIfRaced
  BY DEF KeyPageInv, AccountsInv
<1>2. QED
  BY <1>1, AccountsInvariant, PTL

(* ServedUnlessMissed of Accounts: a checkout that Stripe has seen answered has
   put the plan on every key, and none is lost later.                       *)
THEOREM PaidServed == KeyPageSpec => []ServedUnlessMissed
<1>1. KeyPageInv => ServedUnlessMissed
  <2>1. SUFFICES ASSUME AccountsInv, NEW u \in Users \ missed, NEW p \in Sold, PaysFor(u, p), Settled(u)
                 PROVE  \A k \in ActiveKeys(u) : keys[k].plan = p
    BY DEF KeyPageInv, ServedUnlessMissed
  <2>2. CheckoutTold(u) \/ Recorded(u, p)
    BY <2>1 DEF AccountsInv, ServedOrTold
  <2>3. ~CheckoutTold(u)
    BY <2>1 DEF CheckoutTold, Settled
  <2>4. QED
    BY <2>2, <2>3 DEF Recorded
<1>2. QED
  BY <1>1, AccountsInvariant, PTL

-----------------------------------------------------------------------------
(* A row stays on its plan, unless it is on the free one. *)
PlansKept == \A k \in DOMAIN keys : keys'[k].plan = keys[k].plan \/ keys[k].plan = "free"

LEMMA RowChanged ==
    ASSUME TypeOK, NEW i, NEW st, keys' = [keys EXCEPT ![i].status = st]
    PROVE  PlansKept
<1>1. \A k \in DOMAIN keys : keys[k] \in Row
  BY KeysAreRows
<1>2. QED
  BY <1>1 DEF PlansKept, Row

LEMMA RowAdded ==
    ASSUME TypeOK, NEW u, NEW p, Insert(u, p)
    PROVE  PlansKept
<1>1. DOMAIN keys = 1..Len(keys) /\ Len(keys) \in Nat /\ keys \in Seq(Row)
  BY KeysAreRows DEF TypeOK
<1>2. \A k \in DOMAIN keys : keys'[k] = keys[k]
  BY <1>1 DEF Insert
<1>3. QED
  BY <1>2 DEF PlansKept

LEMMA OnlyTheHook ==
    ASSUME AccountsInv, NEW c \in Calls, Handle(c), ~HookWrite(c)
    PROVE  PlansKept
<1>1. TypeOK /\ \A k \in DOMAIN keys : keys[k] \in Row
  BY KeysAreRows DEF AccountsInv
<1>2. keys' = keys => PlansKept
  BY DEF PlansKept
<1>3. CASE Fail(c) \/ OpenSession(c) \/ UsageKeys(c) \/ UsageStripe(c) \/ UsageCard(c) \/ UpgradeCard(c)
           \/ UpgradeCheck(c) \/ HookDrops(c) \/ HookRead(c) \/ \E e \in events : Deliver(c, e)
  BY <1>2, <1>3 DEF Fail, OpenSession, UsageKeys, UsageStripe, UsageCard, UpgradeCard, UpgradeCheck, HookDrops, HookRead, Deliver
<1>4. CASE CreateRead(c) \/ RotateRead(c)
  BY <1>1, <1>2, <1>4, RowAdded DEF CreateRead, RotateRead
<1>5. CASE CreateCommit(c) \/ Toggle(c)
  BY <1>1, <1>2, <1>5, RowChanged DEF CreateCommit, Toggle
<1>6. CASE RotateCommit(c)
  <2> DEFINE mid == [keys EXCEPT ![call[c].key].status = "revoked"]
  <2>1. DOMAIN mid = DOMAIN keys /\ \A k \in DOMAIN keys : mid[k].plan = keys[k].plan /\ mid[k] \in Row
    BY <1>1 DEF Row
  <2>2. keys' = [mid EXCEPT ![call[c].new].status = "live"]
    BY <1>6 DEF RotateCommit
  <2> HIDE DEF mid
  <2>3. QED
    BY <2>1, <2>2 DEF PlansKept, Row
<1>7. CASE UpgradeCommit(c)
  BY <1>7 DEF UpgradeCommit, WithPlan, Upgradable, PlansKept
<1>8. QED
  BY <1>3, <1>4, <1>5, <1>6, <1>7 DEF Handle

LEMMA HookEnds ==
    ASSUME AccountsInv, NEW c \in Calls, HookWrite(c), NEW k \in DOMAIN keys,
           keys[k].plan \in Sold, keys'[k].plan \notin Sold
    PROVE  \E v \in Family(keys[k].user) : \E s \in SubsOf(v) : subs[s].st = "ended"
<1>1. PICK u, e, p : u = call[c].user /\ e = call[c].ev /\ p = IF e.type = "updated" THEN e.plan ELSE call[c].plan
  OBVIOUS
<1>2. /\ HookFine(c) /\ keys' = WithPlan(ActiveKeys(u), p) /\ call[c] # Idle
      /\ e.type = "updated" \/ (e.type \in {"completed", "deleted"} /\ call[c].st = "read")
  BY <1>1 DEF HookWrite, At, AccountsInv, CallFine, UpdateUserPlan
<1>3. k \in ActiveKeys(u)
  BY <1>2 DEF WithPlan
<1>4. p \notin Sold
  BY <1>2, <1>3 DEF WithPlan, AccountsInv, TypeOK, Row, ActiveKeys
<1>5. e \in Event /\ EventFine(e) /\ e.user = u /\ e.sub \in Subs /\ subs[e.sub] # NoSub /\ subs[e.sub].user = u
  BY <1>1, <1>2 DEF HookFine, EventFine, Event
<1>6. e.type = "deleted"
  <2>1. subs[e.sub].had \subseteq Sold
    BY <1>5 DEF AccountsInv, TypeOK, Sub
  <2>2. e.type = "updated" => p \in Sold
    BY <1>1, <1>5 DEF Event
  <2>3. e.type = "completed" => p \in Sold
    BY <1>1, <1>2, <2>1 DEF HookFine
  <2>4. QED
    BY <1>2, <1>4, <2>2, <2>3
<1>7. subs[e.sub].st = "ended"
  BY <1>5, <1>6 DEF EventFine
<1>8. e.sub \in SubsOf(u) /\ u \in Family(keys[k].user)
  BY <1>3, <1>5 DEF SubsOf, Family, ActiveKeys
<1>9. QED
  BY <1>7, <1>8

LEMMA PaidEndsStep ==
    ASSUME KeyPageInv, [KeyPageNext]_keyPageVars, NEW k \in DOMAIN keys,
           keys[k].plan \in Sold, keys'[k].plan \notin Sold
    PROVE  \E v \in Family(keys[k].user) : \E s \in SubsOf(v) : subs[s].st = "ended"
<1>1. TypeOK /\ AccountsInv /\ keys' # keys /\ ~PlansKept
  BY NotSold DEF KeyPageInv, AccountsInv, PlansKept
<1>2. CASE Page \/ Other
  BY <1>1, <1>2 DEF Page, Other, Press, Reload, Mount, handleCreate, getTurnstileToken, MutationDone, MutationFailed,
    Forget, ListArrives, handleRotate, handleToggleDisable, docsCreateKey, docsRollKey, apiToggle, Begin, Elsewhere, backVars
<1>3. CASE \E c \in Calls : ListKeys(c)
  BY <1>1, <1>3 DEF ListKeys
<1>4. CASE Next
  <2>1. CASE Stripe
    BY <1>1, <2>1 DEF Stripe, Pay, EnterCard, AddCard, ChangePlan, EndSub
  <2>2. CASE \E l \in Links : Merge(l[1], l[2])
    <3>1. \A i \in DOMAIN keys : keys[i] \in Row
      BY <1>1, KeysAreRows
    <3>2. PlansKept
      BY <2>2, <3>1 DEF Merge, PlansKept, Row
    <3>3. QED
      BY <1>1, <3>2
  <2>3. ASSUME NEW c \in Calls, ClientStep(c) PROVE FALSE
    BY <1>1, <2>3 DEF ClientStep
  <2>4. ASSUME NEW c \in Calls, Handle(c) PROVE HookWrite(c)
    BY <1>1, <2>4, OnlyTheHook
  <2>5. QED
    BY <1>1, <1>4, <2>1, <2>2, <2>3, <2>4, HookEnds DEF Next, Env
<1>5. CASE UNCHANGED keyPageVars
  BY <1>1, <1>5 DEF keyPageVars, vars
<1>6. QED
  BY <1>2, <1>3, <1>4, <1>5 DEF KeyPageNext

(* PaidEndsAtStripe of Accounts: only Stripe ends a plan that is paid for. *)
THEOREM PaidEnds == KeyPageSpec => PaidEndsAtStripe
<1>1. KeyPageInv /\ [KeyPageNext]_keyPageVars =>
        [\A k \in DOMAIN keys :
            keys[k].plan \in Sold /\ keys'[k].plan \notin Sold =>
                \E v \in Family(keys[k].user) : \E s \in SubsOf(v) : subs[s].st = "ended"]_vars
  BY PaidEndsStep
<1>2. QED
  BY <1>1, AccountsInvariant, PTL DEF KeyPageSpec, PaidEndsAtStripe


-----------------------------------------------------------------------------
(* A new key is seen.  What a step draws is what it has seen. *)
LEMMA DrawSees ==
    ASSUME Draw
    PROVE  /\ made' \cap seen \subseteq seen'
           /\ ~ui'.loading => made' \cap {ui'.revealed} \subseteq seen'
BY DEF Draw

SeenAll == KeyPageInv /\ AskedFirst /\ SeenInv

(* A step that leaves the handlers as they are, or ends one. *)
LEMMA SeenQuiet ==
    ASSUME AskedFirst, SeenInv, Draw, UNCHANGED made, "overlap" \in excuse => "overlap" \in excuse',
           ui'.asked = ui.asked, ui'.loading = ui.loading \/ ~ui'.loading,
           ui'.revealed = ui.revealed \/ Drawn,
           \A d \in Calls : task'[d] = task[d] \/ task'[d] = NoTask,
           ui'.loading = ui.loading \/ Working
    PROVE  AskedFirst' /\ SeenInv'
<1>1. made \cap seen \subseteq seen' /\ (~ui'.loading => made \cap {ui'.revealed} \subseteq seen')
  BY DrawSees
<1>2. \A d \in Calls : task'[d] # NoTask => task[d] # NoTask /\ task'[d] = task[d]
  OBVIOUS
<1>3. AskedFirst'
  BY <1>2 DEF AskedFirst, Working
<1>4. ASSUME "overlap" \notin excuse' PROVE SeenInv'
  <2>1. /\ OneTask /\ made \ seen \subseteq {ui.revealed} /\ (Drawn => made \subseteq seen)
        /\ \A d \in Calls : task[d] # NoTask /\ task[d].at # "list" => Drawn
    BY <1>4 DEF SeenInv
  <2>2. OneTask'
    BY <1>2, <2>1 DEF OneTask
  <2>3. \A d \in Calls : task'[d] # NoTask /\ task'[d].at # "list" => Drawn'
    BY <1>2, <2>1 DEF Drawn
  <2>4. made' \ seen' \subseteq {ui'.revealed} /\ (Drawn' => made' \subseteq seen')
    BY <1>1, <2>1 DEF Drawn
  <2>5. QED
    BY <2>2, <2>3, <2>4 DEF SeenInv
<1>5. QED
  BY <1>3, <1>4 DEF SeenInv

(* A step of one handler: at its beginning, or from its answer to the list. *)
LEMMA SeenMoves ==
    ASSUME PageTypeOK, AskedFirst, SeenInv, Draw, NEW c \in Calls,
           \A d \in Calls \ {c} : task'[d] = task[d], task'[c] # NoTask, task[c] = NoTask \/ task[c].at # "list",
           task[c] = NoTask /\ Working => "overlap" \in excuse',
           "overlap" \in excuse => "overlap" \in excuse',
           task'[c].at # "list" => Drawn /\ Drawn' /\ made' = made,
           ui'.asked = TRUE \/ (ui'.asked = ui.asked /\ (Drawn \/ Working)),
           \/ made' = made /\ ui'.revealed = ui.revealed /\ ui'.loading = ui.loading
           \/ task[c] # NoTask /\ ui'.loading /\ made' = made \cup ({ui'.revealed} \ {0})
    PROVE  AskedFirst' /\ SeenInv'
<1>1. made' \cap seen \subseteq seen' /\ (~ui'.loading => made' \cap {ui'.revealed} \subseteq seen')
  BY DrawSees
<1>2. AskedFirst'
  BY DEF AskedFirst, Drawn, Working
<1>3. ASSUME "overlap" \notin excuse' PROVE SeenInv'
  <2>1. /\ OneTask /\ made \ seen \subseteq {ui.revealed} /\ (Drawn => made \subseteq seen)
        /\ \A d \in Calls : task[d] # NoTask /\ task[d].at # "list" => Drawn
    BY <1>3 DEF SeenInv
  <2>2. \A d \in Calls \ {c} : task[d] = NoTask /\ task'[d] = NoTask
    BY <1>3, <2>1 DEF OneTask, Working
  <2>3. OneTask' /\ \A d \in Calls : task'[d] # NoTask /\ task'[d].at # "list" => Drawn'
    BY <2>2 DEF OneTask
  <2>4. made' \ seen' \subseteq {ui'.revealed} /\ (Drawn' => made' \subseteq seen')
    <3>1. CASE made' = made /\ ui'.revealed = ui.revealed /\ ui'.loading = ui.loading
      BY <1>1, <2>1, <3>1 DEF Drawn
    <3>2. CASE task[c] # NoTask /\ ui'.loading /\ made' = made \cup ({ui'.revealed} \ {0})
      BY <1>1, <2>1, <3>2 DEF Drawn
    <3>3. QED
      BY <3>1, <3>2
  <2>5. QED
    BY <2>3, <2>4 DEF SeenInv
<1>4. QED
  BY <1>2, <1>3 DEF SeenInv

LEMMA SeenStep ==
    ASSUME SeenAll, Page \/ Other, Draw
    PROVE  AskedFirst' /\ SeenInv'
<1>1. PageTypeOK /\ TaskCalls /\ TypeOK /\ AskedFirst /\ SeenInv
  BY DEF SeenAll, KeyPageInv, AccountsInv
<1>2. CASE Press
  BY <1>1, <1>2, Pressed, SeenQuiet
<1>3. CASE Reload
  BY <1>3 DEF Reload, Fresh, AskedFirst, SeenInv, OneTask, Working, Drawn, Draw
<1>4. ASSUME NEW c \in Calls, Mount(c) PROVE AskedFirst' /\ SeenInv'
  <2>1. PICK t \in Task : t.at = "list" /\ task' = [task EXCEPT ![c] = t]
    BY <1>1, <1>4, PageMounted
  <2>2. task'[c] = t /\ t # NoTask /\ \A d \in Calls \ {c} : task'[d] = task[d]
    <3>1. t # NoTask
      BY DEF Task, NoTask
    <3>2. QED
      BY <1>1, <2>1, <3>1, TaskSet
  <2>3. /\ ~ui.asked /\ task[c] = NoTask /\ ui'.asked = TRUE /\ ui'.loading = ui.loading
        /\ ui'.revealed = ui.revealed /\ made' = made /\ excuse' = excuse
    BY <1>1, <1>4, PageMounted
  <2>4. ~Working
    BY <1>1, <2>3 DEF AskedFirst
  <2>5. QED
    BY <1>1, <2>1, <2>2, <2>3, <2>4, SeenMoves
<1>5. ASSUME NEW c \in Calls, handleCreate(c) \/ \E k \in shown : handleRotate(c, k) \/ handleToggleDisable(c, k)
      PROVE  AskedFirst' /\ SeenInv'
  <2>1. PICK t \in Task : task' = [task EXCEPT ![c] = t]
    BY <1>1, <1>5, Begun
  <2>2. task'[c] = t /\ t # NoTask /\ \A d \in Calls \ {c} : task'[d] = task[d]
    <3>1. t # NoTask
      BY DEF Task, NoTask
    <3>2. QED
      BY <1>1, <2>1, <3>1, TaskSet
  <2>3. /\ Drawn /\ task[c] = NoTask /\ made' = made /\ ui'.loading = ui.loading
        /\ ui'.asked = ui.asked /\ ui'.revealed = ui.revealed
        /\ excuse' = IF Working THEN excuse \cup {"overlap"} ELSE excuse
    BY <1>1, <1>5, Begun DEF TabStays
  <2>4. QED
    BY <1>1, <2>2, <2>3, SeenMoves DEF Drawn
<1>6. ASSUME NEW c \in Calls, getTurnstileToken(c) PROVE AskedFirst' /\ SeenInv'
  <2>1. /\ \A d \in Calls \ {c} : task'[d] = task[d]
        /\ task[c] # NoTask /\ task[c].at = "token" /\ task'[c] # NoTask /\ task'[c].at = "request"
    BY <1>1, <1>6, TaskMoved DEF getTurnstileToken
  <2>2. ui' = ui /\ made' = made /\ excuse' = excuse
    BY <1>6 DEF getTurnstileToken
  <2>3. CASE "overlap" \in excuse
    BY <1>1, <2>1, <2>2, <2>3 DEF AskedFirst, SeenInv, Working
  <2>4. CASE "overlap" \notin excuse
    <3>1. Drawn
      BY <1>1, <2>1, <2>4 DEF SeenInv
    <3>2. QED
      BY <1>1, <2>1, <2>2, <3>1, SeenMoves DEF Drawn
  <2>5. QED
    BY <2>3, <2>4
<1>7. ASSUME NEW c \in Calls, MutationDone(c) PROVE AskedFirst' /\ SeenInv'
  <2>1. /\ ui'.loading = TRUE /\ ui'.asked = ui.asked /\ task[c] # NoTask /\ task[c].at = "request"
        /\ task' = [task EXCEPT ![c].at = "list"] /\ made' = made \cup ({ui'.revealed} \ {0}) /\ excuse' = excuse
    BY <1>1, <1>7, RequestDone
  <2>2. \A d \in Calls \ {c} : task'[d] = task[d]
    BY <1>1, <2>1, TaskMoved
  <2>3. task'[c] # NoTask /\ task'[c].at = "list"
    BY <1>1, <2>1, TaskMoved
  <2>4. Working
    BY <2>1 DEF Working
  <2>5. QED
    BY <1>1, <2>1, <2>2, <2>3, <2>4, SeenMoves
<1>8. ASSUME NEW c \in Calls, MutationFailed(c) PROVE AskedFirst' /\ SeenInv'
  <2>1. task' = [task EXCEPT ![c] = NoTask] /\ TabStays /\ made' = made /\ excuse \subseteq excuse'
    BY <1>1, <1>8, RequestFailed
  <2>2. \A d \in Calls : task'[d] = task[d] \/ task'[d] = NoTask
    BY <1>1, <2>1, TaskSet
  <2>3. QED
    BY <1>1, <2>1, <2>2, SeenQuiet DEF TabStays
<1>9. ASSUME NEW c \in Calls, NEW good \in BOOLEAN, ListArrives(c, good) PROVE AskedFirst' /\ SeenInv'
  <2>1. /\ task' = [task EXCEPT ![c] = NoTask] /\ made' = made /\ excuse \subseteq excuse'
        /\ ui'.loading = FALSE /\ ui'.asked = ui.asked /\ ui'.revealed = ui.revealed /\ task[c] # NoTask
    BY <1>1, <1>9, ListHere
  <2>2. \A d \in Calls : task'[d] = task[d] \/ task'[d] = NoTask
    BY <1>1, <2>1, TaskSet
  <2>3. QED
    BY <1>1, <2>1, <2>2, SeenQuiet DEF Working
<1>10. CASE (\E c \in Calls : Forget(c)) \/ Other
  <2>1. UNCHANGED <<ui, task, made>> /\ excuse \subseteq excuse'
    BY <1>10 DEF Forget, Other, Elsewhere, docsCreateKey, docsRollKey, apiToggle
  <2>2. QED
    BY <1>1, <2>1, SeenQuiet
<1>11. QED
  BY <1>2, <1>3, <1>4, <1>5, <1>6, <1>7, <1>8, <1>9, <1>10 DEF Page

LEMMA SeenStart == KeyPageInit => SeenAll
<1>1. ASSUME KeyPageInit PROVE AskedFirst /\ SeenInv
  BY <1>1 DEF KeyPageInit, Fresh, AskedFirst, SeenInv, OneTask, Working, Drawn
<1>2. QED
  BY <1>1, KeyPageStart DEF SeenAll

LEMMA SeenAllStep == SeenAll /\ [KeyPageNext]_keyPageVars => SeenAll'
<1> SUFFICES ASSUME SeenAll, [KeyPageNext]_keyPageVars PROVE SeenAll'
  OBVIOUS
<1>1. KeyPageInv'
  BY KeyPageStep DEF SeenAll
<1>2. ASSUME Page \/ Other, Draw PROVE AskedFirst' /\ SeenInv'
  BY <1>2, SeenStep
<1>3. ASSUME UNCHANGED tabVars PROVE AskedFirst' /\ SeenInv'
  BY <1>3 DEF SeenAll, AskedFirst, SeenInv, OneTask, Working, Drawn, tabVars
<1>4. QED
  BY <1>1, <1>2, <1>3 DEF SeenAll, KeyPageNext, keyPageVars

(* NewKeyIsSeen of KeyPage: as long as no handlers of the page overlapped, a
   new key is on the screen at least once.                                  *)
THEOREM KeySeen == KeyPageSpec => []NewKeyIsSeen
<1>1. SeenAll => NewKeyIsSeen
  BY DEF SeenAll, SeenInv, NewKeyIsSeen
<1>2. QED
  BY <1>1, SeenStart, SeenAllStep, PTL DEF KeyPageSpec

-----------------------------------------------------------------------------
(* What a handler does to the rows: it gives none to another account, adds one
   that is not active, and changes the status of its own only.              *)
RowsOf(c) ==
    /\ DOMAIN keys \subseteq DOMAIN keys'
    /\ \A k \in DOMAIN keys : keys'[k].user = keys[k].user
    /\ \A k \in DOMAIN keys' \ DOMAIN keys : keys'[k].status = "pending"
    /\ \A k \in DOMAIN keys :
          \/ keys'[k].status = keys[k].status
          \/ /\ Answer(c, TRUE) /\ call[c] # Idle /\ call[c].op \in {"create", "rotate", "disable", "enable"}
             /\ \/ CreateCommit(c) \/ RotateCommit(c) \/ (Toggle(c) /\ IsActive(k) /\ IsActive(k)')
             /\ \/ keys[k].user = call[c].user
                \/ Making(c) /\ call[c].op = "rotate" /\ k = call[c].key /\ keys'[k].status = "revoked"

LEMMA RowsSame ==
    ASSUME NEW c \in Calls, keys' = keys
    PROVE  RowsOf(c)
BY DEF RowsOf

LEMMA RowsInserted ==
    ASSUME TypeOK, NEW c \in Calls, NEW u, NEW p, Insert(u, p)
    PROVE  RowsOf(c)
<1>1. PICK r : r = [user |-> u, plan |-> p, status |-> "pending"]
  OBVIOUS
<1>2. r.status = "pending" /\ keys' = Append(keys, r) /\ keys \in Seq(Row)
  BY <1>1 DEF Insert, TypeOK
<1>3. DOMAIN keys' = DOMAIN keys \cup {Len(keys) + 1} /\ keys'[Len(keys) + 1] = r /\ \A k \in DOMAIN keys : keys'[k] = keys[k]
  BY <1>2
<1>4. QED
  BY <1>2, <1>3 DEF RowsOf

LEMMA RowsRewritten ==
    ASSUME TypeOK, NEW c \in Calls, NEW ks, NEW p, keys' = WithPlan(ks, p)
    PROVE  RowsOf(c)
<1>1. /\ DOMAIN keys' = DOMAIN keys
      /\ \A k \in DOMAIN keys : keys'[k] = IF k \in ks THEN [keys[k] EXCEPT !.plan = p] ELSE keys[k]
  BY DEF WithPlan
<1>2. \A k \in DOMAIN keys : keys'[k].user = keys[k].user /\ keys'[k].status = keys[k].status
  BY <1>1, KeysAreRows DEF Row
<1>3. QED
  BY <1>1, <1>2 DEF RowsOf

LEMMA HandleRows ==
    ASSUME AccountsInv, NEW c \in Calls, Handle(c)
    PROVE  RowsOf(c)
<1>1. TypeOK /\ \A k \in DOMAIN keys : keys[k] \in Row
  BY KeysAreRows DEF AccountsInv
<1>2. CASE Fail(c) \/ OpenSession(c) \/ UsageKeys(c) \/ UsageStripe(c) \/ UsageCard(c) \/ UpgradeCard(c)
           \/ UpgradeCheck(c) \/ HookDrops(c) \/ HookRead(c) \/ \E e \in events : Deliver(c, e)
  BY <1>2, RowsSame DEF Fail, OpenSession, UsageKeys, UsageStripe, UsageCard, UpgradeCard, UpgradeCheck, HookDrops, HookRead, Deliver
<1>3. CASE CreateRead(c) \/ RotateRead(c)
  BY <1>1, <1>3, RowsSame, RowsInserted DEF CreateRead, RotateRead
<1>4. CASE CreateCommit(c)
  <2> DEFINE n == call[c].new
  <2>1. n \in DOMAIN keys /\ keys[n].user = call[c].user
    BY <1>4 DEF CreateCommit, AccountsInv, CallFine, NewRowFine, Making, At
  <2>2. keys' = [keys EXCEPT ![n].status = "live"] /\ Answer(c, TRUE) /\ call[c] # Idle /\ call[c].op = "create"
    BY <1>4 DEF CreateCommit, At
  <2>3. /\ DOMAIN keys' = DOMAIN keys
        /\ \A k \in DOMAIN keys : keys'[k].user = keys[k].user /\ (k # n => keys'[k].status = keys[k].status)
    BY <1>1, <2>1, <2>2 DEF Row
  <2>4. QED
    BY <1>4, <2>1, <2>2, <2>3 DEF RowsOf
<1>5. CASE RotateCommit(c)
  <2> DEFINE n == call[c].new
             o == call[c].key
             mid == [keys EXCEPT ![o].status = "revoked"]
  <2>1. /\ n \in DOMAIN keys /\ keys[n].user = call[c].user /\ keys[n].status = "pending"
        /\ o \in DOMAIN keys /\ keys[o].status # "pending"
    BY <1>5 DEF RotateCommit, AccountsInv, CallFine, NewRowFine, OldRowFine, Making, At
  <2>2. /\ keys' = [keys EXCEPT ![o].status = "revoked", ![n].status = "live"] /\ Answer(c, TRUE)
        /\ call[c] # Idle /\ call[c].op = "rotate" /\ Making(c)
    BY <1>5 DEF RotateCommit, At, Making
  <2>3. /\ DOMAIN mid = DOMAIN keys
        /\ \A k \in DOMAIN keys : /\ mid[k] \in Row /\ mid[k].user = keys[k].user
                                  /\ mid[k].status = IF k = o THEN "revoked" ELSE keys[k].status
    BY <1>1, <2>1 DEF Row
  <2>4. keys' = [mid EXCEPT ![n].status = "live"]
    BY <2>2
  <2> HIDE DEF mid
  <2>5. /\ DOMAIN keys' = DOMAIN keys
        /\ \A k \in DOMAIN keys : /\ keys'[k].user = keys[k].user
                                  /\ keys'[k].status = IF k = n THEN "live" ELSE mid[k].status
    BY <2>1, <2>3, <2>4 DEF Row
  <2>6. n # o
    BY <2>1
  <2>7. QED
    BY <1>5, <2>1, <2>2, <2>3, <2>5, <2>6 DEF RowsOf
<1>6. CASE Toggle(c)
  <2>1. CASE keys' = keys
    BY <2>1, RowsSame
  <2>2. CASE keys' # keys
    <3>1. PICK k, to : /\ k = call[c].key /\ to \in {"live", "disabled"}
                       /\ keys' = [keys EXCEPT ![k].status = to]
      BY <1>6, <2>2 DEF Toggle
    <3>2. /\ k \in ActiveKeys(call[c].user) /\ Answer(c, TRUE) /\ call[c] # Idle /\ call[c].op \in {"disable", "enable"}
      BY <1>6, <2>2, <3>1 DEF Toggle, At
    <3>3. k \in DOMAIN keys /\ keys[k].user = call[c].user /\ IsActive(k)
      BY <3>2 DEF ActiveKeys
    <3>4. /\ DOMAIN keys' = DOMAIN keys /\ keys'[k].status = to
          /\ \A j \in DOMAIN keys : keys'[j].user = keys[j].user /\ (j # k => keys'[j].status = keys[j].status)
      BY <1>1, <3>1, <3>3 DEF Row
    <3>5. IsActive(k)'
      BY <3>1, <3>4 DEF IsActive
    <3>6. QED
      BY <1>6, <3>2, <3>3, <3>4, <3>5 DEF RowsOf
  <2>3. QED
    BY <2>1, <2>2
<1>7. CASE UpgradeCommit(c)
  BY <1>1, <1>7, RowsRewritten DEF UpgradeCommit
<1>8. CASE HookWrite(c)
  BY <1>1, <1>8, RowsRewritten DEF HookWrite, UpdateUserPlan
<1>9. QED
  BY <1>2, <1>3, <1>4, <1>5, <1>6, <1>7, <1>8 DEF Handle

(* A request makes a key from its read to its commit, and its row is its own. *)
LEMMA HandleMaking ==
    ASSUME AccountsInv, NEW c \in Calls, Handle(c), NEW d \in Calls, Making(d)'
    PROVE  \/ Making(d) /\ call'[d] = call[d]
           \/ d = c /\ (CreateRead(c) \/ (RotateRead(c) /\ call[c].key \in Rotatable(call[c].user)))
<1>1. TypeOK /\ (call[c] # Idle => call[c] \in CallRec)
  BY DEF AccountsInv, TypeOK
<1>2. OthersAlone(c)
  BY <1>1 DEF Handle, OthersAlone, TypeOK, Fail, CreateRead, CreateCommit, RotateRead, RotateCommit, Toggle, OpenSession,
    UsageKeys, UsageStripe, UsageCard, UpgradeCard, UpgradeCheck, UpgradeCommit, HookDrops, HookRead, HookWrite, Deliver,
    Answer, AnswerPlan, Go, Step
<1>3. CASE d # c
  BY <1>2, <1>3 DEF OthersAlone, Making, At
<1>4. ASSUME d = c, NEW good \in BOOLEAN, call[c] # Idle, Answer(c, good) PROVE FALSE
  BY <1>1, <1>4, Answered, PlainIsFine
<1>5. ASSUME d = c, call[c] # Idle, call[c].op \notin {"create", "rotate"},
             \/ \E q : \/ Go(c, [call[c] EXCEPT !.st = "read", !.card = q])
                      \/ Go(c, [call[c] EXCEPT !.st = "read", !.plan = q])
                      \/ AnswerPlan(c, q)
             \/ Step(c, "read") \/ Step(c, "checked")
      PROVE FALSE
  <2>1. PICK r : Go(c, r) /\ \/ \E q : \/ r = [call[c] EXCEPT !.st = "read", !.card = q]
                                       \/ r = [call[c] EXCEPT !.st = "read", !.plan = q]
                                       \/ r = [call[c] EXCEPT !.st = "done", !.ok = TRUE, !.plan = q]
                              \/ r = [call[c] EXCEPT !.st = "read"] \/ r = [call[c] EXCEPT !.st = "checked"]
    BY <1>5 DEF AnswerPlan, Step
  <2>2. r.op = call[c].op
    BY <1>1, <1>5, <2>1 DEF CallRec
  <2>3. call'[c] = r
    BY <1>1, <2>1 DEF Go, TypeOK
  <2>4. QED
    BY <1>5, <2>2, <2>3 DEF Making, At
<1>6. CASE d = c
  <2>1. CASE Fail(c)
    BY <1>4, <1>6, <2>1 DEF Fail
  <2>2. CASE CreateRead(c)
    BY <1>6, <2>2
  <2>3. CASE RotateRead(c)
    BY <1>4, <1>6, <2>3 DEF RotateRead, At
  <2>4. CASE CreateCommit(c) \/ RotateCommit(c)
    BY <1>4, <1>6, <2>4 DEF CreateCommit, RotateCommit, At
  <2>5. CASE Toggle(c)
    BY <1>4, <1>6, <2>5 DEF Toggle, At
  <2>6. CASE OpenSession(c)
    <3>1. PICK good \in BOOLEAN : Answer(c, good) /\ call[c] # Idle
      BY <2>6 DEF OpenSession, At
    <3>2. QED
      BY <1>4, <1>6, <3>1
  <2>7. CASE UsageKeys(c) \/ UsageStripe(c) \/ UsageCard(c)
    BY <1>5, <1>6, <2>7 DEF UsageKeys, UsageStripe, UsageCard, At
  <2>8. CASE UpgradeCard(c) \/ UpgradeCheck(c)
    <3> DEFINE good == call[c].op = "webhook"
    <3>1. good \in BOOLEAN /\ call[c] # Idle /\ call[c].op \in {"confirm", "webhook"}
      BY <2>8 DEF UpgradeCard, UpgradeCheck, IsUpgrade, At
    <3>2. Answer(c, good) \/ (\E q : Go(c, [call[c] EXCEPT !.st = "read", !.card = q])) \/ Step(c, "checked")
      BY <2>8 DEF UpgradeCard, UpgradeCheck
    <3> HIDE DEF good
    <3>3. QED
      BY <1>4, <1>5, <1>6, <3>1, <3>2
  <2>9. CASE UpgradeCommit(c) \/ HookWrite(c)
    BY <1>4, <1>6, <2>9 DEF UpgradeCommit, HookWrite, IsUpgrade, At
  <2>10. CASE HookRead(c) \/ HookDrops(c)
    BY <1>4, <1>5, <1>6, <2>10 DEF HookRead, HookDrops, At
  <2>11. ASSUME NEW e \in events, Deliver(c, e) PROVE FALSE
    <3>1. PICK r : r = NewCall("webhook", e.user, 0, "free", e)
      OBVIOUS
    <3>2. r.op = "webhook" /\ call' = [call EXCEPT ![c] = r]
      BY <2>11, <3>1 DEF Deliver, NewCall
    <3>3. call'[c].op = "webhook"
      BY <1>1, <3>2 DEF TypeOK
    <3>4. QED
      BY <1>6, <3>3 DEF Making, At
  <2>12. QED
    BY <1>6, <2>1, <2>2, <2>3, <2>4, <2>5, <2>6, <2>7, <2>8, <2>9, <2>10, <2>11 DEF Handle
<1>7. QED
  BY <1>3, <1>6

-----------------------------------------------------------------------------
(* What the pages do to the requests: they send them for Me and forget them. *)
SentByPage(d) ==
    \E o \in KeyOps : \E k \in Nat :
        /\ call'[d] = NewCall(o, Me, k, "free", NoEvent)
        /\ o = "create" => "create" \in wants[Me] \/ (task[d] # NoTask /\ task[d].at = "token")
PageShape ==
    /\ UNCHANGED backVars
    /\ \A d \in Calls : call'[d] = call[d] \/ call'[d] = Idle \/ SentByPage(d)
    /\ \A d \in Calls : task'[d] # NoTask /\ task'[d].at = "token" => "create" \in wants[Me] \/ task'[d] = task[d]

LEMMA ShapeOfSend ==
    ASSUME TypeOK, NEW c \in Calls, NEW o \in KeyOps, NEW k \in Nat, UNCHANGED backVars,
           call' = [call EXCEPT ![c] = NewCall(o, Me, k, "free", NoEvent)],
           o = "create" => "create" \in wants[Me] \/ (task[c] # NoTask /\ task[c].at = "token"),
           \A d \in Calls \ {c} : task'[d] = task[d],
           task'[c] # NoTask /\ task'[c].at = "token" => task'[c] = task[c]
    PROVE  PageShape
<1>1. PICK r : r = NewCall(o, Me, k, "free", NoEvent)
  OBVIOUS
<1>2. call'[c] = r /\ \A d \in Calls \ {c} : call'[d] = call[d]
  BY <1>1 DEF TypeOK
<1>3. SentByPage(c)
  BY <1>1, <1>2 DEF SentByPage
<1>4. QED
  BY <1>2, <1>3 DEF PageShape

LEMMA PagesShape ==
    ASSUME KeyPageInv, Page \/ Other
    PROVE  PageShape
<1>1. AccountsInv /\ PageTypeOK /\ TaskCalls /\ TypeOK
  BY DEF KeyPageInv, AccountsInv
<1>2. {"list", "create", "rotate", "disable", "enable"} \subseteq KeyOps /\ 0 \in Nat /\ "list" \in KeyOps /\ "create" \in KeyOps
      /\ "list" # "create"
  BY DEF KeyOps
<1>3. CASE Press
  BY <1>1, <1>3, Pressed DEF PageShape
<1>4. CASE Reload
  BY <1>4 DEF Reload, PageShape
<1>5. ASSUME NEW c \in Calls, Mount(c) PROVE PageShape
  <2>1. PICK t \in Task : t.at = "list" /\ task' = [task EXCEPT ![c] = t]
    BY <1>1, <1>5, PageMounted
  <2>2. task'[c] = t /\ \A d \in Calls \ {c} : task'[d] = task[d]
    BY <1>1, <2>1, TaskSet
  <2>3. UNCHANGED backVars /\ call' = [call EXCEPT ![c] = NewCall("list", Me, 0, "free", NoEvent)]
    BY <1>1, <1>5, PageMounted
  <2>4. QED
    BY <1>1, <1>2, <2>1, <2>2, <2>3, ShapeOfSend
<1>6. ASSUME NEW c \in Calls, handleCreate(c) \/ \E k \in shown : handleRotate(c, k) \/ handleToggleDisable(c, k)
      PROVE  PageShape
  <2>1. PICK t \in Task :
             /\ task' = [task EXCEPT ![c] = t]
             /\ t.h = "create" => "create" \in wants[Me]
             /\ \/ t.at = "token" /\ t.h = "create" /\ UNCHANGED call
                \/ t.at = "request" /\ t.h \in {"create", "rotate", "disable"} /\ Send(c, t.h, Me, t.key, "free")
    BY <1>1, <1>6, Begun
  <2>2. task'[c] = t /\ \A d \in Calls \ {c} : task'[d] = task[d]
    BY <1>1, <2>1, TaskSet
  <2>3. UNCHANGED backVars
    BY <1>1, <1>6, Begun
  <2>4. CASE UNCHANGED call /\ t.h = "create"
    BY <2>1, <2>2, <2>3, <2>4 DEF PageShape
  <2>5. CASE t.at = "request" /\ t.h \in {"create", "rotate", "disable"} /\ Send(c, t.h, Me, t.key, "free")
    <3>1. t.key \in Nat /\ t.h \in KeyOps
      BY <1>2, <2>5 DEF Task
    <3>2. QED
      BY <1>1, <2>1, <2>2, <2>3, <2>5, <3>1, ShapeOfSend DEF Send
  <2>6. QED
    BY <2>1, <2>4, <2>5
<1>7. ASSUME NEW c \in Calls, getTurnstileToken(c) PROVE PageShape
  <2>1. /\ \A d \in Calls \ {c} : task'[d] = task[d]
        /\ task[c] # NoTask /\ task[c].at = "token" /\ task'[c].at = "request"
    BY <1>1, <1>7, TaskMoved DEF getTurnstileToken
  <2>2. UNCHANGED backVars /\ call' = [call EXCEPT ![c] = NewCall("create", Me, 0, "free", NoEvent)]
    BY <1>7 DEF getTurnstileToken, Send
  <2>3. QED
    BY <1>1, <1>2, <2>1, <2>2, ShapeOfSend
<1>8. ASSUME NEW c \in Calls, MutationDone(c) PROVE PageShape
  <2>1. /\ task[c] # NoTask /\ task' = [task EXCEPT ![c].at = "list"]
        /\ call' = [call EXCEPT ![c] = NewCall("list", Me, 0, "free", NoEvent)] /\ UNCHANGED backVars
    BY <1>1, <1>8, RequestDone
  <2>2. task'[c].at = "list" /\ \A d \in Calls \ {c} : task'[d] = task[d]
    BY <1>1, <2>1, TaskMoved
  <2>3. QED
    BY <1>1, <1>2, <2>1, <2>2, ShapeOfSend
<1>9. ASSUME NEW c \in Calls, MutationFailed(c) \/ Forget(c) \/ \E good \in BOOLEAN : ListArrives(c, good)
      PROVE  PageShape
  <2>1. call' = [call EXCEPT ![c] = Idle] /\ UNCHANGED backVars /\ task' = [task EXCEPT ![c] = NoTask]
    <3>1. CASE MutationFailed(c)
      BY <1>1, <3>1, RequestFailed
    <3>2. CASE Forget(c)
      BY <1>1, <3>2 DEF Forget, PageTypeOK
    <3>3. ASSUME NEW good \in BOOLEAN, ListArrives(c, good)
          PROVE  call' = [call EXCEPT ![c] = Idle] /\ UNCHANGED backVars /\ task' = [task EXCEPT ![c] = NoTask]
      BY <1>1, <3>3, ListHere
    <3>4. QED
      BY <1>9, <3>1, <3>2, <3>3
  <2>2. task'[c] = NoTask /\ \A d \in Calls \ {c} : task'[d] = task[d]
    BY <1>1, <2>1, TaskSet
  <2>3. \A d \in Calls : call'[d] = call[d] \/ call'[d] = Idle
    BY <1>1, <2>1 DEF TypeOK
  <2>4. QED
    BY <2>1, <2>2, <2>3 DEF PageShape
<1>10. CASE Other
  <2>1. ActiveKeys(Me) \subseteq Nat
    BY <1>1, KeysAreRows DEF ActiveKeys
  <2>2. PICK c \in Calls : \E o \in KeyOps, k \in Nat : Send(c, o, Me, k, "free") /\ Elsewhere /\ (o = "create" => "create" \in wants[Me])
    BY <1>2, <1>10, <2>1 DEF Other, docsCreateKey, docsRollKey, apiToggle
  <2>3. PICK o \in KeyOps, k \in Nat : Send(c, o, Me, k, "free") /\ Elsewhere /\ (o = "create" => "create" \in wants[Me])
    BY <2>2
  <2>4. task' = task /\ UNCHANGED backVars /\ call' = [call EXCEPT ![c] = NewCall(o, Me, k, "free", NoEvent)]
    BY <2>3 DEF Elsewhere, Send
  <2>5. QED
    BY <1>1, <2>3, <2>4, ShapeOfSend
<1>11. QED
  BY <1>3, <1>4, <1>5, <1>6, <1>7, <1>8, <1>9, <1>10 DEF Page

-----------------------------------------------------------------------------
(* Rotating is one for one. *)
LEMMA OneKeyStays ==
    ASSUME OneKeyInv, wants' = wants, raced \subseteq raced', ActiveKeys(Me)' \subseteq ActiveKeys(Me),
           \A d \in Calls : OwnCall(d)' /\ "create" \notin wants[Me] => call'[d].op # "create",
           \A d \in Calls : task'[d] # NoTask /\ "create" \notin wants[Me] => task'[d].at # "token",
           \A d \in Calls : MakingMine(d)' => MakingMine(d) /\ call'[d].key = call[d].key
    PROVE  OneKeyInv'
<1> SUFFICES ASSUME "create" \notin wants[Me], raced' = {}
             PROVE  /\ \A j, k \in ActiveKeys(Me)' : j = k
                    /\ \A d \in Calls : MakingMine(d)' => ActiveKeys(Me)' \subseteq {call'[d].key}
                    /\ \A d, e \in Calls : MakingMine(d)' /\ MakingMine(e)' => d = e
  BY DEF OneKeyInv
<1>1. /\ \A j, k \in ActiveKeys(Me) : j = k
      /\ \A d \in Calls : MakingMine(d) => ActiveKeys(Me) \subseteq {call[d].key}
      /\ \A d, e \in Calls : MakingMine(d) /\ MakingMine(e) => d = e
  BY DEF OneKeyInv
<1>2. QED
  BY <1>1

LEMMA OneKeyPage ==
    ASSUME KeyPageInv, OneKeyInv, Page \/ Other
    PROVE  OneKeyInv'
<1>1. PageShape
  BY PagesShape
<1>2. wants' = wants /\ raced' = raced /\ keys' = keys
  BY <1>1 DEF PageShape, backVars, historyVars
<1>3. ActiveKeys(Me)' = ActiveKeys(Me)
  BY <1>2 DEF ActiveKeys, IsActive
<1>4. \A d \in Calls : SentByPage(d) => ~Making(d)' /\ ("create" \notin wants[Me] => call'[d].op # "create" \/ (task[d] # NoTask /\ task[d].at = "token"))
  BY DEF SentByPage, NewCall, Making, At
<1>5. \A d \in Calls : task'[d] # NoTask /\ "create" \notin wants[Me] => task'[d].at # "token"
  BY <1>1 DEF PageShape, OneKeyInv
<1>6. \A d \in Calls : OwnCall(d)' /\ "create" \notin wants[Me] => call'[d].op # "create"
  BY <1>1, <1>4 DEF PageShape, OneKeyInv, OwnCall
<1>7. \A d \in Calls : MakingMine(d)' => MakingMine(d) /\ call'[d].key = call[d].key
  BY <1>1, <1>4 DEF PageShape, MakingMine, Making, At
<1>8. QED
  BY <1>2, <1>3, <1>5, <1>6, <1>7, OneKeyStays

LEMMA OneKeyHandle ==
    ASSUME KeyPageInv, OneKeyInv, NEW c \in Calls, Handle(c), UNCHANGED <<wants, task>>
    PROVE  OneKeyInv'
<1>1. AccountsInv /\ TypeOK /\ RowsOf(c) /\ \A d \in Calls : OwnMoves(d)
  BY HandleRows, HandleMoves DEF KeyPageInv, AccountsInv
<1>2. raced \subseteq raced'
  BY DEF Handle, Fail, CreateRead, CreateCommit, RotateRead, RotateCommit, Toggle, OpenSession, UsageKeys, UsageStripe,
    UsageCard, UpgradeCard, UpgradeCheck, UpgradeCommit, HookDrops, HookRead, HookWrite, UpdateUserPlan, Deliver, historyVars
<1>3. \A d \in Calls : OwnCall(d)' => OwnCall(d) /\ call'[d].op = call[d].op /\ call'[d].key = call[d].key
  BY <1>1 DEF OwnMoves
<1>4. \A d \in Calls : OwnCall(d)' /\ "create" \notin wants[Me] => call'[d].op # "create"
  BY <1>3 DEF OneKeyInv
<1>5. \A d \in Calls : task'[d] # NoTask /\ "create" \notin wants[Me] => task'[d].at # "token"
  BY DEF OneKeyInv
<1>6. ASSUME NEW d \in Calls, MakingMine(d)'
      PROVE  /\ OwnCall(d) /\ call'[d].key = call[d].key
             /\ MakingMine(d) \/ (d = c /\ (CreateRead(c) \/ (RotateRead(c) /\ call[c].key \in Rotatable(call[c].user))))
  <2>1. Making(d)' /\ OwnCall(d)'
    BY <1>6 DEF MakingMine, Making, At, OwnCall
  <2>2. QED
    BY <1>1, <1>3, <1>6, <2>1, HandleMaking DEF MakingMine, OwnCall
<1>7. CASE "create" \in wants[Me]
  BY <1>7 DEF OneKeyInv
<1>8. CASE "create" \notin wants[Me] /\ RotateRead(c) /\ OwnCall(c) /\ call[c].key \in Rotatable(Me)
  <2>1. ActiveKeys(Me)' \subseteq ActiveKeys(Me)
    <3>1. \A k \in DOMAIN keys : keys'[k].status = keys[k].status
      BY <1>1, <1>8 DEF RowsOf, RotateRead, Toggle, CreateCommit, RotateCommit, At
    <3>2. QED
      BY <1>1, <3>1 DEF RowsOf, ActiveKeys, IsActive
  <2>2. call[c].op = "rotate" /\ call[c].st = "sent" /\ call[c].user = Me
    BY <1>8 DEF RotateRead, At, OwnCall
  <2>3. raced' = {} => \A d \in Calls \ {c} : ~MakingMine(d)
    <3>1. ASSUME raced' = {}, NEW d \in Calls \ {c}, MakingMine(d) PROVE FALSE
      <4>1. call[c].key \in ActiveKeys(Me) /\ ActiveKeys(Me) \subseteq {call[d].key}
        BY <1>2, <1>8, <3>1 DEF OneKeyInv, Rotatable
      <4>2. call[d].op = "rotate"
        BY <1>8, <3>1 DEF OneKeyInv, MakingMine, Making, At, OwnCall
      <4>3. At(d, {"rotate"}, "read") /\ call[d].key = call[c].key
        BY <3>1, <4>1, <4>2 DEF MakingMine, Making, At
      <4>4. call[c].key \in raced'
        BY <1>8, <2>2, <4>3 DEF RotateRead, Rotatable
      <4>5. QED
        BY <3>1, <4>4
    <3>2. QED
      BY <3>1
  <2>4. ASSUME raced' = {}, NEW d \in Calls, MakingMine(d)' PROVE d = c
    BY <1>6, <2>3, <2>4
  <2>5. ASSUME raced' = {} PROVE /\ \A j, k \in ActiveKeys(Me)' : j = k
                                 /\ ActiveKeys(Me)' \subseteq {call[c].key}
    BY <1>2, <1>8, <2>1, <2>5 DEF OneKeyInv, Rotatable
  <2>6. ASSUME raced' = {}, NEW d \in Calls, MakingMine(d)' PROVE ActiveKeys(Me)' \subseteq {call'[d].key}
    BY <1>6, <2>4, <2>5, <2>6
  <2>7. QED
    BY <1>4, <1>5, <2>4, <2>5, <2>6 DEF OneKeyInv
<1>9. CASE "create" \notin wants[Me] /\ RotateCommit(c) /\ OwnCall(c)
  <2>1. MakingMine(c) /\ call[c].op = "rotate" /\ call[c].user = Me
    BY <1>9 DEF RotateCommit, At, MakingMine, Making, OwnCall
  <2>2. NewRowFine(c) /\ OldRowFine(c)
    BY <1>1, <2>1 DEF AccountsInv, CallFine, MakingMine
  <2>3. PICK n, o : n = call[c].new /\ o = call[c].key
    OBVIOUS
  <2>4. n # o /\ n \in DOMAIN keys /\ o \in DOMAIN keys /\ keys[o] \in Row /\ keys[n].status = "pending"
    BY <1>1, <2>2, <2>3, KeysAreRows DEF NewRowFine, OldRowFine
  <2>5. keys' = [keys EXCEPT ![o].status = "revoked", ![n].status = "live"]
    BY <1>9, <2>3 DEF RotateCommit
  <2>6. keys'[o].status = "revoked" /\ \A k \in DOMAIN keys \ {n, o} : keys'[k] = keys[k]
    BY <2>4, <2>5 DEF Row
  <2>7. DOMAIN keys' = DOMAIN keys
    BY <2>5
  <2>8. ASSUME raced' = {} PROVE ActiveKeys(Me)' \subseteq {n} /\ \A d \in Calls : ~MakingMine(d)'
    <3>1. ActiveKeys(Me) \subseteq {o} /\ \A d \in Calls : MakingMine(d) => d = c
      BY <1>2, <1>9, <2>1, <2>3, <2>8 DEF OneKeyInv
    <3>2. \A k \in ActiveKeys(Me)' : k = n
      BY <2>6, <2>7, <3>1 DEF ActiveKeys, IsActive
    <3>3. ~(CreateRead(c) \/ RotateRead(c))
      BY <2>1 DEF MakingMine, Making, CreateRead, RotateRead, At
    <3>4. ~Making(c)'
      BY <1>1, <1>9, Answered, PlainIsFine DEF RotateCommit, At
    <3>5. QED
      BY <1>6, <3>1, <3>2, <3>3, <3>4 DEF MakingMine
  <2>9. QED
    BY <1>4, <1>5, <2>8 DEF OneKeyInv
<1>10. CASE /\ "create" \notin wants[Me]
            /\ ~(RotateRead(c) /\ OwnCall(c) /\ call[c].key \in Rotatable(Me)) /\ ~(RotateCommit(c) /\ OwnCall(c))
  <2>1. \A d \in Calls : MakingMine(d)' => MakingMine(d) /\ call'[d].key = call[d].key
    <3>1. OwnCall(c) => call[c].user = Me /\ call[c].op # "create"
      BY <1>10 DEF OneKeyInv, OwnCall
    <3>2. CreateRead(c) => call[c].op = "create"
      BY DEF CreateRead, At
    <3>3. QED
      BY <1>6, <1>10, <3>1, <3>2
  <2>2. ActiveKeys(Me)' \subseteq ActiveKeys(Me)
    <3>1. ASSUME NEW k \in ActiveKeys(Me)' PROVE k \in ActiveKeys(Me)
      <4>1. k \in DOMAIN keys /\ keys'[k].user = Me /\ keys[k].user = Me /\ keys'[k].status \in {"live", "disabled"}
        BY <1>1, <3>1 DEF ActiveKeys, IsActive, RowsOf
      <4>2. CASE keys'[k].status = keys[k].status
        BY <4>1, <4>2 DEF ActiveKeys, IsActive
      <4>3. CASE keys'[k].status # keys[k].status
        <5>1. /\ call[c] # Idle /\ call[c].op \in {"create", "rotate", "disable", "enable"} /\ call[c].user = Me
              /\ CreateCommit(c) \/ RotateCommit(c) \/ IsActive(k)
          BY <1>1, <4>1, <4>3 DEF RowsOf
        <5>2. OwnCall(c)
          BY <5>1 DEF OwnCall
        <5>3. ~CreateCommit(c)
          BY <1>10, <5>2 DEF OneKeyInv, CreateCommit, At
        <5>4. QED
          BY <1>10, <4>1, <5>1, <5>2, <5>3 DEF ActiveKeys
      <4>4. QED
        BY <4>2, <4>3
    <3>2. QED
      BY <3>1
  <2>3. QED
    BY <1>2, <1>4, <1>5, <2>1, <2>2, OneKeyStays
<1>11. QED
  BY <1>7, <1>8, <1>9, <1>10

(* Nobody is merged into the account of the page. *)
NoOneJoinsMe == \A l \in Links : l[1] # Me

LEMMA ClientMakesNone ==
    ASSUME TypeOK, NEW c \in Calls, ClientStep(c)
    PROVE  \A d \in Calls : Making(d)' => Making(d) /\ call'[d] = call[d]
<1>1. PICK u \in Users \ Watchers : \E o \in wants[u] \cap Requests : \E k, p : Send(c, o, u, k, p)
  BY DEF ClientStep, Client
<1>2. PICK o, k, p : Send(c, o, u, k, p)
  BY <1>1
<1>3. PICK r : r = NewCall(o, u, k, p, NoEvent)
  OBVIOUS
<1>4. r.st = "sent" /\ call' = [call EXCEPT ![c] = r]
  BY <1>2, <1>3 DEF NewCall, Send
<1>5. call'[c] = r /\ \A d \in Calls \ {c} : call'[d] = call[d]
  BY <1>4 DEF TypeOK
<1>6. QED
  BY <1>4, <1>5 DEF Making, At

LEMMA OneKeyNext ==
    ASSUME NoOneJoinsMe, KeyPageInv, OneKeyInv, Next, UNCHANGED task
    PROVE  OneKeyInv'
<1>1. AccountsInv /\ TypeOK /\ wants' = wants
  BY DEF KeyPageInv, AccountsInv, Next
<1>2. \A d \in Calls : OwnCall(d)' => OwnCall(d) /\ call'[d].op = call[d].op
  BY <1>1, NextMoves DEF OwnMoves
<1>3. /\ \A d \in Calls : OwnCall(d)' /\ "create" \notin wants[Me] => call'[d].op # "create"
      /\ \A d \in Calls : task'[d] # NoTask /\ "create" \notin wants[Me] => task'[d].at # "token"
  BY <1>2 DEF OneKeyInv
<1>4. ASSUME call' = call, raced' = raced, ActiveKeys(Me)' \subseteq ActiveKeys(Me) PROVE OneKeyInv'
  <2>1. \A d \in Calls : MakingMine(d)' => MakingMine(d) /\ call'[d].key = call[d].key
    BY <1>4 DEF MakingMine, Making, At
  <2>2. QED
    BY <1>1, <1>3, <1>4, <2>1, OneKeyStays
<1>5. CASE Stripe
  <2>1. call' = call /\ raced' = raced /\ keys' = keys
    BY <1>5 DEF Stripe, Pay, EnterCard, AddCard, EndSub, ChangePlan, historyVars
  <2>2. QED
    BY <1>4, <2>1 DEF ActiveKeys, IsActive
<1>6. ASSUME NEW l \in Links, Merge(l[1], l[2]) PROVE OneKeyInv'
  <2>1. call' = call /\ raced' = raced /\ DOMAIN keys' = DOMAIN keys
    BY <1>6 DEF Merge
  <2>2. PICK u, v : u = l[1] /\ v = l[2] /\ u # Me
    BY DEF NoOneJoinsMe
  <2>3. \A k \in DOMAIN keys : keys'[k] = IF keys[k].user = v /\ keys[k].status # "pending" THEN [keys[k] EXCEPT !.user = u] ELSE keys[k]
    BY <1>6, <2>2 DEF Merge
  <2>4. \A k \in DOMAIN keys : keys'[k].user = Me => keys'[k] = keys[k]
    BY <1>1, <2>2, <2>3, KeysAreRows DEF Row
  <2>5. ActiveKeys(Me)' \subseteq ActiveKeys(Me)
    BY <2>1, <2>4 DEF ActiveKeys, IsActive
  <2>6. QED
    BY <1>4, <2>1, <2>5
<1>7. ASSUME NEW c \in Calls, ClientStep(c) PROVE OneKeyInv'
  <2>1. keys' = keys /\ raced' = raced
    BY <1>7 DEF ClientStep, historyVars
  <2>2. ActiveKeys(Me)' = ActiveKeys(Me)
    BY <2>1 DEF ActiveKeys, IsActive
  <2>3. \A d \in Calls : MakingMine(d)' => MakingMine(d) /\ call'[d].key = call[d].key
    BY <1>1, <1>7, ClientMakesNone DEF MakingMine
  <2>4. QED
    BY <1>1, <1>3, <2>1, <2>2, <2>3, OneKeyStays
<1>8. ASSUME NEW c \in Calls, Handle(c) PROVE OneKeyInv'
  BY <1>1, <1>8, OneKeyHandle
<1>9. QED
  BY <1>5, <1>6, <1>7, <1>8 DEF Next, Env

LEMMA OneKeyStep ==
    ASSUME NoOneJoinsMe, KeyPageInv, OneKeyInv, [KeyPageNext]_keyPageVars
    PROVE  OneKeyInv'
<1>1. CASE Page \/ Other
  BY <1>1, OneKeyPage
<1>2. ASSUME NEW c \in Calls, ListKeys(c), UNCHANGED tabVars PROVE OneKeyInv'
  <2>1. /\ call[c] # Idle /\ call[c].op = "list" /\ Answer(c, TRUE) /\ TypeOK
        /\ keys' = keys /\ raced' = raced /\ wants' = wants /\ task' = task
    BY <1>2 DEF ListKeys, At, KeyPageInv, AccountsInv, tabVars, historyVars
  <2>2. OthersAlone(c) /\ ~Making(c)'
    BY <2>1, Answered, PlainIsFine
  <2>3. \A d \in Calls \ {c} : call'[d] = call[d]
    BY <2>2 DEF OthersAlone
  <2>4. ~(OwnCall(c)' /\ call'[c].op = "create")
    <3>1. CASE OwnCall(c)
      BY <2>1, <3>1, AnsweredOwn
    <3>2. CASE ~OwnCall(c)
      BY <2>1, <3>2, AnsweredOther
    <3>3. QED
      BY <3>1, <3>2
  <2>5. ActiveKeys(Me)' = ActiveKeys(Me)
    BY <2>1 DEF ActiveKeys, IsActive
  <2>6. \A d \in Calls : MakingMine(d)' => MakingMine(d) /\ call'[d].key = call[d].key
    BY <2>2, <2>3 DEF MakingMine, Making, At
  <2>7. \A d \in Calls : OwnCall(d)' /\ "create" \notin wants[Me] => call'[d].op # "create"
    BY <2>3, <2>4 DEF OneKeyInv, OwnCall
  <2>8. \A d \in Calls : task'[d] # NoTask /\ "create" \notin wants[Me] => task'[d].at # "token"
    BY <2>1 DEF OneKeyInv
  <2>9. QED
    BY <2>1, <2>5, <2>6, <2>7, <2>8, OneKeyStays
<1>3. CASE Next /\ UNCHANGED <<tabVars, body>>
  BY <1>3, OneKeyNext DEF tabVars
<1>4. CASE UNCHANGED keyPageVars
  BY <1>4 DEF OneKeyInv, OwnCall, MakingMine, Making, At, ActiveKeys, IsActive, keyPageVars, vars, tabVars
<1>5. QED
  BY <1>1, <1>2, <1>3, <1>4 DEF KeyPageNext

LEMMA OneKeyStart == KeyPageInit => OneKeyInv
<1> SUFFICES ASSUME KeyPageInit PROVE OneKeyInv
  OBVIOUS
<1>1. \A c \in Calls : call[c] = Idle /\ task[c] = NoTask
  BY DEF KeyPageInit, Init, InitWith
<1>2. \A j, k \in ActiveKeys(Me) : j = k
  <2>1. CASE keys = <<>>
    BY <2>1 DEF ActiveKeys
  <2>2. CASE keys = <<[user |-> Me, plan |-> "free", status |-> "live"]>>
    BY <2>2 DEF ActiveKeys
  <2>3. QED
    BY <2>1, <2>2 DEF KeyPageInit, Init, InitWith
<1>3. QED
  BY <1>1, <1>2 DEF OneKeyInv, OwnCall, MakingMine, Making, At

LEMMA OneAtMost ==
    ASSUME NEW S, \A j, k \in S : j = k
    PROVE  Cardinality(S) <= 1
<1>1. CASE S = {}
  BY <1>1, FS_EmptySet
<1>2. CASE S # {}
  <2>1. PICK x : S = {x}
    BY <1>2
  <2>2. QED
    BY <2>1, FS_Singleton
<1>3. QED
  BY <1>1, <1>2

(* RotatedOneForOne of KeyPage: unless the API handled two rotations of one
   key at a time, rotating never leaves an account with two keys, if no other
   account is merged into it.                                               *)
THEOREM OneForOne == NoOneJoinsMe => (KeyPageSpec => []RotatedOneForOne)
<1> SUFFICES ASSUME NoOneJoinsMe PROVE KeyPageSpec => []RotatedOneForOne
  OBVIOUS
<1>1. KeyPageInit => KeyPageInv /\ OneKeyInv
  BY KeyPageStart, OneKeyStart
<1>2. KeyPageInv /\ OneKeyInv /\ [KeyPageNext]_keyPageVars => (KeyPageInv /\ OneKeyInv)'
  BY KeyPageStep, OneKeyStep
<1>3. OneKeyInv => RotatedOneForOne
  BY OneAtMost DEF OneKeyInv, RotatedOneForOne
<1>4. QED
  BY <1>1, <1>2, <1>3, PTL DEF KeyPageSpec

-----------------------------------------------------------------------------
(* The page is current: the account of the page is linked to no other, so
   that no one else's rows are its own.                                     *)
MeApart == \A l \in Links : l[1] # Me /\ l[2] # Me

LEMMA CallSet ==
    ASSUME TypeOK, NEW c \in Calls, NEW r, call' = [call EXCEPT ![c] = r]
    PROVE  call'[c] = r /\ \A d \in Calls \ {c} : call'[d] = call[d]
BY DEF TypeOK

LEMMA OwnRotationsStay ==
    ASSUME KeyPageInv, OwnRotations, DOMAIN keys \subseteq DOMAIN keys',
           \A k \in DOMAIN keys : keys'[k].user = Me => keys[k].user = Me,
           \A d \in Calls : Making(d)' => Making(d) /\ call'[d] = call[d]
    PROVE  OwnRotations'
<1> SUFFICES ASSUME NEW d \in Calls, Making(d)', call'[d].op = "rotate", keys'[call'[d].key].user = Me
             PROVE  call'[d].user = Me
  BY DEF OwnRotations
<1>1. Making(d) /\ call'[d] = call[d] /\ call[d].key \in DOMAIN keys
  BY DEF KeyPageInv, AccountsInv, CallFine, OldRowFine
<1>2. QED
  BY <1>1 DEF OwnRotations

LEMMA OwnRotationsHandle ==
    ASSUME KeyPageInv, OwnRotations, NEW c \in Calls, Handle(c)
    PROVE  OwnRotations'
<1>1. AccountsInv /\ TypeOK /\ RowsOf(c)
  BY HandleRows DEF KeyPageInv, AccountsInv
<1> SUFFICES ASSUME NEW d \in Calls, Making(d)', call'[d].op = "rotate", keys'[call'[d].key].user = Me
             PROVE  call'[d].user = Me
  BY DEF OwnRotations
<1>2. CASE Making(d) /\ call'[d] = call[d]
  <2>1. call[d].key \in DOMAIN keys
    BY <1>1, <1>2 DEF AccountsInv, CallFine, OldRowFine
  <2>2. keys[call[d].key].user = Me
    BY <1>1, <1>2, <2>1 DEF RowsOf
  <2>3. QED
    BY <1>2, <2>2 DEF OwnRotations
<1>3. CASE d = c /\ (CreateRead(c) \/ (RotateRead(c) /\ call[c].key \in Rotatable(call[c].user)))
  <2>1. call[c] \in CallRec /\ call[c].op \in {"create", "rotate"}
    BY <1>1, <1>3 DEF CreateRead, RotateRead, At, TypeOK
  <2>2. PICK r : r = [call[c] EXCEPT !.st = "read", !.new = Len(keys) + 1]
    OBVIOUS
  <2>3. r.op = call[c].op /\ r.user = call[c].user /\ r.key = call[c].key
    BY <2>1, <2>2 DEF CallRec
  <2>4. call'[c] = r
    BY <1>1, <1>3, <2>2, CallSet DEF CreateRead, RotateRead, Go
  <2>5. RotateRead(c) /\ call[c].key \in Rotatable(call[c].user)
    BY <1>3, <2>3, <2>4 DEF CreateRead, At
  <2>6. call[c].key \in DOMAIN keys /\ keys[call[c].key].user = call[c].user
    BY <2>5 DEF Rotatable, ActiveKeys
  <2>7. QED
    BY <1>1, <1>3, <2>3, <2>4, <2>6 DEF RowsOf
<1>4. QED
  BY <1>1, <1>2, <1>3, HandleMaking

(* The keys of the account change at the end of one of its own requests. *)
LEMMA HandleLive ==
    ASSUME KeyPageInv, OwnRotations, NEW c \in Calls, Handle(c)
    PROVE  \/ LiveKeys' = LiveKeys
           \/ /\ OwnCall(c) /\ call[c].op \in {"create", "rotate", "disable", "enable"}
              /\ call'[c].st = "done" /\ call'[c].ok
<1>1. AccountsInv /\ TypeOK /\ RowsOf(c)
  BY HandleRows DEF KeyPageInv, AccountsInv
<1>2. CASE \A k \in DOMAIN keys : keys[k].user = Me => keys'[k].status = keys[k].status
  <2>1. ASSUME NEW k PROVE k \in LiveKeys' <=> k \in LiveKeys
    <3>1. k \in LiveKeys <=> k \in DOMAIN keys /\ keys[k].user = Me /\ keys[k].status = "live"
      BY DEF LiveKeys, ActiveKeys, IsActive
    <3>2. k \in LiveKeys' <=> k \in DOMAIN keys' /\ keys'[k].user = Me /\ keys'[k].status = "live"
      BY DEF LiveKeys, ActiveKeys, IsActive
    <3>3. QED
      BY <1>1, <1>2, <3>1, <3>2 DEF RowsOf
  <2>2. QED
    BY <2>1
<1>3. ASSUME NEW k \in DOMAIN keys, keys[k].user = Me, keys'[k].status # keys[k].status
      PROVE  OwnCall(c) /\ call[c].op \in {"create", "rotate", "disable", "enable"} /\ call'[c].st = "done" /\ call'[c].ok
  <2>1. /\ Answer(c, TRUE) /\ call[c] # Idle /\ call[c].op \in {"create", "rotate", "disable", "enable"}
        /\ call[c].user = Me \/ (Making(c) /\ call[c].op = "rotate" /\ k = call[c].key)
    BY <1>1, <1>3 DEF RowsOf
  <2>2. call[c].user = Me
    BY <1>3, <2>1 DEF OwnRotations
  <2>3. OwnCall(c)
    BY <2>1, <2>2 DEF OwnCall
  <2>4. call'[c].st = "done" /\ call'[c].ok = TRUE
    BY <1>1, <2>1, <2>3, AnsweredOwn
  <2>5. QED
    BY <2>1, <2>3, <2>4
<1>4. QED
  BY <1>2, <1>3

LEMMA LiveSame ==
    ASSUME keys' = keys
    PROVE  LiveKeys' = LiveKeys
BY DEF LiveKeys, ActiveKeys, IsActive

CurrentAll == SeenAll /\ OwnRotations /\ CurrentInv

LEMMA CurrentNow ==
    ASSUME CurrentAll, excuse = {}
    PROVE  /\ OneTask /\ \A c \in Calls : OwnCall(c) => task[c] # NoTask /\ task[c].at # "token"
           /\ \A c \in Calls : task[c] # NoTask /\ task[c].at = "list" /\ call[c].st = "done" => Listed(c) = LiveKeys
           /\ shown = LiveKeys \/ (\E c \in Calls : Unsettled(c)) \/ (~Working /\ ~Drawn)
BY DEF CurrentAll, SeenAll, SeenInv, CurrentInv

(* A step of the API: the tab stays as it is. *)
LEMMA CurrentStays ==
    ASSUME CurrentAll, UNCHANGED <<tabVars, body>>, \A d \in Calls : OwnMoves(d),
           \/ LiveKeys' = LiveKeys
           \/ \E c \in Calls : /\ OwnCall(c) /\ call[c].op \in {"create", "rotate", "disable", "enable"}
                               /\ call'[c].st = "done" /\ call'[c].ok
    PROVE  CurrentInv'
<1>1. UNCHANGED <<shown, ui, task, excuse, body>> /\ (Working' <=> Working) /\ (Drawn' <=> Drawn)
  BY DEF tabVars, Working, Drawn
<1>2. SUFFICES ASSUME excuse = {} PROVE CurrentInv'
  BY <1>1 DEF CurrentInv
<1>3. /\ OneTask /\ \A c \in Calls : OwnCall(c) => task[c] # NoTask /\ task[c].at # "token"
      /\ \A c \in Calls : task[c] # NoTask /\ task[c].at = "list" /\ call[c].st = "done" => Listed(c) = LiveKeys
      /\ shown = LiveKeys \/ (\E c \in Calls : Unsettled(c)) \/ (~Working /\ ~Drawn)
  BY <1>2, CurrentNow
<1>4. \A c \in Calls : OwnCall(c)' => task'[c] # NoTask /\ task'[c].at # "token"
  BY <1>1, <1>3 DEF OwnMoves
<1>5. \A c \in Calls : Listed(c)' = Listed(c)
  BY <1>1 DEF Listed
<1>6. ASSUME NEW c \in Calls, task[c] # NoTask, task[c].at = "list"
      PROVE  call[c].op = "list" /\ OwnCall(c) /\ call'[c] = call[c]
  BY <1>6 DEF CurrentAll, SeenAll, KeyPageInv, TaskCalls, TaskCall, OwnMoves
<1>7. ASSUME NEW c \in Calls, task[c] # NoTask, task[c].at = "request" PROVE OwnCall(c)
  BY <1>7 DEF CurrentAll, SeenAll, KeyPageInv, TaskCalls, TaskCall
<1>8. CASE LiveKeys' = LiveKeys
  <2>1. \A c \in Calls : task'[c] # NoTask /\ task'[c].at = "list" /\ call'[c].st = "done" => Listed(c)' = LiveKeys'
    BY <1>1, <1>3, <1>5, <1>6, <1>8
  <2>2. \A c \in Calls : Unsettled(c) => Unsettled(c)'
    BY <1>1, <1>7 DEF Unsettled, OwnMoves
  <2>3. shown' = LiveKeys' \/ (\E c \in Calls : Unsettled(c)') \/ (~Working' /\ ~Drawn')
    BY <1>1, <1>3, <1>8, <2>2
  <2>4. QED
    BY <1>4, <2>1, <2>3 DEF CurrentInv
<1>9. ASSUME NEW c \in Calls, OwnCall(c), call[c].op \in {"create", "rotate", "disable", "enable"},
             call'[c].st = "done", call'[c].ok
      PROVE  CurrentInv'
  <2>1. task[c] # NoTask /\ task[c].at \in {"request", "list"}
    BY <1>3, <1>9 DEF CurrentAll, SeenAll, KeyPageInv, PageTypeOK, Task
  <2>2. task[c].at = "request"
    BY <1>6, <1>9, <2>1
  <2>3. Unsettled(c)'
    BY <1>1, <1>9, <2>1, <2>2 DEF Unsettled
  <2>4. \A d \in Calls : task'[d] # NoTask => d = c
    BY <1>1, <1>3, <2>1 DEF OneTask
  <2>5. QED
    BY <1>1, <1>4, <2>2, <2>3, <2>4 DEF CurrentInv
<1>10. QED
  BY <1>8, <1>9

(* A step of a handler of the page, or of a list request. *)
LEMMA CurrentMoves ==
    ASSUME CurrentAll, NEW c \in Calls, keys' = keys, excuse' = {} => excuse = {},
           \A d \in Calls \ {c} : task'[d] = task[d] /\ call'[d] = call[d] /\ body'[d] = body[d],
           OwnCall(c)' => task'[c] # NoTask /\ task'[c].at # "token",
           task'[c] # NoTask /\ task'[c].at = "list" /\ call'[c].st = "done" => Listed(c)' = LiveKeys,
           excuse' = {} => shown' = LiveKeys \/ (\E d \in Calls : Unsettled(d)') \/ (~Working' /\ ~Drawn')
    PROVE  CurrentInv'
<1>1. LiveKeys' = LiveKeys
  BY LiveSame
<1>2. SUFFICES ASSUME excuse' = {} PROVE CurrentInv'
  BY DEF CurrentInv
<1>3. /\ OneTask /\ \A d \in Calls : OwnCall(d) => task[d] # NoTask /\ task[d].at # "token"
      /\ \A d \in Calls : task[d] # NoTask /\ task[d].at = "list" /\ call[d].st = "done" => Listed(d) = LiveKeys
  BY <1>2, CurrentNow
<1>4. \A d \in Calls \ {c} : (OwnCall(d)' <=> OwnCall(d)) /\ Listed(d)' = Listed(d)
  BY DEF OwnCall, Listed
<1>5. \A d \in Calls : OwnCall(d)' => task'[d] # NoTask /\ task'[d].at # "token"
  BY <1>3, <1>4
<1>6. \A d \in Calls : task'[d] # NoTask /\ task'[d].at = "list" /\ call'[d].st = "done" => Listed(d)' = LiveKeys'
  BY <1>1, <1>3, <1>4
<1>7. shown' = LiveKeys' \/ (\E d \in Calls : Unsettled(d)') \/ (~Working' /\ ~Drawn')
  BY <1>1, <1>2
<1>8. QED
  BY <1>5, <1>6, <1>7 DEF CurrentInv

LEMMA CurrentPage ==
    ASSUME CurrentAll, Page \/ Other
    PROVE  CurrentInv'
<1>1. /\ KeyPageInv /\ AccountsInv /\ PageTypeOK /\ TaskCalls /\ TypeOK
      /\ keys' = keys /\ DOMAIN body = Calls
  BY PagesShape DEF CurrentAll, SeenAll, KeyPageInv, AccountsInv, PageShape, backVars, PageTypeOK
<1>2. "list" # "token" /\ "request" # "token" /\ "list" # "request" /\ "list" \in KeyOps
  BY DEF KeyOps
<1>3. CASE Press
  <2>1. /\ ui'.loading = ui.loading /\ UNCHANGED <<shown, task, body, excuse, made, call, backVars>>
    BY <1>1, <1>3, Pressed
  <2>2. /\ LiveKeys' = LiveKeys /\ (Working' <=> Working) /\ (Drawn' <=> Drawn)
        /\ \A c \in Calls : (Unsettled(c)' <=> Unsettled(c)) /\ Listed(c)' = Listed(c) /\ (OwnCall(c)' <=> OwnCall(c))
    BY <1>1, <2>1, LiveSame DEF Working, Drawn, Unsettled, Listed, OwnCall
  <2>3. QED
    BY <2>1, <2>2 DEF CurrentAll, CurrentInv
<1>4. CASE Reload
  <2>1. /\ \A c \in Calls : task'[c] = NoTask
        /\ ~Drawn' /\ call' = call
        /\ excuse' = {} => \A c \in Calls : call[c] = Idle
    BY <1>4 DEF Reload, Fresh, Drawn
  <2>2. ~Working'
    BY <2>1 DEF Working
  <2>3. QED
    BY <2>1, <2>2 DEF CurrentInv, OwnCall
<1>5. ASSUME NEW c \in Calls, Mount(c) PROVE CurrentInv'
  <2>1. PICK t \in Task : t.at = "list" /\ task' = [task EXCEPT ![c] = t]
    BY <1>1, <1>5, PageMounted
  <2>2. task'[c] = t /\ \A d \in Calls \ {c} : task'[d] = task[d]
    BY <1>1, <2>1, TaskSet
  <2>3. t # NoTask
    BY DEF Task, NoTask
  <2>4. UNCHANGED <<body, excuse>> /\ call' = [call EXCEPT ![c] = NewCall("list", Me, 0, "free", NoEvent)]
    BY <1>1, <1>5, PageMounted
  <2>5. call'[c].st = "sent" /\ \A d \in Calls \ {c} : call'[d] = call[d]
    BY <1>1, <1>2, <2>4, SentOwn DEF OthersAlone
  <2>6. Unsettled(c)'
    BY <2>1, <2>2, <2>3 DEF Unsettled
  <2>7. QED
    BY <1>1, <2>1, <2>2, <2>3, <2>4, <2>5, <2>6, CurrentMoves
<1>6. ASSUME NEW c \in Calls, handleCreate(c) \/ \E k \in shown : handleRotate(c, k) \/ handleToggleDisable(c, k)
      PROVE  CurrentInv'
  <2>1. PICK t \in Task :
             /\ task' = [task EXCEPT ![c] = t]
             /\ \/ t.at = "token" /\ t.h = "create" /\ UNCHANGED call
                \/ t.at = "request" /\ t.h \in {"create", "rotate", "disable"} /\ Send(c, t.h, Me, t.key, "free")
    BY <1>1, <1>6, Begun
  <2>2. task'[c] = t /\ \A d \in Calls \ {c} : task'[d] = task[d]
    BY <1>1, <2>1, TaskSet
  <2>3. t # NoTask
    BY DEF Task, NoTask
  <2>4. /\ Drawn /\ UNCHANGED <<shown, body>> /\ call[c] = Idle
        /\ excuse' = IF Working THEN excuse \cup {"overlap"} ELSE excuse
    BY <1>1, <1>6, Begun DEF handleCreate, handleRotate, handleToggleDisable, Begin, Send
  <2>5. \A d \in Calls \ {c} : call'[d] = call[d]
    BY <1>1, <2>1, CallSet DEF Send
  <2>6. OwnCall(c)' => task'[c].at # "token"
    <3>1. CASE UNCHANGED call
      BY <2>4, <3>1 DEF OwnCall
    <3>2. CASE t.at = "request"
      BY <2>2, <3>2
    <3>3. QED
      BY <2>1, <3>1, <3>2
  <2>7. task'[c].at # "list"
    BY <2>1, <2>2
  <2>8. ASSUME excuse' = {} PROVE shown' = LiveKeys
    <3>1. excuse = {} /\ ~Working
      BY <2>4, <2>8
    <3>2. \A d \in Calls : ~Unsettled(d)
      BY <3>1 DEF Working, Unsettled
    <3>3. QED
      BY <2>4, <3>1, <3>2, CurrentNow
  <2>9. excuse' = {} => excuse = {}
    BY <2>4
  <2>10. QED
    BY <1>1, <2>2, <2>3, <2>4, <2>5, <2>6, <2>7, <2>8, <2>9, CurrentMoves
<1>7. ASSUME NEW c \in Calls, getTurnstileToken(c) PROVE CurrentInv'
  <2>1. /\ \A d \in Calls \ {c} : task'[d] = task[d]
        /\ task[c] # NoTask /\ task[c].at = "token" /\ task'[c] # NoTask /\ task'[c].at = "request"
    BY <1>1, <1>7, TaskMoved DEF getTurnstileToken
  <2>2. UNCHANGED <<shown, body, excuse>> /\ call' = [call EXCEPT ![c] = NewCall("create", Me, 0, "free", NoEvent)]
    BY <1>7 DEF getTurnstileToken, Send
  <2>3. \A d \in Calls \ {c} : call'[d] = call[d]
    BY <1>1, <2>2, CallSet
  <2>4. ASSUME excuse' = {} PROVE shown' = LiveKeys
    <3>1. OneTask /\ (shown = LiveKeys \/ (\E d \in Calls : Unsettled(d)) \/ (~Working /\ ~Drawn))
      BY <2>2, <2>4, CurrentNow
    <3>2. \A d \in Calls : ~Unsettled(d)
      BY <2>1, <3>1 DEF OneTask, Unsettled
    <3>3. Working
      BY <2>1 DEF Working
    <3>4. QED
      BY <2>2, <3>1, <3>2, <3>3
  <2>5. QED
    BY <1>1, <1>2, <2>1, <2>2, <2>3, <2>4, CurrentMoves
<1>8. ASSUME NEW c \in Calls, MutationDone(c) PROVE CurrentInv'
  <2>1. /\ task[c] # NoTask /\ task' = [task EXCEPT ![c].at = "list"]
        /\ call' = [call EXCEPT ![c] = NewCall("list", Me, 0, "free", NoEvent)] /\ UNCHANGED <<body, excuse>>
    BY <1>1, <1>8, RequestDone
  <2>2. task'[c] # NoTask /\ task'[c].at = "list" /\ \A d \in Calls \ {c} : task'[d] = task[d]
    BY <1>1, <2>1, TaskMoved
  <2>3. call'[c].st = "sent" /\ \A d \in Calls \ {c} : call'[d] = call[d]
    BY <1>1, <1>2, <2>1, SentOwn DEF OthersAlone
  <2>4. Unsettled(c)'
    BY <2>2 DEF Unsettled
  <2>5. QED
    BY <1>1, <1>2, <2>1, <2>2, <2>3, <2>4, CurrentMoves
<1>9. ASSUME NEW c \in Calls, call' = [call EXCEPT ![c] = Idle], task' = [task EXCEPT ![c] = NoTask],
             body' \in {body, [body EXCEPT ![c] = <<>>]}, excuse' = {} => excuse = {},
             excuse' = {} => shown' = LiveKeys \/ (\E d \in Calls : Unsettled(d)') \/ (~Working' /\ ~Drawn')
      PROVE  CurrentInv'
  <2>1. task'[c] = NoTask /\ \A d \in Calls \ {c} : task'[d] = task[d]
    BY <1>1, <1>9, TaskSet
  <2>2. call'[c] = Idle /\ \A d \in Calls \ {c} : call'[d] = call[d]
    BY <1>1, <1>9, CallSet
  <2>3. \A d \in Calls \ {c} : body'[d] = body[d]
    BY <1>1, <1>9
  <2>4. ~OwnCall(c)'
    BY <2>2 DEF OwnCall
  <2>5. QED
    BY <1>1, <1>9, <2>1, <2>2, <2>3, <2>4, CurrentMoves
<1>10. ASSUME NEW c \in Calls, MutationFailed(c) PROVE CurrentInv'
  <2>1. /\ task[c] # NoTask /\ task[c].at = "request"
        /\ task' = [task EXCEPT ![c] = NoTask] /\ call' = [call EXCEPT ![c] = Idle]
        /\ excuse' = IF call[c].ok THEN excuse \cup {"lost"} ELSE excuse
        /\ UNCHANGED <<shown, body>>
    BY <1>1, <1>10, RequestFailed
  <2>2. excuse' = {} => excuse = {} /\ ~call[c].ok
    BY <2>1
  <2>3. ASSUME excuse' = {} PROVE shown' = LiveKeys
    <3>1. OneTask /\ (shown = LiveKeys \/ (\E d \in Calls : Unsettled(d)) \/ (~Working /\ ~Drawn))
      BY <2>2, <2>3, CurrentNow
    <3>2. \A d \in Calls : ~Unsettled(d)
      BY <2>1, <2>2, <2>3, <3>1 DEF OneTask, Unsettled
    <3>3. Working
      BY <2>1 DEF Working
    <3>4. QED
      BY <2>1, <3>1, <3>2, <3>3
  <2>4. QED
    BY <1>9, <2>1, <2>2, <2>3
<1>11. ASSUME NEW c \in Calls, NEW good \in BOOLEAN, ListArrives(c, good) PROVE CurrentInv'
  <2>1. /\ task[c] # NoTask /\ task[c].at = "list" /\ call[c].st = "done"
        /\ task' = [task EXCEPT ![c] = NoTask] /\ call' = [call EXCEPT ![c] = Idle]
        /\ shown' = (IF good THEN Listed(c) ELSE shown) /\ body' = [body EXCEPT ![c] = <<>>]
        /\ excuse' = (IF good THEN excuse ELSE excuse \cup {"lost"})
    BY <1>1, <1>11, ListHere
  <2>2. ASSUME excuse' = {} PROVE excuse = {} /\ shown' = LiveKeys
    <3>1. excuse = {} /\ good
      BY <2>1, <2>2
    <3>2. Listed(c) = LiveKeys
      BY <2>1, <3>1, CurrentNow
    <3>3. QED
      BY <2>1, <3>1, <3>2
  <2>3. QED
    BY <1>9, <2>1, <2>2
<1>12. ASSUME NEW c \in Calls, Forget(c) PROVE CurrentInv'
  <2>1. /\ task[c] = NoTask /\ task' = task /\ ui' = ui /\ shown' = shown /\ excuse' = excuse
        /\ call' = [call EXCEPT ![c] = Idle] /\ body' = [body EXCEPT ![c] = <<>>]
    BY <1>12 DEF Forget
  <2>2. task' = [task EXCEPT ![c] = NoTask]
    BY <1>1, <2>1 DEF PageTypeOK
  <2>3. \A d \in Calls \ {c} : call'[d] = call[d]
    BY <1>1, <2>1, CallSet
  <2>4. \A d \in Calls : Unsettled(d) => Unsettled(d)'
    BY <2>1, <2>3 DEF Unsettled
  <2>5. (Working' <=> Working) /\ (Drawn' <=> Drawn)
    BY <2>1 DEF Working, Drawn
  <2>6. excuse' = {} => shown' = LiveKeys \/ (\E d \in Calls : Unsettled(d)') \/ (~Working' /\ ~Drawn')
    BY <2>1, <2>4, <2>5, CurrentNow
  <2>7. QED
    BY <1>9, <2>1, <2>2, <2>6
<1>13. CASE Other
  <2>1. "elsewhere" \in excuse'
    BY <1>13 DEF Other, docsCreateKey, docsRollKey, apiToggle, Elsewhere
  <2>2. QED
    BY <2>1 DEF CurrentInv
<1>14. QED
  BY <1>3, <1>4, <1>5, <1>6, <1>7, <1>8, <1>10, <1>11, <1>12, <1>13 DEF Page

LEMMA CurrentList ==
    ASSUME CurrentAll, NEW c \in Calls, ListKeys(c), UNCHANGED tabVars
    PROVE  CurrentInv'
<1>1. /\ KeyPageInv /\ PageTypeOK /\ TaskCalls /\ TypeOK /\ keys' = keys
      /\ call[c] # Idle /\ call[c].op = "list" /\ call[c].st = "sent" /\ Answer(c, TRUE)
      /\ UNCHANGED <<shown, ui, task, excuse>>
  BY DEF CurrentAll, SeenAll, KeyPageInv, AccountsInv, ListKeys, At, tabVars
<1>2. \A d \in Calls \ {c} : call'[d] = call[d]
  BY <1>1, Answered DEF OthersAlone
<1>3. PICK l : l = [k \in ActiveKeys(call[c].user) |-> keys[k].status = "live"]
  OBVIOUS
<1>4. body'[c] = l /\ \A d \in Calls \ {c} : body'[d] = body[d]
  BY <1>1, <1>3 DEF ListKeys, PageTypeOK
<1>5. OwnCall(c)' => OwnCall(c)
  BY <1>1, AnsweredOther
<1>6. OwnCall(c) => Listed(c)' = LiveKeys
  <2>1. ASSUME OwnCall(c) PROVE {k \in DOMAIN l : l[k]} = LiveKeys
    <3>1. DOMAIN l = ActiveKeys(Me) /\ \A k \in ActiveKeys(Me) : l[k] <=> keys[k].status = "live"
      BY <1>3, <2>1 DEF OwnCall
    <3>2. QED
      BY <3>1 DEF LiveKeys
  <2>2. Listed(c)' = {k \in DOMAIN l : l[k]}
    BY <1>4 DEF Listed
  <2>3. QED
    BY <2>1, <2>2
<1>7. \A d \in Calls : Unsettled(d) => Unsettled(d)'
  BY <1>1, <1>2 DEF Unsettled
<1>8. (Working' <=> Working) /\ (Drawn' <=> Drawn)
  BY <1>1 DEF Working, Drawn
<1>9. CASE excuse = {}
  <2>1. OwnCall(c)' => task'[c] # NoTask /\ task'[c].at # "token"
    BY <1>1, <1>5, <1>9, CurrentNow
  <2>2. task'[c] # NoTask /\ task'[c].at = "list" => Listed(c)' = LiveKeys
    BY <1>1, <1>6 DEF TaskCalls, TaskCall
  <2>3. shown' = LiveKeys \/ (\E d \in Calls : Unsettled(d)') \/ (~Working' /\ ~Drawn')
    BY <1>1, <1>7, <1>8, <1>9, CurrentNow
  <2>4. QED
    BY <1>1, <1>2, <1>4, <2>1, <2>2, <2>3, CurrentMoves
<1>10. CASE excuse # {}
  BY <1>1, <1>10 DEF CurrentInv
<1>11. QED
  BY <1>9, <1>10

LEMMA CurrentNext ==
    ASSUME MeApart, CurrentAll, Next, UNCHANGED <<tabVars, body>>
    PROVE  CurrentInv' /\ OwnRotations'
<1>1. KeyPageInv /\ AccountsInv /\ TypeOK /\ OwnRotations /\ \A d \in Calls : OwnMoves(d)
  BY NextMoves DEF CurrentAll, SeenAll, KeyPageInv, AccountsInv
<1>2. ASSUME call' = call, DOMAIN keys' = DOMAIN keys,
             \A k \in DOMAIN keys : keys'[k] = keys[k] \/ (keys[k].user # Me /\ keys'[k].user # Me)
      PROVE  LiveKeys' = LiveKeys /\ OwnRotations'
  <2>1. LiveKeys' = LiveKeys
    BY <1>2 DEF LiveKeys, ActiveKeys, IsActive
  <2>2. \A d \in Calls : Making(d)' => Making(d) /\ call'[d] = call[d]
    BY <1>2 DEF Making, At
  <2>3. QED
    BY <1>1, <1>2, <2>1, <2>2, OwnRotationsStay
<1>3. CASE Stripe
  <2>1. call' = call /\ keys' = keys
    BY <1>3 DEF Stripe, Pay, EnterCard, AddCard, EndSub, ChangePlan
  <2>2. QED
    BY <1>1, <1>2, <2>1, CurrentStays
<1>4. ASSUME NEW l \in Links, Merge(l[1], l[2]) PROVE CurrentInv' /\ OwnRotations'
  <2>1. PICK u, v : u = l[1] /\ v = l[2] /\ u # Me /\ v # Me
    BY DEF MeApart
  <2>2. /\ call' = call /\ DOMAIN keys' = DOMAIN keys
        /\ \A k \in DOMAIN keys : keys'[k] = IF keys[k].user = v /\ keys[k].status # "pending" THEN [keys[k] EXCEPT !.user = u] ELSE keys[k]
    BY <1>4, <2>1 DEF Merge
  <2>3. \A k \in DOMAIN keys : keys'[k] = keys[k] \/ (keys[k].user # Me /\ keys'[k].user # Me)
    BY <1>1, <2>1, <2>2, KeysAreRows DEF Row
  <2>4. QED
    BY <1>1, <1>2, <2>2, <2>3, CurrentStays
<1>5. ASSUME NEW c \in Calls, ClientStep(c) PROVE CurrentInv' /\ OwnRotations'
  <2>1. keys' = keys
    BY <1>5 DEF ClientStep
  <2>2. OwnRotations'
    BY <1>1, <1>5, <2>1, ClientMakesNone, OwnRotationsStay
  <2>3. QED
    BY <1>1, <2>1, <2>2, LiveSame, CurrentStays
<1>6. ASSUME NEW c \in Calls, Handle(c) PROVE CurrentInv' /\ OwnRotations'
  BY <1>1, <1>6, OwnRotationsHandle, HandleLive, CurrentStays
<1>7. QED
  BY <1>3, <1>4, <1>5, <1>6 DEF Next, Env

LEMMA CurrentStep ==
    ASSUME MeApart, CurrentAll, [KeyPageNext]_keyPageVars
    PROVE  CurrentInv' /\ OwnRotations'
<1>1. KeyPageInv /\ TypeOK /\ OwnRotations
  BY DEF CurrentAll, SeenAll, KeyPageInv, AccountsInv
<1>2. CASE Page \/ Other
  <2>1. PageShape /\ keys' = keys
    BY <1>1, <1>2, PagesShape DEF PageShape, backVars
  <2>2. ASSUME NEW d \in Calls, SentByPage(d) \/ call'[d] = Idle PROVE ~Making(d)'
    <3>1. CASE call'[d] = Idle
      BY <3>1 DEF Making, At
    <3>2. CASE SentByPage(d)
      BY <3>2 DEF SentByPage, NewCall, Making, At
    <3>3. QED
      BY <2>2, <3>1, <3>2
  <2>3. \A d \in Calls : Making(d)' => Making(d) /\ call'[d] = call[d]
    BY <2>1, <2>2 DEF PageShape, Making, At
  <2>4. QED
    BY <1>1, <1>2, <2>1, <2>3, OwnRotationsStay, CurrentPage
<1>3. ASSUME NEW c \in Calls, ListKeys(c), UNCHANGED tabVars PROVE CurrentInv' /\ OwnRotations'
  <2>1. call[c] # Idle /\ Answer(c, TRUE) /\ keys' = keys
    BY <1>3 DEF ListKeys, At
  <2>2. OthersAlone(c) /\ ~Making(c)'
    BY <1>1, <2>1, Answered, PlainIsFine
  <2>3. \A d \in Calls : Making(d)' => Making(d) /\ call'[d] = call[d]
    BY <2>2 DEF OthersAlone, Making, At
  <2>4. QED
    BY <1>1, <1>3, <2>1, <2>3, OwnRotationsStay, CurrentList
<1>4. CASE Next /\ UNCHANGED <<tabVars, body>>
  BY <1>4, CurrentNext
<1>5. CASE UNCHANGED keyPageVars
  BY <1>5 DEF CurrentAll, CurrentInv, OwnRotations, OwnCall, Making, At, LiveKeys, ActiveKeys, IsActive, Listed, Unsettled,
    Working, Drawn, keyPageVars, vars, tabVars
<1>6. QED
  BY <1>2, <1>3, <1>4, <1>5 DEF KeyPageNext

(* PageIsCurrent of KeyPage: a page at rest shows the keys that can be used,
   unless its handlers overlapped, an answer was lost or someone else changed
   the keys, if the account of the page is linked to no other.              *)
THEOREM PageCurrent == MeApart => (KeyPageSpec => []PageIsCurrent)
<1> SUFFICES ASSUME MeApart PROVE KeyPageSpec => []PageIsCurrent
  OBVIOUS
<1>1. KeyPageInit => CurrentAll
  <2>1. ASSUME KeyPageInit PROVE CurrentInv /\ OwnRotations
    BY <2>1 DEF KeyPageInit, Init, InitWith, Fresh, CurrentInv, OwnRotations, Making, At, OwnCall, Working, Drawn
  <2>2. QED
    BY <2>1, SeenStart DEF CurrentAll
<1>2. CurrentAll /\ [KeyPageNext]_keyPageVars => CurrentAll'
  BY SeenAllStep, CurrentStep DEF CurrentAll
<1>3. CurrentAll => PageIsCurrent
  BY CurrentNow DEF CurrentAll, PageIsCurrent, AtRest, LiveKeys, Working, Unsettled
<1>4. QED
  BY <1>1, <1>2, <1>3, PTL DEF KeyPageSpec

=============================================================================
