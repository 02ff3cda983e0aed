----------------------------- MODULE BillingPages -----------------------------
(***************************************************************************)
(* The portal's pricing, usage and card pages in one browser tab, with the *)
(* API and Stripe of Accounts behind them.  A page is its React state and  *)
(* the answers its handlers await; following a link of the application     *)
(* unmounts it but lets its handlers run on, assigning location.href loads *)
(* another document some time later.                                       *)
(***************************************************************************)
EXTENDS AccountPage

CONSTANTS
    Published,   \* the plans GET /api/plans answers
    None         \* no call

ASSUME BillingAssumption == Published \subseteq PlanIds /\ None \notin Calls

VARIABLES
    signedIn,    \* auth.isAuthenticated
    page,        \* the page mounted, or the last one
    view,        \* its React state
    wait,        \* the call each handler of the page awaits
    stray,       \* calls whose page was unmounted under them
    adrift,      \* whether a card page was while Stripe confirmed the card
    leaving,     \* what location.href was set to, and where the tab is then
    doc,         \* the document: on the screen, or left and perhaps kept
    stripeJs     \* loadStripe's promise: none yet, resolved, rejected

docVars == <<signedIn, page, view, wait, stray, adrift, leaving, doc, stripeJs>>
pagesVars == <<vars, docVars>>

Pages == {"usage", "pricing", "card"}
Handlers == {"fetch", "select", "freeplus", "portal", "submit"}
Nowhere == [to |-> "nowhere"]
(* useState of the pages; busy holds the loading flags, named by handler. *)
Unread(p) ==
    [plan |-> "unknown", offer |-> {q.id : q \in ActivePlans},
     busy |-> IF p = "usage" THEN {"fetch"} ELSE {},
     asked |-> FALSE, error |-> FALSE, step |-> "loading"]

On(p) == doc \in {"live", "restored"} /\ page = p
Away == doc \in {"kept", "dropped"}
hasSub == view.plan \in Sold
NoWait == [h \in Handlers |-> None]
Confirming == page = "card" /\ view.step = "processing" /\ wait["submit"] = None
Awaited == {wait[h] : h \in Handlers} \cup stray

-----------------------------------------------------------------------------
(* Loading a document: the page starts afresh and asks for what it shows. *)
Show(p) ==
    /\ page' = p /\ doc' = "live" /\ leaving' = Nowhere
    /\ wait' = NoWait

Load(p) == Show(p) /\ view' = Unread(p) /\ stray' = {} /\ adrift' = FALSE /\ stripeJs' = "none"

(* A link: the page is unmounted, its handlers run on. *)
Follow(p) ==
    /\ ~Away /\ page # p
    /\ p \in {"usage", "card"} => signedIn                   \* RequireAuth
    /\ page' = p /\ doc' = "live"
    /\ view' = Unread(p)
    /\ stray' = stray \cup ({wait[h] : h \in Handlers} \ {None})
    /\ wait' = NoWait
    /\ adrift' = (adrift \/ Confirming)
    /\ UNCHANGED <<signedIn, leaving, stripeJs, backVars, call>>

ReloadDoc ==
    /\ ~Away /\ Load(page)
    /\ UNCHANGED <<signedIn, backVars, call>>

(* auth.login(): the way through Auth0 ends at "/", which is /usage. *)
Login ==
    /\ ~Away /\ ~signedIn /\ signedIn' = TRUE
    /\ Load("usage")
    /\ UNCHANGED <<backVars, call>>

-----------------------------------------------------------------------------
(* A handler signs a request, sends it and awaits the answer. *)
Ask(c, h, o, p) ==
    /\ wait[h] = None
    /\ Send(c, o, Me, 0, p)
    /\ wait' = [wait EXCEPT ![h] = c]
    /\ UNCHANGED <<signedIn, page, stray, adrift, leaving, doc, stripeJs, backVars>>

(* The effects of a page that was just mounted, and Retry and Refresh. *)
fetchPlan(c) ==
    /\ On("pricing") /\ signedIn /\ ~view.asked
    /\ Ask(c, "fetch", "usage", "free")
    /\ view' = [view EXCEPT !.asked = TRUE]

fetchUsage(c) ==
    /\ Ask(c, "fetch", "usage", "free")
    /\ view' = [view EXCEPT !.asked = TRUE, !.busy = @ \cup {"fetch"}, !.error = FALSE]

(* A failure of FastAPI is no JSON and is caught; this endpoint answers
   nothing else that .map() of the list would break on.                    *)
GetPlans ==
    /\ On("pricing") /\ view.offer # Published
    /\ view' = [view EXCEPT !.offer = Published]
    /\ UNCHANGED <<signedIn, page, wait, stray, adrift, leaving, doc, stripeJs, backVars, call>>

(* The button under a plan. *)
Button(p) ==
    IF p = view.plan THEN "Current Plan" ELSE IF p = "free_plus" THEN "Unlock Free+" ELSE "Switch Plan"

CanSelect(p) == p \in view.offer /\ Button(p) = "Switch Plan" /\ "select" \notin view.busy

handleSelectPlan(c, p) ==
    /\ On("pricing") /\ signedIn /\ CanSelect(p) /\ "checkout" \in wants[Me]
    /\ IF p = "free"
       THEN /\ leaving' = [to |-> "keys"]
            /\ UNCHANGED <<signedIn, page, view, wait, stray, adrift, doc, stripeJs, backVars, call>>
       ELSE /\ Ask(c, "select", "checkout", p)
            /\ view' = [view EXCEPT !.busy = @ \cup {"select"}]

handleUpgradeFreePlus(c) ==
    /\ On("pricing") /\ signedIn /\ "setup_card" \in wants[Me]
    /\ "free_plus" \in view.offer /\ Button("free_plus") = "Unlock Free+" /\ "freeplus" \notin view.busy
    /\ Ask(c, "freeplus", "setup_card", "free_plus")
    /\ view' = [view EXCEPT !.busy = @ \cup {"freeplus"}]

(* "Cancel Subscription" is Stripe's portal. *)
handleCancelSubscription(c) ==
    /\ On("pricing") /\ hasSub /\ "portal" \notin view.busy
    /\ Ask(c, "portal", "portal", "free")
    /\ view' = [view EXCEPT !.busy = @ \cup {"portal"}]

(* The usage page shows nothing else while it loads or after an error. *)
Dashboard == On("usage") /\ "fetch" \notin view.busy /\ ~view.error /\ view.plan # "unknown"

UsageEffect(c) == On("usage") /\ signedIn /\ ~view.asked /\ fetchUsage(c)
Retry(c) == (Dashboard \/ (On("usage") /\ view.error)) /\ fetchUsage(c)

handleManageBilling(c) ==
    /\ Dashboard /\ hasSub /\ "portal" \notin view.busy
    /\ Ask(c, "portal", "portal", "free")
    /\ view' = [view EXCEPT !.busy = @ \cup {"portal"}]

handleSetupCard(c) ==
    /\ "setup_card" \in wants[Me]
    /\ Dashboard /\ view.plan = "free" /\ "freeplus" \notin view.busy
    /\ Ask(c, "freeplus", "setup_card", "free_plus")
    /\ view' = [view EXCEPT !.busy = @ \cup {"freeplus"}]

-----------------------------------------------------------------------------
(* An answer, a refusal or the loss of either; good is res.ok, or a url. *)
Ends(c, good) ==
    /\ call[c] # Idle
    /\ \/ call[c].st = "done" /\ good = call[c].ok
       \/ call[c].st = "done" /\ ~good                     \* the answer is lost
    /\ call' = [call EXCEPT ![c] = Idle]
    /\ UNCHANGED <<signedIn, page, adrift, doc, stripeJs, backVars>>

Url(c) ==
    CASE call[c].op = "checkout" -> [to |-> "checkout", plan |-> call[c].plan]
      [] call[c].op = "setup_card" -> [to |-> "setup"]
      [] OTHER -> [to |-> "billing_portal"]

(* Variant: the flag is lowered after a good answer only. *)
FetchEndsWell(c, good) ==
    /\ wait["fetch"] = c /\ Ends(c, good)
    /\ wait' = [wait EXCEPT !["fetch"] = None]
    /\ view' = IF good THEN [view EXCEPT !.plan = call[c].plan, !.busy = @ \ {"fetch"}, !.error = FALSE] ELSE view
    /\ UNCHANGED <<stray, leaving>>

FetchEnds(c, good) ==
    /\ wait["fetch"] = c /\ Ends(c, good)
    /\ wait' = [wait EXCEPT !["fetch"] = None]
    /\ view' = [view EXCEPT !.plan = IF good THEN call[c].plan ELSE @,
                            !.busy = @ \ {"fetch"}, !.error = (page = "usage" /\ ~good)]
    /\ UNCHANGED <<stray, leaving>>

(* Variant: the flag stays up whatever the answer is. *)
RedirectEndsUp(h, c, good) ==
    /\ wait[h] = c /\ Ends(c, good)
    /\ wait' = [wait EXCEPT ![h] = None]
    /\ leaving' = IF good THEN Url(c) ELSE leaving
    /\ UNCHANGED <<view, stray>>

(* With a url the flag stays up and the page waits to be left. *)
RedirectEnds(h, c, good) ==
    /\ wait[h] = c /\ Ends(c, good)
    /\ wait' = [wait EXCEPT ![h] = None]
    /\ IF good THEN leaving' = Url(c) /\ UNCHANGED view
       ELSE view' = [view EXCEPT !.busy = @ \ {h}] /\ UNCHANGED leaving
    /\ UNCHANGED stray

PortalEnds(c, good) ==
    /\ wait["portal"] = c /\ Ends(c, good)
    /\ wait' = [wait EXCEPT !["portal"] = None]
    /\ leaving' = IF good THEN Url(c) ELSE leaving
    /\ view' = [view EXCEPT !.busy = @ \ {"portal"}]
    /\ UNCHANGED stray

(* The handler of an unmounted page cannot set its state, but it can leave. *)
StrayEnds(c, good) ==
    /\ c \in stray /\ Ends(c, good)
    /\ stray' = stray \ {c}
    /\ leaving' = IF good /\ call[c].op \in {"checkout", "setup_card", "portal"} THEN Url(c) ELSE leaving
    /\ UNCHANGED <<view, wait>>

(* Nobody waits any more: the document is gone. *)
Abandon(c) ==
    /\ call[c] # Idle /\ call[c].op # "webhook" /\ call[c].st = "done" /\ c \notin Awaited
    /\ call' = [call EXCEPT ![c] = Idle]
    /\ UNCHANGED <<docVars, backVars>>

-----------------------------------------------------------------------------
(* CardSetupPage.  The secret and what Stripe.js does are Stripe's. *)
SetStep(s) == view' = [view EXCEPT !.step = s]
CardOnly == UNCHANGED <<signedIn, page, stray, adrift, leaving, doc>>

(* The promise is kept with the document, the rejected one as well. *)
loadStripe(outcome) == stripeJs \in {"none", outcome} /\ stripeJs' = outcome

Mounted ==
    /\ On("card") /\ view.step = "loading"
    /\ \/ SetStep("error") /\ UNCHANGED stripeJs                  \* no secret
       \/ loadStripe("resolved") /\ SetStep("form")
       \/ loadStripe("rejected") /\ SetStep("error")
    /\ CardOnly /\ UNCHANGED <<wait, backVars, call>>

handleSubmit ==
    /\ On("card") /\ view.step = "form"
    /\ SetStep("processing")
    /\ CardOnly /\ UNCHANGED <<wait, stripeJs, backVars, call>>

(* Stripe has confirmed the card, and the API is asked to record it. *)
Confirm(c) ==
    /\ \E f \in Cards : method' = [method EXCEPT ![Me] = f]
    /\ Send(c, "confirm", Me, 0, "free_plus")

ConfirmSetup(c) ==
    /\ On("card") /\ Confirming
    /\ \/ SetStep("form") /\ UNCHANGED <<wait, method, call>>     \* error, or incomplete
       \/ /\ Confirm(c)
          /\ wait' = [wait EXCEPT !["submit"] = c]
          /\ UNCHANGED view
    /\ CardOnly /\ UNCHANGED <<stripeJs, keys, cards, subs, sessions, events, wants, historyVars>>

(* The handler of a card page that was left goes on. *)
ConfirmAdrift(c) ==
    /\ adrift /\ adrift' = FALSE
    /\ \/ UNCHANGED <<stray, method, call>>
       \/ Confirm(c) /\ stray' = stray \cup {c}
    /\ UNCHANGED <<signedIn, page, view, wait, leaving, doc, stripeJs,
                   keys, cards, subs, sessions, events, wants, historyVars>>

(* Variant: an answer is a success, whatever its status. *)
SubmitEndsAnyway(c, good) ==
    /\ wait["submit"] = c /\ Ends(c, good)
    /\ wait' = [wait EXCEPT !["submit"] = None]
    /\ SetStep("success")
    /\ UNCHANGED <<stray, leaving>>

SubmitEnds(c, good) ==
    /\ wait["submit"] = c /\ Ends(c, good)
    /\ wait' = [wait EXCEPT !["submit"] = None]
    /\ SetStep(IF good THEN "success" ELSE "form")
    /\ UNCHANGED <<stray, leaving>>

(* Back to Usage, Cancel, View Usage Dashboard *)
BackToUsage ==
    /\ On("card") /\ view.step \in {"error", "form", "success"}
    /\ leaving' = [to |-> "usage"]
    /\ UNCHANGED <<signedIn, page, view, wait, stray, adrift, doc, stripeJs, backVars, call>>

-----------------------------------------------------------------------------
(* The browser gets round to leaving; calls still under way are abandoned. *)
Unload ==
    /\ ~Away /\ leaving # Nowhere
    /\ IF leaving.to = "usage"
       THEN Load("usage")
       ELSE /\ doc' = IF wait = NoWait /\ stray = {} /\ ~adrift THEN "kept" ELSE "dropped"
            /\ stray' = {} /\ adrift' = FALSE /\ wait' = NoWait
            /\ UNCHANGED <<page, view, leaving, stripeJs>>
    /\ UNCHANGED <<signedIn, backVars, call>>

(* Stripe sends the browser back to the pricing page, which says from the URL
   alone that it went well, or that it was cancelled.                      *)
Return == Load("pricing") /\ UNCHANGED signedIn

PaidFor ==
    /\ Away /\ leaving.to = "checkout"
    /\ \E x \in sessions : \E s \in Subs : x.user = Me /\ x.plan = leaving.plan /\ Pay(x, s)
    /\ Return /\ UNCHANGED wants

CardEntered ==
    /\ Away /\ leaving.to = "setup"
    /\ \E x \in sessions : \E f \in Cards : x.user = Me /\ EnterCard(x, f)
    /\ Return /\ UNCHANGED wants

GivenUp ==
    /\ Away /\ leaving.to \in {"checkout", "setup"}
    /\ Return /\ UNCHANGED <<backVars, call>>

(* Stripe's portal: the subscription is changed or ended, and the browser
   sent to /usage.                                                         *)
PortalLeft ==
    /\ Away /\ leaving.to \in {"billing_portal", "keys"}
    /\ Load("usage") /\ UNCHANGED <<signedIn, backVars, call>>

InPortal ==
    /\ Away /\ leaving.to = "billing_portal"
    /\ \E s \in SubsOf(Me) : EndSub(s) \/ \E p \in Sold : ChangePlan(s, p)
    /\ UNCHANGED <<docVars, wants>>

(* Back: the page as it was left, unless the browser loads it again. *)
GoBack ==
    /\ Away
    /\ \/ /\ doc = "kept" /\ doc' = "restored" /\ leaving' = Nowhere
          /\ UNCHANGED <<page, view, wait, stray, adrift, stripeJs>>
       \/ Load(page)
    /\ UNCHANGED <<signedIn, backVars, call>>

-----------------------------------------------------------------------------
(* An account that has been served what it pays for. *)
Subscribed(p, s) ==
    InitWith(<<[user |-> Me, plan |-> p, status |-> "live"]>>,
             [t \in Subs |-> IF t = s THEN [user |-> Me, plan |-> p, st |-> "active", had |-> {p}]
                                      ELSE NoSub])

PagesInit ==
    /\ \/ Init /\ "cancel" \notin wants[Me]
       \/ (\E p \in Sold : \E s \in Subs : Subscribed(p, s)) /\ "cancel" \in wants[Me]
    /\ page \in wants[Me] \cap Pages /\ view = Unread(page)
    /\ signedIn = ("login" \notin wants[Me])
    /\ wait = NoWait /\ stray = {} /\ leaving = Nowhere /\ doc = "live" /\ stripeJs = "none"
    /\ adrift = FALSE

Fetches(c) == fetchPlan(c) \/ UsageEffect(c) \/ Retry(c)
Answers(c) ==
    \E good \in BOOLEAN :
        \/ FetchEnds(c, good) \/ RedirectEnds("select", c, good) \/ RedirectEnds("freeplus", c, good)
        \/ PortalEnds(c, good) \/ SubmitEnds(c, good) \/ StrayEnds(c, good)

Tab ==
    \/ \E p \in Pages : Follow(p)
    \/ ReloadDoc \/ Login \/ GetPlans \/ Mounted \/ handleSubmit \/ BackToUsage
    \/ Unload \/ PaidFor \/ CardEntered \/ GivenUp \/ PortalLeft \/ InPortal \/ GoBack
    \/ \E c \in Calls :
          \/ Fetches(c) \/ Answers(c) \/ Abandon(c) \/ ConfirmSetup(c) \/ ConfirmAdrift(c)
          \/ \E p \in Sold \cup {"free"} : handleSelectPlan(c, p)
          \/ handleUpgradeFreePlus(c) \/ handleCancelSubscription(c)
          \/ handleManageBilling(c) \/ handleSetupCard(c)

(* A key is made in another tab. *)
OtherTab(c) ==
    /\ "create" \in wants[Me] /\ Len(keys) < MaxKeys[Me]
    /\ \A d \in Calls : ~At(d, {"create"}, "sent")
    /\ Send(c, "create", Me, 0, "free") /\ UNCHANGED backVars

Server == \E c \in Calls : (Handle(c) \/ OtherTab(c)) /\ UNCHANGED <<docVars, wants>>

(* A scenario also says which pages are visited and what is pressed there. *)
PagesNext == (Tab \/ Server) /\ page' \in wants[Me]

(* Handlers run to their end and their answers are read; a page asks what it
   asks for when it is mounted as soon as the API takes a call.            *)
PagesFairness ==
    /\ SF_pagesVars(\E c \in Calls : Fetches(c))
    /\ \A c \in Calls : WF_pagesVars(Handle(c) /\ call[c] # Idle /\ UNCHANGED <<docVars, wants>>)
    /\ \A c \in Calls : WF_pagesVars(Answers(c) \/ Abandon(c))

PagesSpec == PagesInit /\ [][PagesNext]_pagesVars /\ PagesFairness

-----------------------------------------------------------------------------
(* A loading flag is up while an answer is awaited, the page is about to be
   left or has not asked yet, through lost answers, links, reloads and
   returns.  There is one exception: in a document that Back restored, the
   flag of a redirect may stay up, with its button disabled until a reload:
   the handlers raise it, leave, and nothing lowers it on the way back.    *)
LeftUp(h) == doc = "restored" /\ h \in {"select", "freeplus"}
BusyHasReason ==
    \A h \in view.busy :
        wait[h] # None \/ leaving # Nowhere \/ (h = "fetch" /\ ~view.asked) \/ LeftUp(h)

(* "You're on Free+!" is shown only to an account with a card recorded. *)
SuccessIsRecorded == (page = "card" /\ view.step = "success") => HasCard(Me)

(* The plan a page shows as the current one was bought, or has its card. *)
ShownWasEarned ==
    /\ view.plan \in Sold => Bought(Me, view.plan)
    /\ view.plan = "free_plus" => \E v \in Family(Me) : HasCard(v)

(* The usage page comes to show numbers or an error, unless the user loads it
   again and again.                                                        *)
Loading == On("usage") /\ signedIn /\ "fetch" \in view.busy
UsageShows == <>[]Loading => []<><<ReloadDoc>>_pagesVars

-----------------------------------------------------------------------------
View ==
    [plan : Plans \cup {"unknown"}, offer : SUBSET PlanIds, busy : SUBSET (Handlers \ {"submit"}),
     asked : BOOLEAN, error : BOOLEAN, step : {"loading", "error", "form", "processing", "success"}]

TabTypeOK ==
    /\ view \in View
    /\ wait \in [Handlers -> Calls \cup {None}] /\ stray \subseteq Calls

(* A handler awaits a request of its own kind, which no one else takes up. *)
OpOf(h) ==
    CASE h = "fetch" -> "usage" [] h = "select" -> "checkout" [] h = "freeplus" -> "setup_card"
      [] h = "portal" -> "portal" [] h = "submit" -> "confirm"
AwaitsOwn ==
    /\ \A h \in Handlers : wait[h] # None =>
          OwnCall(wait[h]) /\ call[wait[h]].op = OpOf(h) /\ wait[h] \notin stray
    /\ \A c \in stray : OwnCall(c)

(* What an answer says is so, and stays so while it is on its way. *)
AnswerTrue(c) ==
    call[c] # Idle /\ call[c].st = "done" /\ call[c].ok =>
        /\ call[c].op = "usage" => Earned(call[c].user, call[c].plan)
        /\ call[c].op = "confirm" => HasCard(call[c].user)

(* Only the flag of a redirect is up without its handler's call. *)
FlagHasCall ==
    doc # "dropped" =>
        \A h \in view.busy \ {"select", "freeplus"} : wait[h] # None \/ (h = "fetch" /\ ~view.asked)

BillingInv ==
    /\ AccountsInv /\ TabTypeOK /\ AwaitsOwn
    /\ \A c \in Calls : AnswerTrue(c)
    /\ BusyHasReason /\ FlagHasCall /\ SuccessIsRecorded /\ ShownWasEarned
=============================================================================
