----------------------------- MODULE PortalSession -----------------------------
(***************************************************************************)
(* Who is signed in to the portal, what lets a page through, and how the   *)
(* work of an anonymous visitor gets to an account: the tabs of a browser  *)
(* (main.tsx, App.tsx, RequireAuth, TosGate, useSession, anonClaim, the    *)
(* account menu, SavedNamesPage), with the session, terms and claim        *)
(* handlers behind them and Auth0 as the environment.                      *)
(***************************************************************************)
EXTENDS Integers, FiniteSets

CONSTANTS
    Users,      \* Auth0 subs
    Links,      \* pairs of subs that Auth0 has linked, primary first
    Tabs, Vids, \* tabs of the browser; visitor ids of the marketing site
    Slots,      \* requests under way at a time
    NoUser, NoVid, NoTab,
    LastVersion,\* bound on the versions of the terms
    Plots       \* what happens in a behaviour, to which tabs, accounts and ids: one of these

Pages == {"pricing", "usage", "history", "starred"}

ASSUME SessionAssumption ==
    /\ NoUser \notin Users /\ NoVid \notin Vids /\ NoTab \notin Tabs
    /\ Links \subseteq Users \X Users
    /\ LastVersion \in Nat \ {0}
    /\ Plots \subseteq [what : SUBSET {"switch", "deploy", "accept", "star"}, tabs : SUBSET Tabs,
                       users : SUBSET Users, vids : SUBSET Vids, pages : SUBSET Pages]

VARIABLES
    tos,        \* users: the version accepted, 0 for none, -1 for no row
    current,    \* CURRENT_TOS_VERSION
    owner,      \* name_generation_lists: whose the lists of a visitor are
    cookie,     \* Auth0: the account of the browser's session
    stash,      \* localStorage: cygi_pending_vid
    remembered, \* localStorage: cygi_remembered_accounts
    tab,        \* what each tab holds
    req,        \* the requests
    plot,       \* never changes: the plot
    accepted,   \* history: the versions each account has accepted
    captured,   \* history: visitor ids that came with a link
    mishap      \* history: a claim answered though nothing was claimed, or an id replaced

serverVars == <<tos, current, owner>>
browserVars == <<cookie, stash, remembered>>
historyVars == <<accepted, captured, mishap>>
vars == <<serverVars, browserVars, tab, req, plot, historyVars>>

Versions == 1 .. LastVersion
Protected == Pages \ {"pricing"}
NoSession == [ver |-> 0, cur |-> 1]            \* session ?? {null, null, "1.0"}
NoTask == [kind |-> "none"]

(* A tab as a document load leaves it: useState and useRef. *)
Fresh(p) ==
    [auth |-> "pending", user |-> NoUser, page |-> p, called |-> FALSE, loading |-> TRUE,
     session |-> NoSession, accepting |-> FALSE, gateError |-> FALSE, view |-> "none", lists |-> {}]

-----------------------------------------------------------------------------
(* RequireAuth shows a spinner, goes to the login, or shows the terms until
   they are accepted at the version the session named.                     *)
Spins(r) == r.auth = "pending" \/ (r.auth = "in" /\ r.loading)

(* Variant: any version will do. *)
AcceptedOnce(r) == r.session.ver # 0

Accepted(r) == r.session.ver # 0 /\ r.session.ver = r.session.cur
GateShown(r) == r.auth = "in" /\ ~r.loading /\ ~Accepted(r) /\ r.page \in Protected
Open(r) == r.auth = "in" /\ ~r.loading /\ Accepted(r) /\ r.page \in Protected

(* The page behind the gate goes with it, and its load is cancelled: nobody
   reads the answer any more.                                              *)
Drawn(r) == IF Open(r) /\ r.page \in {"history", "starred"} THEN r ELSE [r EXCEPT !.view = "none", !.lists = {}]
Abandon(q, t, kinds) ==
    [s \in Slots |->
        IF q[s] = NoTask \/ q[s].tab # t \/ q[s].kind \notin kinds THEN q[s]
        ELSE IF q[s].st = "done" THEN NoTask ELSE [q[s] EXCEPT !.tab = NoTab]]
Kinds == {"session", "accept", "claim", "mine", "stars", "toggle"}
Cancel(q, t) == Abandon(q, t, {"mine", "stars", "toggle"})
Orphan(q, t) == Abandon(q, t, Kinds)
SetTab(t, r) == tab' = [tab EXCEPT ![t] = Drawn(r)]

-----------------------------------------------------------------------------
(* A document is loaded: main.tsx stashes the visitor id of the link, the
   requests of the old document are nobody's.                              *)
Load(t, p, v) ==
    /\ tab' = [tab EXCEPT ![t] = Fresh(p)]
    /\ req' = Orphan(req, t)
    /\ stash' = IF v = NoVid THEN stash ELSE v
    /\ captured' = captured \cup ({v} \ {NoVid})
    /\ mishap' = (mishap \/ (v # NoVid /\ stash \notin {v, NoVid}))
    /\ UNCHANGED <<serverVars, remembered, plot, accepted>>

Reload(t) == Load(t, tab[t].page, NoVid) /\ UNCHANGED cookie

(* A link of the marketing site. *)
ArriveWith(t, v) ==
    /\ Load(t, "usage", v) /\ UNCHANGED cookie

(* The way through Auth0 ends at "/", which is /usage: as some account, or
   with an error that App shows and that starts no other login.            *)
ThroughAuth0(t, u) == Load(t, "usage", NoVid) /\ cookie' = u

LoginReturns(t) ==
    /\ tab[t].auth = "out"
    /\ \/ \E u \in plot.users : ThroughAuth0(t, u)
       \/ /\ tab' = [tab EXCEPT ![t] = [Fresh("usage") EXCEPT !.auth = "error"]]
          /\ req' = Orphan(req, t)
          /\ UNCHANGED <<serverVars, browserVars, plot, historyVars>>

TryAgain(t) == tab[t].auth = "error" /\ Load(t, "usage", NoVid) /\ UNCHANGED cookie

(* The account menu. *)
switchAccount(t, u) ==
    /\ "switch" \in plot.what /\ tab[t].auth = "in" /\ u \in remembered \ {tab[t].user}
    /\ ThroughAuth0(t, u)
addAccount(t) == "switch" \in plot.what /\ tab[t].auth = "in" /\ \E u \in plot.users : ThroughAuth0(t, u)
signOut(t) == "switch" \in plot.what /\ tab[t].auth = "in" /\ ThroughAuth0(t, NoUser)
removeAccount(t, u) ==
    /\ "switch" \in plot.what /\ tab[t].auth = "in" /\ u \in remembered \ {tab[t].user}
    /\ remembered' = remembered \ {u}
    /\ UNCHANGED <<serverVars, cookie, stash, tab, req, plot, historyVars>>

(* useAuth0 settles.  An account that signs in is remembered, once; with none
   useSession has nothing to wait for.                                     *)
AuthSettles(t) ==
    /\ t \in plot.tabs /\ tab[t].auth = "pending"
    /\ IF cookie = NoUser
       THEN /\ SetTab(t, [tab[t] EXCEPT !.auth = "out", !.loading = FALSE, !.session = NoSession])
            /\ UNCHANGED remembered
       ELSE /\ SetTab(t, [tab[t] EXCEPT !.auth = "in", !.user = cookie])
            /\ remembered' = remembered \cup {cookie}
    /\ UNCHANGED <<serverVars, cookie, stash, req, plot, historyVars>>

Follow(t, p) ==
    /\ tab[t].auth \in {"in", "out"} /\ tab[t].page # p
    /\ p \in Protected => tab[t].auth = "in"              \* navLinks
    /\ SetTab(t, [tab[t] EXCEPT !.page = p, !.view = "none", !.lists = {}])
    /\ req' = Cancel(req, t)
    /\ UNCHANGED <<serverVars, browserVars, plot, historyVars>>

-----------------------------------------------------------------------------
(* A request in a slot: what was asked, by whom, and the answer. *)
NewTask(k, t, x) ==
    [kind |-> k, tab |-> t, user |-> tab[t].user, about |-> x, st |-> "sent", ok |-> FALSE,
     session |-> NoSession, found |-> {}]
Ask(s, k, t, x) == req[s] = NoTask /\ req' = [req EXCEPT ![s] = NewTask(k, t, x)]
OnlyTab == UNCHANGED <<serverVars, browserVars, plot, historyVars>>

(* fetchSession, once per document *)
fetchSession(s, t) ==
    /\ tab[t].auth = "in" /\ ~tab[t].called
    /\ Ask(s, "session", t, NoVid)
    /\ SetTab(t, [tab[t] EXCEPT !.called = TRUE])
    /\ OnlyTab

handleAccept(s, t) ==
    /\ "accept" \in plot.what /\ GateShown(tab[t]) /\ ~tab[t].accepting
    /\ Ask(s, "accept", t, NoVid)
    /\ SetTab(t, [tab[t] EXCEPT !.accepting = TRUE, !.gateError = FALSE])
    /\ OnlyTab

(* SavedNamesPage loads its lists when it is mounted. *)
load(s, t) ==
    /\ Open(tab[t]) /\ tab[t].page = "history" /\ tab[t].view = "none"
    /\ Ask(s, "mine", t, NoVid)
    /\ SetTab(t, [tab[t] EXCEPT !.view = "loading"])
    /\ OnlyTab

-----------------------------------------------------------------------------
(* The handlers.  A request may be lost before them or refused. *)
Asked(s, k) == req[s] # NoTask /\ req[s].kind = k /\ req[s].st = "sent"
Reply(s, r) ==
    req' = [req EXCEPT ![s] = IF @.tab = NoTab THEN NoTask ELSE [r EXCEPT !.st = "done", !.ok = TRUE]]
OnlyServer == UNCHANGED <<browserVars, tab, plot>>

Refused(s) ==
    /\ req[s] # NoTask /\ req[s].st = "sent"
    /\ req' = [req EXCEPT ![s] = IF @.tab = NoTab THEN NoTask ELSE [@ EXCEPT !.st = "done"]]
    /\ UNCHANGED <<serverVars, historyVars>> /\ OnlyServer

(* upsert_user, then merge_user_data of the linked accounts; without a row
   the answer has no acceptance.                                           *)
create_session(s) ==
    /\ Asked(s, "session")
    /\ LET u == req[s].user
           gone == {l[2] : l \in {k \in Links : k[1] = u}}
           row == IF tos[u] = -1 THEN 0 ELSE tos[u]
       IN  \/ /\ tos' = [v \in Users |-> IF v = u THEN row ELSE IF v \in gone THEN -1 ELSE tos[v]]
              /\ Reply(s, [req[s] EXCEPT !.session = [ver |-> row, cur |-> current]])
           \/ /\ Reply(s, [req[s] EXCEPT !.session = [ver |-> 0, cur |-> current]])   \* None
              /\ UNCHANGED tos
    /\ UNCHANGED <<current, owner, historyVars>> /\ OnlyServer

(* The UPDATE of no row is answered with a pair, which is a 200 too. *)
accept_tos(s) ==
    /\ Asked(s, "accept")
    /\ LET u == req[s].user IN
       IF tos[u] = -1 THEN UNCHANGED <<tos, accepted>>
       ELSE /\ tos' = [tos EXCEPT ![u] = current]
            /\ accepted' = [accepted EXCEPT ![u] = @ \cup {current}]
    /\ Reply(s, req[s])
    /\ UNCHANGED <<current, owner, captured, mishap>> /\ OnlyServer

(* Variant: the last one to claim has them. *)
ClaimedLast(v, u) == u

(* claim_anon_lists touches unclaimed rows only; when the database fails the
   answer is 0 claimed, not an error.                                      *)
Claimed(v, u) == IF owner[v] = NoUser THEN u ELSE owner[v]

claim_lists(s) ==
    /\ Asked(s, "claim")
    /\ \/ /\ owner' = [owner EXCEPT ![req[s].about] = Claimed(req[s].about, req[s].user)] /\ UNCHANGED mishap
       \/ /\ mishap' = TRUE /\ UNCHANGED owner
    /\ Reply(s, req[s])
    /\ UNCHANGED <<tos, current, accepted, captured>> /\ OnlyServer

list_mine(s) ==
    /\ Asked(s, "mine")
    /\ Reply(s, [req[s] EXCEPT !.found = {v \in Vids : owner[v] = req[s].user}])
    /\ UNCHANGED <<serverVars, historyVars>> /\ OnlyServer

(* New terms are deployed. *)
Deploy ==
    /\ "deploy" \in plot.what /\ current < LastVersion
    /\ current' = current + 1
    /\ UNCHANGED <<tos, owner, browserVars, tab, req, plot, historyVars>>

-----------------------------------------------------------------------------
(* The answers, good or lost on the way, as the tab that asked takes them. *)
Answered(s, k, t) == req[s] # NoTask /\ req[s].kind = k /\ req[s].st = "done" /\ req[s].tab = t
Good(s) == {FALSE, req[s].ok}

(* Variant: the flag is lowered by a good answer only. *)
SessionLandsWell(s, t) ==
    /\ Answered(s, "session", t)
    /\ \E good \in Good(s) :
          /\ SetTab(t, IF good THEN [tab[t] EXCEPT !.loading = FALSE, !.session = req[s].session] ELSE tab[t])
          /\ req' = [(IF tab'[t].view = "none" THEN Cancel(req, t) ELSE req) EXCEPT ![s] =
                        IF good /\ stash # NoVid THEN NewTask("claim", t, stash) ELSE NoTask]
    /\ OnlyTab

(* A session that lands sends the claim of the stashed visitor id. *)
SessionLands(s, t) ==
    /\ Answered(s, "session", t)
    /\ \E good \in Good(s) :
          /\ SetTab(t, [tab[t] EXCEPT !.loading = FALSE,
                                      !.session = IF good THEN req[s].session ELSE @])
          /\ req' = [(IF tab'[t].view = "none" THEN Cancel(req, t) ELSE req) EXCEPT ![s] =
                        IF good /\ stash # NoVid THEN NewTask("claim", t, stash) ELSE NoTask]
    /\ OnlyTab

(* onAccepted is refreshSession, and is not awaited. *)
AcceptEnds(s, t) ==
    /\ Answered(s, "accept", t)
    /\ \E good \in Good(s) :
          /\ SetTab(t, [tab[t] EXCEPT !.accepting = FALSE, !.gateError = ~good])
          /\ req' = [req EXCEPT ![s] = IF good THEN NewTask("session", t, NoVid) ELSE NoTask]
    /\ OnlyTab

(* Variant: the stash is cleared whatever came of the claim. *)
ClaimEndsAnyway(s, t) ==
    /\ Answered(s, "claim", t)
    /\ stash' = NoVid
    /\ mishap' = (mishap \/ stash \notin {NoVid, req[s].about})
    /\ req' = [req EXCEPT ![s] = NoTask]
    /\ UNCHANGED <<serverVars, cookie, remembered, tab, plot, accepted, captured>>

(* claimPending clears the stash, whatever is in it by then. *)
ClaimEnds(s, t) ==
    /\ Answered(s, "claim", t)
    /\ \E good \in Good(s) :
          /\ stash' = IF good THEN NoVid ELSE stash
          /\ mishap' = (mishap \/ (good /\ stash \notin {NoVid, req[s].about}))
    /\ req' = [req EXCEPT ![s] = NoTask]
    /\ UNCHANGED <<serverVars, cookie, remembered, tab, plot, accepted, captured>>

MineEnds(s, t) ==
    /\ Answered(s, "mine", t)
    /\ \E good \in Good(s) :
          SetTab(t, [tab[t] EXCEPT !.view = IF good THEN "lists" ELSE "error", !.lists = req[s].found])
    /\ req' = [req EXCEPT ![s] = NoTask]
    /\ OnlyTab

-----------------------------------------------------------------------------
(* Accounts that nobody asks to accept the terms have done so before. *)
Init ==
    /\ plot \in Plots
    /\ tos = [u \in Users |-> IF "accept" \in plot.what THEN -1 ELSE 1]
    /\ accepted = [u \in Users |-> IF "accept" \in plot.what THEN {} ELSE {1}]
    /\ current = 1 /\ owner = [v \in Vids |-> NoUser]
    /\ cookie = NoUser /\ stash = NoVid /\ remembered = {}
    /\ tab = [t \in Tabs |-> Fresh("usage")]
    /\ req = [s \in Slots |-> NoTask]
    /\ captured = {} /\ mishap = FALSE

Serve(s) == Refused(s) \/ create_session(s) \/ accept_tos(s) \/ claim_lists(s) \/ list_mine(s)
Take(s) == \E t \in Tabs : SessionLands(s, t) \/ AcceptEnds(s, t) \/ ClaimEnds(s, t) \/ MineEnds(s, t)

Visit(t) ==
    \/ Reload(t) \/ LoginReturns(t) \/ TryAgain(t) \/ addAccount(t) \/ signOut(t)
    \/ \E v \in plot.vids : ArriveWith(t, v)
    \/ \E u \in plot.users : switchAccount(t, u) \/ removeAccount(t, u)
    \/ \E p \in plot.pages : Follow(t, p)

Next ==
    \/ Deploy
    \/ \E t \in plot.tabs : Visit(t) \/ AuthSettles(t)
    \/ \E s \in Slots : Serve(s) \/ Take(s)
    \/ \E s \in Slots, t \in Tabs : fetchSession(s, t) \/ handleAccept(s, t) \/ load(s, t)

(* Requests are served and answered, Auth0 settles, and a document that was
   not asked again gets to ask for its session.                            *)
Fairness ==
    /\ \A s \in Slots : WF_vars(Serve(s)) /\ WF_vars(Take(s))
    /\ \A t \in Tabs : WF_vars(AuthSettles(t)) /\ SF_vars(\E s \in Slots : fetchSession(s, t))

-----------------------------------------------------------------------------
(* The stores of the API and of the browser hold what their readers expect,
   and a tab is of an account or of nobody.                                *)
TypeOK ==
    /\ tos \in [Users -> -1 .. LastVersion] /\ current \in Versions
    /\ owner \in [Vids -> Users \cup {NoUser}]
    /\ cookie \in Users \cup {NoUser} /\ stash \in Vids \cup {NoVid}
    /\ remembered \subseteq Users
    /\ \A t \in Tabs : tab[t].page \in Pages /\ tab[t].user \in Users \cup {NoUser}

(* A page that needs the terms is shown only to an account that has accepted
   the version its session named, whatever failed, was late or was merged.  *)
GateIsHonest == \A t \in Tabs : Open(tab[t]) => tab[t].session.cur \in accepted[tab[t].user]

(* A visitor's work is not lost: an id that came with a link stays in the
   browser until its lists have an owner, through lost answers, two tabs and
   two accounts; but a second id, or a database that fails, may lose it.    *)
NoVidLost == ~mishap => \A v \in captured : stash = v \/ owner[v] # NoUser

(* The history page never shows an account a list of another. *)
ShownIsMine ==
    \A t \in Tabs : tab[t].page = "history" => \A v \in tab[t].lists : owner[v] = tab[t].user

(* The spinner in front of a page ends, unless it is loaded again and again. *)
SpinnerEnds ==
    \A t \in Tabs : <>[](t \in plot.tabs /\ Spins(tab[t])) => []<><<tab'[t] = Fresh(tab'[t].page)>>_vars
=============================================================================
