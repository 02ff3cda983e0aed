----------------------------- MODULE PortalProofs -----------------------------
(* Proofs about StarredPage and the PortalSession it extends: the gate, the
   visitor's work, the owner of what is shown and the stars, for any number of tabs,
   accounts, links, visitor ids, requests, versions and domains.            *)
EXTENDS StarredPage, TLAPS

Shown == Vids \cup Domains
SessionRec == [ver : Int, cur : Int]
TabRec ==
    [auth : {"pending", "in", "out", "error"}, user : Users \cup {NoUser}, page : Pages,
     called : BOOLEAN, loading : BOOLEAN, session : SessionRec, accepting : BOOLEAN,
     gateError : BOOLEAN, view : {"none", "loading", "lists", "error"}, lists : SUBSET Shown]
TaskRec ==
    [kind : Kinds, tab : Tabs \cup {NoTab}, user : Users,
     about : Vids \cup Domains \cup {NoVid, "all"}, st : {"sent", "done"}, ok : BOOLEAN,
     session : SessionRec, found : SUBSET Shown]

(* A session that would open the gate names a version that was accepted. *)
Honest(n, ac, u) == n.ver # 0 /\ n.ver = n.cur => n.cur \in ac[u]

(* Lists of an account are shown, or on their way, to that account only. *)
OwnLists(ls, ow, u) == \A v \in ls : v \in Vids /\ ow[v] = u

TabFine(r, ac, ow) ==
    /\ r \in TabRec
    /\ r.auth = "in" => r.user \in Users
    /\ r.auth # "in" => r.session = NoSession /\ r.lists = {}
    /\ r.session.ver # 0 => r.auth = "in"
    /\ Honest(r.session, ac, r.user)
    /\ r.page = "history" => OwnLists(r.lists, ow, r.user)

(* A request that a tab waits for is of the account and the page it shows. *)
Belongs(r, p) ==
    /\ p.auth = "in" /\ p.user = r.user
    /\ r.kind = "mine" => p.page = "history"
    /\ r.kind \in {"stars", "toggle"} => p.page = "starred"

ReqFine(r, tb, ac, ow, mi) ==
    r # NoTask =>
        /\ r \in TaskRec
        /\ r.tab \in Tabs => Belongs(r, tb[r.tab])
        /\ Honest(r.session, ac, r.user)
        /\ r.kind = "claim" => r.about \in Vids /\ (r.ok /\ ~mi => ow[r.about] # NoUser)
        /\ r.kind = "mine" => OwnLists(r.found, ow, r.user)
        /\ r.kind = "toggle" => r.about \in Domains

Stores ==
    /\ tos \in [Users -> Int] /\ current \in Versions
    /\ owner \in [Vids -> Users \cup {NoUser}]
    /\ cookie \in Users \cup {NoUser} /\ stash \in Vids \cup {NoVid} /\ remembered \subseteq Users
    /\ accepted \in [Users -> SUBSET Versions] /\ captured \subseteq Vids
    /\ starred \in [Users -> SUBSET Domains]
    /\ plot \in Plots /\ mishap \in BOOLEAN
    /\ \A u \in Users : tos[u] \in {-1, 0} \cup accepted[u]
TabsFine == tab \in [Tabs -> TabRec] /\ \A t \in Tabs : TabFine(tab[t], accepted, owner)
ReqsFine ==
    /\ req \in [Slots -> TaskRec \cup {NoTask}]
    /\ \A s \in Slots : ReqFine(req[s], tab, accepted, owner, mishap)

PortalInv == Stores /\ TabsFine /\ ReqsFine /\ NoVidLost

-----------------------------------------------------------------------------
LEMMA VersionsInt == Versions \subseteq Int /\ 1 \in Versions
  BY SessionAssumption DEF Versions

(* What is fine stays so when accounts accept more and lists find owners. *)
LEMMA TabFineGrows ==
    ASSUME NEW r, NEW ac \in [Users -> SUBSET Versions], NEW ac2 \in [Users -> SUBSET Versions], NEW ow, NEW ow2,
           TabFine(r, ac, ow), \A u \in Users : ac[u] \subseteq ac2[u],
           \A v \in Vids : ow[v] # NoUser => ow2[v] = ow[v]
    PROVE  TabFine(r, ac2, ow2)
<1>1. CASE r.auth = "in"
  <2>1. r.user \in Users /\ r.user # NoUser
    BY <1>1, SessionAssumption DEF TabFine
  <2>2. Honest(r.session, ac2, r.user)
    BY <2>1 DEF TabFine, Honest
  <2>3. r.page = "history" => OwnLists(r.lists, ow2, r.user)
    BY <2>1 DEF TabFine, OwnLists
  <2>4. QED
    BY <1>1, <2>1, <2>2, <2>3 DEF TabFine
<1>2. CASE r.auth # "in"
  BY <1>2 DEF TabFine, Honest, OwnLists, NoSession
<1>3. QED
  BY <1>1, <1>2

LEMMA ReqFineMoves ==
    ASSUME NEW r, NEW tb, NEW tb2, NEW ac \in [Users -> SUBSET Versions], NEW ac2 \in [Users -> SUBSET Versions],
           NEW ow, NEW ow2, NEW mi \in BOOLEAN, NEW mi2 \in BOOLEAN,
           ReqFine(r, tb, ac, ow, mi), \A u \in Users : ac[u] \subseteq ac2[u],
           \A v \in Vids : ow[v] # NoUser => ow2[v] = ow[v],
           mi => mi2,
           r # NoTask /\ r.tab \in Tabs /\ Belongs(r, tb[r.tab]) => Belongs(r, tb2[r.tab])
    PROVE  ReqFine(r, tb2, ac2, ow2, mi2)
<1> SUFFICES ASSUME r # NoTask PROVE ReqFine(r, tb2, ac2, ow2, mi2)
  BY DEF ReqFine
<1>1. r \in TaskRec /\ r.user \in Users /\ r.user # NoUser
  BY SessionAssumption DEF ReqFine, TaskRec
<1>2. Honest(r.session, ac2, r.user)
  BY <1>1 DEF ReqFine, Honest
<1>3. r.kind = "mine" => OwnLists(r.found, ow2, r.user)
  BY <1>1 DEF ReqFine, OwnLists
<1>4. r.kind = "claim" => r.about \in Vids /\ (r.ok /\ ~mi2 => ow2[r.about] # NoUser)
  BY DEF ReqFine
<1>5. r.tab \in Tabs => Belongs(r, tb2[r.tab])
  BY DEF ReqFine
<1>6. QED
  BY <1>1, <1>2, <1>3, <1>4, <1>5 DEF ReqFine

(* What the gate hides is reset, and nothing else of a tab. *)
LEMMA DrawnFine ==
    ASSUME NEW r, NEW ac, NEW ow, TabFine(r, ac, ow)
    PROVE  /\ TabFine(Drawn(r), ac, ow)
           /\ Drawn(r).auth = r.auth /\ Drawn(r).user = r.user /\ Drawn(r).page = r.page
<1>1. Drawn(r) = r \/ Drawn(r) = [r EXCEPT !.view = "none", !.lists = {}]
  BY DEF Drawn
<1>2. CASE Drawn(r) = [r EXCEPT !.view = "none", !.lists = {}]
  BY <1>2 DEF TabFine, TabRec, OwnLists, Shown
<1>3. QED
  BY <1>1, <1>2

(* A step of a tab that stays who and where it is. *)
LEMMA TabStep ==
    ASSUME PortalInv, NEW t \in Tabs, NEW r, TabFine(r, accepted, owner),
           r.auth = tab[t].auth, r.user = tab[t].user, r.page = tab[t].page,
           SetTab(t, r), UNCHANGED <<accepted, owner, mishap>>
    PROVE  /\ TabsFine'
           /\ \A s \in Slots : ReqFine(req[s], tab', accepted', owner', mishap')
           /\ \A x \in Tabs : tab'[x].auth = tab[x].auth /\ tab'[x].user = tab[x].user /\ tab'[x].page = tab[x].page
<1>1. tab' = [tab EXCEPT ![t] = Drawn(r)] /\ tab \in [Tabs -> TabRec]
  BY DEF SetTab, PortalInv, TabsFine
<1>2. TabFine(Drawn(r), accepted, owner) /\ Drawn(r).auth = tab[t].auth
        /\ Drawn(r).user = tab[t].user /\ Drawn(r).page = tab[t].page
  BY DrawnFine
<1>3. Drawn(r) \in TabRec
  BY <1>2 DEF TabFine
<1>4. TabsFine'
  BY <1>1, <1>2, <1>3 DEF PortalInv, TabsFine
<1>5. \A x \in Tabs : tab'[x].auth = tab[x].auth /\ tab'[x].user = tab[x].user /\ tab'[x].page = tab[x].page
  BY <1>1, <1>2
<1>6. ASSUME NEW s \in Slots PROVE ReqFine(req[s], tab', accepted', owner', mishap')
  <2>1. ReqFine(req[s], tab, accepted, owner, mishap)
    BY DEF PortalInv, ReqsFine
  <2>2. QED
    BY <2>1, <1>5 DEF ReqFine, Belongs
<1>7. QED
  BY <1>4, <1>5, <1>6

(* Requests a tab gives up, as it becomes p2: those it may no longer take. *)
LEMMA AbandonFine ==
    ASSUME PortalInv, NEW t \in Tabs, NEW kinds, NEW tb2, NEW mi2 \in BOOLEAN, mishap => mi2,
           \A x \in Tabs \ {t} : tb2[x] = tab[x],
           \A r \in TaskRec : r.tab = t /\ r.kind \notin kinds /\ Belongs(r, tab[t]) => Belongs(r, tb2[t])
    PROVE  /\ Abandon(req, t, kinds) \in [Slots -> TaskRec \cup {NoTask}]
           /\ \A s \in Slots : ReqFine(Abandon(req, t, kinds)[s], tb2, accepted, owner, mi2)
<1> DEFINE q == Abandon(req, t, kinds)
<1>0. DOMAIN q = Slots /\ q = [s \in Slots |-> q[s]]
  BY DEF Abandon
<1>1. ASSUME NEW s \in Slots
      PROVE  q[s] \in TaskRec \cup {NoTask} /\ ReqFine(q[s], tb2, accepted, owner, mi2)
  <2>1. req[s] \in TaskRec \cup {NoTask} /\ ReqFine(req[s], tab, accepted, owner, mishap)
    BY DEF PortalInv, ReqsFine
  <2>2. CASE req[s] = NoTask
    <3>1. q[s] = NoTask
      BY <2>2 DEF Abandon
    <3>2. QED
      BY <3>1 DEF ReqFine
  <2>3. CASE req[s] # NoTask /\ (req[s].tab # t \/ req[s].kind \notin kinds)
    <3>1. q[s] = req[s]
      BY <2>3 DEF Abandon
    <3>2. req[s].tab \in Tabs /\ Belongs(req[s], tab[req[s].tab]) => Belongs(req[s], tb2[req[s].tab])
      BY <2>1, <2>3
    <3>3. ReqFine(req[s], tb2, accepted, owner, mi2)
      BY <2>1, <3>2 DEF ReqFine
    <3>4. QED
      BY <2>1, <3>1, <3>3
  <2>4. CASE req[s] # NoTask /\ req[s].tab = t /\ req[s].kind \in kinds
    <3>1. q[s] = NoTask \/ q[s] = [req[s] EXCEPT !.tab = NoTab]
      BY <2>4 DEF Abandon
    <3>2. CASE q[s] = NoTask
      BY <3>2 DEF ReqFine
    <3>3. CASE q[s] = [req[s] EXCEPT !.tab = NoTab]
      <4>1. req[s] \in TaskRec
        BY <2>1, <2>4
      <4>2. /\ q[s] \in TaskRec /\ q[s].tab = NoTab /\ q[s].kind = req[s].kind /\ q[s].user = req[s].user
            /\ q[s].session = req[s].session /\ q[s].about = req[s].about /\ q[s].ok = req[s].ok
            /\ q[s].found = req[s].found
        BY <3>3, <4>1 DEF TaskRec
      <4>3. QED
        BY <2>1, <2>4, <4>2, SessionAssumption DEF ReqFine
    <3>4. QED
      BY <3>1, <3>2, <3>3
  <2>5. QED
    BY <2>2, <2>3, <2>4
<1>2. QED
  BY <1>0, <1>1

LEMMA FreshFine ==
    ASSUME NEW p \in Pages, NEW ac, NEW ow, NEW a \in {"pending", "error"}
    PROVE  TabFine([Fresh(p) EXCEPT !.auth = a], ac, ow) /\ TabFine(Fresh(p), ac, ow)
<1>1. Fresh(p) \in TabRec /\ Fresh(p).session = NoSession /\ Fresh(p).lists = {}
        /\ Fresh(p).auth = "pending" /\ NoSession.ver = 0
  BY DEF TabRec, Fresh, NoSession, SessionRec
<1> DEFINE r == [Fresh(p) EXCEPT !.auth = a]
<1>2. r \in TabRec /\ r.session = NoSession /\ r.lists = {} /\ r.auth = a
  BY <1>1 DEF TabRec
<1> HIDE DEF r
<1>3. TabFine(r, ac, ow)
  BY <1>1, <1>2 DEF TabFine, Honest, OwnLists
<1>4. TabFine(Fresh(p), ac, ow)
  BY <1>1 DEF TabFine, Honest, OwnLists
<1>5. QED
  BY <1>3, <1>4 DEF r

(* A document that is loaded waits for nothing. *)
LEMMA NewDocument ==
    ASSUME PortalInv, NEW t \in Tabs, NEW r, TabFine(r, accepted, owner),
           tab' = [tab EXCEPT ![t] = r], req' = Orphan(req, t),
           UNCHANGED <<accepted, owner>>, mishap' \in BOOLEAN, mishap => mishap'
    PROVE  TabsFine' /\ ReqsFine'
<1>1. r \in TabRec /\ tab \in [Tabs -> TabRec]
  BY DEF TabFine, PortalInv, TabsFine
<1>2. TabsFine'
  BY <1>1 DEF PortalInv, TabsFine
<1>3. \A x \in TaskRec : x.kind \in Kinds
  BY DEF TaskRec
<1>4. \A x \in Tabs \ {t} : tab'[x] = tab[x]
  BY <1>1
<1>5. /\ req' \in [Slots -> TaskRec \cup {NoTask}]
      /\ \A s \in Slots : ReqFine(req'[s], tab', accepted, owner, mishap')
  BY <1>3, <1>4, AbandonFine DEF Orphan
<1>6. QED
  BY <1>2, <1>5 DEF ReqsFine

LEMMA PlotTypes ==
    ASSUME PortalInv
    PROVE  /\ plot.tabs \subseteq Tabs /\ plot.users \subseteq Users
           /\ plot.vids \subseteq Vids /\ plot.pages \subseteq Pages
  BY SessionAssumption DEF PortalInv, Stores

LEMMA LoadKeeps ==
    ASSUME PortalInv, NEW t \in Tabs, NEW p \in Pages, NEW v \in Vids \cup {NoVid},
           Load(t, p, v), cookie' \in Users \cup {NoUser}, UNCHANGED starred
    PROVE  PortalInv'
<1>1. Stores'
  BY DEF Load, PortalInv, Stores, serverVars
<1>2. TabFine(Fresh(p), accepted, owner)
  BY FreshFine
<1>3. tab' = [tab EXCEPT ![t] = Fresh(p)] /\ req' = Orphan(req, t) /\ UNCHANGED <<accepted, owner>>
  BY DEF Load, serverVars
<1>4. mishap' \in BOOLEAN /\ (mishap => mishap')
  BY <1>1 DEF Load, Stores
<1>5. TabsFine' /\ ReqsFine'
  BY <1>2, <1>3, <1>4, NewDocument
<1>6. NoVidLost'
  <2>1. /\ stash' = (IF v = NoVid THEN stash ELSE v) /\ captured' = captured \cup ({v} \ {NoVid})
        /\ (~mishap' => ~mishap /\ (v = NoVid \/ stash \in {v, NoVid})) /\ owner' = owner
    BY DEF Load, serverVars
  <2>2. captured \subseteq Vids /\ (~mishap => \A w \in captured : stash = w \/ owner[w] # NoUser)
    BY DEF PortalInv, Stores, NoVidLost
  <2>3. QED
    BY <2>1, <2>2, SessionAssumption DEF NoVidLost
<1>7. QED
  BY <1>1, <1>5, <1>6 DEF PortalInv

-----------------------------------------------------------------------------
(* What a visitor does with the browser. *)
LEMMA LoginErrorKeeps ==
    ASSUME PortalInv, NEW t \in Tabs, UNCHANGED starred,
           tab' = [tab EXCEPT ![t] = [Fresh("usage") EXCEPT !.auth = "error"]],
           req' = Orphan(req, t), UNCHANGED <<serverVars, browserVars, plot, historyVars>>
    PROVE  PortalInv'
<1>1. TabFine([Fresh("usage") EXCEPT !.auth = "error"], accepted, owner)
  BY FreshFine DEF Pages
<1>2. mishap \in BOOLEAN
  BY DEF PortalInv, Stores
<1>3. TabsFine' /\ ReqsFine'
  BY <1>1, <1>2, NewDocument DEF serverVars, historyVars
<1>4. Stores' /\ NoVidLost'
  BY DEF PortalInv, Stores, NoVidLost, serverVars, browserVars, historyVars
<1>5. QED
  BY <1>3, <1>4 DEF PortalInv

LEMMA FollowKeeps ==
    ASSUME PortalInv, NEW t \in Tabs, NEW p \in Pages, Follow(t, p), UNCHANGED starred
    PROVE  PortalInv'
<1> DEFINE r == [tab[t] EXCEPT !.page = p, !.view = "none", !.lists = {}]
<1>1. tab \in [Tabs -> TabRec] /\ TabFine(tab[t], accepted, owner)
  BY DEF PortalInv, TabsFine
<1>2. r \in TabRec /\ r.auth = tab[t].auth /\ r.user = tab[t].user /\ r.lists = {}
        /\ r.session = tab[t].session /\ r.page = p
  BY <1>1 DEF TabRec
<1> HIDE DEF r
<1>3. TabFine(r, accepted, owner)
  BY <1>1, <1>2 DEF TabFine, OwnLists
<1>4. /\ TabFine(Drawn(r), accepted, owner) /\ Drawn(r).auth = tab[t].auth
      /\ Drawn(r).user = tab[t].user /\ tab' = [tab EXCEPT ![t] = Drawn(r)]
      /\ req' = Cancel(req, t) /\ UNCHANGED <<serverVars, browserVars, plot, historyVars>>
  BY <1>2, <1>3, DrawnFine DEF Follow, SetTab, r
<1>5. Drawn(r) \in TabRec
  BY <1>4 DEF TabFine
<1>6. TabsFine'
  BY <1>1, <1>4, <1>5 DEF PortalInv, TabsFine, serverVars, historyVars
<1>7. \A x \in Tabs \ {t} : tab'[x] = tab[x]
  BY <1>1, <1>4
<1>8. ASSUME NEW x \in TaskRec, x.kind \notin {"mine", "stars", "toggle"}, Belongs(x, tab[t])
      PROVE  Belongs(x, tab'[t])
  BY <1>1, <1>4, <1>8 DEF Belongs
<1>9. mishap \in BOOLEAN
  BY DEF PortalInv, Stores
<1>10. /\ req' \in [Slots -> TaskRec \cup {NoTask}]
       /\ \A s \in Slots : ReqFine(req'[s], tab', accepted, owner, mishap)
  BY <1>4, <1>7, <1>8, <1>9, AbandonFine DEF Cancel
<1>11. ReqsFine'
  BY <1>4, <1>10 DEF ReqsFine, serverVars, historyVars
<1>12. Stores' /\ NoVidLost'
  BY <1>4 DEF PortalInv, Stores, NoVidLost, serverVars, browserVars, historyVars
<1>13. QED
  BY <1>6, <1>11, <1>12 DEF PortalInv

LEMMA VisitKeeps ==
    ASSUME PortalInv, NEW t \in Tabs, Visit(t), UNCHANGED starred
    PROVE  PortalInv'
<1>0. /\ tab[t] \in TabRec /\ "usage" \in Pages /\ tab[t].page \in Pages
      /\ cookie \in Users \cup {NoUser}
  BY DEF PortalInv, TabsFine, Stores, TabRec, Pages
<1>1. CASE Reload(t)
  BY <1>0, <1>1, LoadKeeps DEF Reload
<1>2. CASE LoginReturns(t)
  <2>1. CASE \E u \in plot.users : ThroughAuth0(t, u)
    BY <1>0, <2>1, LoadKeeps, PlotTypes DEF ThroughAuth0
  <2>2. QED
    BY <1>2, <2>1, LoginErrorKeeps DEF LoginReturns
<1>3. CASE TryAgain(t)
  BY <1>0, <1>3, LoadKeeps DEF TryAgain
<1>4. CASE addAccount(t)
  BY <1>0, <1>4, LoadKeeps, PlotTypes DEF addAccount, ThroughAuth0
<1>5. CASE signOut(t)
  BY <1>0, <1>5, LoadKeeps DEF signOut, ThroughAuth0
<1>6. ASSUME NEW v \in plot.vids, ArriveWith(t, v) PROVE PortalInv'
  BY <1>0, <1>6, LoadKeeps, PlotTypes DEF ArriveWith
<1>7. ASSUME NEW u \in plot.users, switchAccount(t, u) PROVE PortalInv'
  BY <1>0, <1>7, LoadKeeps, PlotTypes DEF switchAccount, ThroughAuth0
<1>8. ASSUME NEW u \in plot.users, removeAccount(t, u) PROVE PortalInv'
  BY <1>8 DEF removeAccount, PortalInv, Stores, TabsFine, ReqsFine, NoVidLost, serverVars, historyVars
<1>9. ASSUME NEW p \in plot.pages, Follow(t, p) PROVE PortalInv'
  BY <1>9, FollowKeeps, PlotTypes
<1>10. QED
  BY <1>1, <1>2, <1>3, <1>4, <1>5, <1>6, <1>7, <1>8, <1>9 DEF Visit

-----------------------------------------------------------------------------
(* What a tab asks. *)
LEMMA NewTaskFine ==
    ASSUME PortalInv, NEW t \in Tabs, tab[t].auth = "in", NEW k \in Kinds,
           NEW x \in Vids \cup Domains \cup {NoVid, "all"},
           k = "mine" => tab[t].page = "history",
           k \in {"stars", "toggle"} => tab[t].page = "starred",
           k = "claim" => x \in Vids, k = "toggle" => x \in Domains
    PROVE  /\ NewTask(k, t, x) \in TaskRec
           /\ ReqFine(NewTask(k, t, x), tab, accepted, owner, mishap)
<1> DEFINE r == NewTask(k, t, x)
<1>1. tab[t].user \in Users
  BY DEF PortalInv, TabsFine, TabFine
<1>2. /\ r \in TaskRec /\ r.kind = k /\ r.tab = t /\ r.user = tab[t].user /\ r.about = x
      /\ r.ok = FALSE /\ r.session = NoSession /\ r.found = {} /\ NoSession.ver = 0
  BY <1>1 DEF NewTask, TaskRec, NoSession, SessionRec, Shown
<1> HIDE DEF r
<1>3. ReqFine(r, tab, accepted, owner, mishap)
  BY <1>2 DEF ReqFine, Belongs, Honest, OwnLists
<1>4. QED
  BY <1>2, <1>3 DEF r

LEMMA TaskStep ==
    ASSUME PortalInv, NEW t \in Tabs, NEW r, TabFine(r, accepted, owner),
           r.auth = tab[t].auth, r.user = tab[t].user, r.page = tab[t].page, SetTab(t, r),
           NEW s \in Slots, NEW x \in TaskRec \cup {NoTask},
           ReqFine(x, tab, accepted, owner, mishap), req' = [req EXCEPT ![s] = x],
           UNCHANGED <<serverVars, browserVars, plot, historyVars, starred>>
    PROVE  PortalInv'
<1>1. UNCHANGED <<accepted, owner, mishap>>
  BY DEF serverVars, historyVars
<1>2. /\ TabsFine'
      /\ \A z \in Slots : ReqFine(req[z], tab', accepted', owner', mishap')
      /\ \A y \in Tabs : tab'[y].auth = tab[y].auth /\ tab'[y].user = tab[y].user /\ tab'[y].page = tab[y].page
  BY <1>1, TabStep
<1>3. ReqFine(x, tab', accepted', owner', mishap')
  BY <1>1, <1>2 DEF ReqFine, Belongs
<1>4. req \in [Slots -> TaskRec \cup {NoTask}]
  BY DEF PortalInv, ReqsFine
<1>5. ReqsFine'
  BY <1>2, <1>3, <1>4 DEF ReqsFine
<1>6. Stores' /\ NoVidLost'
  BY DEF PortalInv, Stores, NoVidLost, serverVars, browserVars, historyVars
<1>7. QED
  BY <1>2, <1>5, <1>6 DEF PortalInv

LEMMA NoTaskFine ==
    ASSUME NEW tb, NEW ac, NEW ow, NEW mi
    PROVE  ReqFine(NoTask, tb, ac, ow, mi)
  BY DEF ReqFine

LEMMA AskKeeps ==
    ASSUME PortalInv, NEW t \in Tabs, NEW s \in Slots,
           fetchSession(s, t) \/ handleAccept(s, t) \/ load(s, t) \/ mount(s, t),
           UNCHANGED starred
    PROVE  PortalInv'
<1>0. tab[t] \in TabRec /\ TabFine(tab[t], accepted, owner)
  BY DEF PortalInv, TabsFine
<1>1. CASE fetchSession(s, t)
  <2> DEFINE r == [tab[t] EXCEPT !.called = TRUE]
  <2>1. /\ r \in TabRec /\ r.auth = tab[t].auth /\ r.user = tab[t].user /\ r.page = tab[t].page
        /\ r.session = tab[t].session /\ r.lists = tab[t].lists
    BY <1>0 DEF TabRec
  <2>2. SetTab(t, r) /\ req' = [req EXCEPT ![s] = NewTask("session", t, NoVid)] /\ tab[t].auth = "in"
    BY <1>1 DEF fetchSession, Ask
  <2> HIDE DEF r
  <2>3. TabFine(r, accepted, owner)
    BY <1>0, <2>1 DEF TabFine
  <2>4. NewTask("session", t, NoVid) \in TaskRec /\ ReqFine(NewTask("session", t, NoVid), tab, accepted, owner, mishap)
    BY <2>2, NewTaskFine DEF Kinds
  <2>5. QED
    BY <1>1, <2>1, <2>2, <2>3, <2>4, TaskStep DEF fetchSession, OnlyTab
<1>2. CASE handleAccept(s, t)
  <2> DEFINE r == [tab[t] EXCEPT !.accepting = TRUE, !.gateError = FALSE]
  <2>1. /\ r \in TabRec /\ r.auth = tab[t].auth /\ r.user = tab[t].user /\ r.page = tab[t].page
        /\ r.session = tab[t].session /\ r.lists = tab[t].lists
    BY <1>0 DEF TabRec
  <2>2. SetTab(t, r) /\ req' = [req EXCEPT ![s] = NewTask("accept", t, NoVid)] /\ tab[t].auth = "in"
    BY <1>2 DEF handleAccept, Ask, GateShown
  <2> HIDE DEF r
  <2>3. TabFine(r, accepted, owner)
    BY <1>0, <2>1 DEF TabFine
  <2>4. NewTask("accept", t, NoVid) \in TaskRec /\ ReqFine(NewTask("accept", t, NoVid), tab, accepted, owner, mishap)
    BY <2>2, NewTaskFine DEF Kinds
  <2>5. QED
    BY <1>2, <2>1, <2>2, <2>3, <2>4, TaskStep DEF handleAccept, OnlyTab
<1>3. ASSUME load(s, t) \/ mount(s, t) PROVE PortalInv'
  <2> DEFINE r == [tab[t] EXCEPT !.view = "loading"]
  <2>1. /\ r \in TabRec /\ r.auth = tab[t].auth /\ r.user = tab[t].user /\ r.page = tab[t].page
        /\ r.session = tab[t].session /\ r.lists = tab[t].lists
    BY <1>0 DEF TabRec
  <2>2. PICK k \in {"mine", "stars"}, x \in {NoVid, "all"} :
           /\ SetTab(t, r) /\ req' = [req EXCEPT ![s] = NewTask(k, t, x)] /\ tab[t].auth = "in"
           /\ k = "mine" => tab[t].page = "history"
           /\ k = "stars" => tab[t].page = "starred"
    BY <1>3 DEF load, mount, Ask, Open, OnStarred
  <2> HIDE DEF r
  <2>3. TabFine(r, accepted, owner)
    BY <1>0, <2>1 DEF TabFine
  <2>4. NewTask(k, t, x) \in TaskRec /\ ReqFine(NewTask(k, t, x), tab, accepted, owner, mishap)
    BY <2>2, NewTaskFine DEF Kinds
  <2>5. UNCHANGED <<serverVars, browserVars, plot, historyVars>>
    BY <1>3 DEF load, mount, OnlyTab, StarOnly
  <2>6. QED
    BY <2>1, <2>2, <2>3, <2>4, <2>5, TaskStep
<1>4. QED
  BY <1>1, <1>2, <1>3

-----------------------------------------------------------------------------
(* What the API answers. *)
LEMMA ServerStep ==
    ASSUME PortalInv, NEW s \in Slots, NEW x \in TaskRec \cup {NoTask},
           accepted' \in [Users -> SUBSET Versions], mishap' \in BOOLEAN,
           \A u \in Users : accepted[u] \subseteq accepted'[u],
           \A v \in Vids : owner[v] # NoUser => owner'[v] = owner[v],
           mishap => mishap', UNCHANGED tab,
           req' = [req EXCEPT ![s] = x], ReqFine(x, tab, accepted', owner', mishap')
    PROVE  TabsFine' /\ ReqsFine'
<1>1. /\ accepted \in [Users -> SUBSET Versions] /\ mishap \in BOOLEAN
      /\ req \in [Slots -> TaskRec \cup {NoTask}]
  BY DEF PortalInv, Stores, ReqsFine
<1>2. ASSUME NEW t \in Tabs PROVE TabFine(tab[t], accepted', owner')
  <2>1. TabFine(tab[t], accepted, owner)
    BY DEF PortalInv, TabsFine
  <2>2. QED
    BY <2>1, <1>1, TabFineGrows
<1>3. ASSUME NEW z \in Slots PROVE ReqFine(req[z], tab, accepted', owner', mishap')
  <2>1. ReqFine(req[z], tab, accepted, owner, mishap)
    BY DEF PortalInv, ReqsFine
  <2>2. QED
    <3> SUFFICES ASSUME req[z] # NoTask PROVE ReqFine(req[z], tab, accepted', owner', mishap')
      BY DEF ReqFine
    <3>1. req[z] \in TaskRec /\ req[z].user \in Users /\ req[z].user # NoUser
      BY <2>1, SessionAssumption DEF ReqFine, TaskRec
    <3>2. QED
      BY <2>1, <3>1 DEF ReqFine, Honest, OwnLists
<1>4. TabsFine'
  BY <1>2 DEF PortalInv, TabsFine
<1>5. ReqsFine'
  BY <1>1, <1>3 DEF ReqsFine
<1>6. QED
  BY <1>4, <1>5

Done(r) == [r EXCEPT !.st = "done", !.ok = TRUE]

LEMMA ReplyStep ==
    ASSUME PortalInv, NEW s \in Slots, NEW r, Reply(s, r),
           accepted' \in [Users -> SUBSET Versions], mishap' \in BOOLEAN,
           \A u \in Users : accepted[u] \subseteq accepted'[u],
           \A v \in Vids : owner[v] # NoUser => owner'[v] = owner[v],
           mishap => mishap', UNCHANGED tab,
           Done(r) \in TaskRec, ReqFine(Done(r), tab, accepted', owner', mishap')
    PROVE  TabsFine' /\ ReqsFine'
<1> DEFINE x == IF req[s].tab = NoTab THEN NoTask ELSE Done(r)
<1>1. req' = [req EXCEPT ![s] = x]
  BY DEF Reply, Done
<1>2. x \in TaskRec \cup {NoTask} /\ ReqFine(x, tab, accepted', owner', mishap')
  BY NoTaskFine
<1> HIDE DEF x
<1>3. QED
  BY <1>1, <1>2, ServerStep

LEMMA DoneFields ==
    ASSUME NEW r \in TaskRec
    PROVE  /\ Done(r) \in TaskRec /\ Done(r).kind = r.kind /\ Done(r).tab = r.tab
           /\ Done(r).user = r.user /\ Done(r).about = r.about /\ Done(r).ok = TRUE
           /\ Done(r).session = r.session /\ Done(r).found = r.found
<1> DEFINE d == [r EXCEPT !.st = "done"]
           e == [d EXCEPT !.ok = TRUE]
<1>1. /\ d \in TaskRec /\ d.kind = r.kind /\ d.tab = r.tab /\ d.user = r.user
      /\ d.about = r.about /\ d.session = r.session /\ d.found = r.found
  BY DEF TaskRec
<1>2. Done(r) = e
  BY DEF Done
<1> HIDE DEF d
<1>3. /\ e \in TaskRec /\ e.kind = d.kind /\ e.tab = d.tab /\ e.user = d.user
      /\ e.about = d.about /\ e.ok = TRUE /\ e.session = d.session /\ e.found = d.found
  BY <1>1 DEF TaskRec
<1> HIDE DEF e
<1>4. QED
  BY <1>1, <1>2, <1>3

LEMMA AskedFine ==
    ASSUME PortalInv, NEW s \in Slots, req[s] # NoTask
    PROVE  req[s] \in TaskRec /\ ReqFine(req[s], tab, accepted, owner, mishap) /\ req[s].user \in Users
  BY DEF PortalInv, ReqsFine, TaskRec

LEMMA RefusedKeeps ==
    ASSUME PortalInv, NEW s \in Slots, Refused(s), UNCHANGED starred
    PROVE  PortalInv'
<1> DEFINE d == [req[s] EXCEPT !.st = "done"]
           x == IF req[s].tab = NoTab THEN NoTask ELSE d
<1>1. req[s] \in TaskRec /\ ReqFine(req[s], tab, accepted, owner, mishap) /\ req[s] # NoTask
  BY AskedFine DEF Refused
<1>2. /\ d \in TaskRec /\ d.kind = req[s].kind /\ d.tab = req[s].tab /\ d.user = req[s].user
      /\ d.about = req[s].about /\ d.ok = req[s].ok /\ d.session = req[s].session /\ d.found = req[s].found
  BY <1>1 DEF TaskRec
<1>3. req' = [req EXCEPT ![s] = x] /\ UNCHANGED <<serverVars, historyVars, browserVars, tab, plot>>
  BY DEF Refused, OnlyServer
<1> HIDE DEF d
<1>4. ReqFine(d, tab, accepted, owner, mishap)
  BY <1>1, <1>2 DEF ReqFine, Belongs
<1>5. x \in TaskRec \cup {NoTask} /\ ReqFine(x, tab, accepted, owner, mishap)
  BY <1>2, <1>4, NoTaskFine
<1> HIDE DEF x
<1>6. accepted \in [Users -> SUBSET Versions] /\ mishap \in BOOLEAN
  BY DEF PortalInv, Stores
<1>7. TabsFine' /\ ReqsFine'
  BY <1>3, <1>5, <1>6, ServerStep DEF serverVars, historyVars
<1>8. Stores' /\ NoVidLost'
  BY <1>3 DEF PortalInv, Stores, NoVidLost, serverVars, browserVars, historyVars
<1>9. QED
  BY <1>7, <1>8 DEF PortalInv

LEMMA SessionKeeps ==
    ASSUME PortalInv, NEW s \in Slots, create_session(s), UNCHANGED starred
    PROVE  PortalInv'
<1>1. /\ req[s] \in TaskRec /\ ReqFine(req[s], tab, accepted, owner, mishap) /\ req[s].user \in Users
      /\ req[s].kind = "session" /\ req[s] # NoTask
  BY AskedFine DEF create_session, Asked
<1> DEFINE u == req[s].user
           row == IF tos[u] = -1 THEN 0 ELSE tos[u]
<1>2. tos \in [Users -> Int] /\ current \in Versions /\ current \in Int /\ \A v \in Users : tos[v] \in {-1, 0} \cup accepted[v]
  BY VersionsInt DEF PortalInv, Stores
<1>3. row \in Int /\ row \in {0} \cup accepted[u]
  BY <1>1, <1>2
<1>4. PICK n \in {0, row} :
         /\ Reply(s, [req[s] EXCEPT !.session = [ver |-> n, cur |-> current]])
         /\ \/ UNCHANGED tos
            \/ n = row /\ \E gone \in SUBSET Users :
                 tos' = [v \in Users |-> IF v = u THEN row ELSE IF v \in gone THEN -1 ELSE tos[v]]
  <2>1. {l[2] : l \in {k \in Links : k[1] = u}} \in SUBSET Users
    BY SessionAssumption
  <2>2. QED
    BY <2>1 DEF create_session
<1>5. UNCHANGED <<current, owner, historyVars, browserVars, tab, plot>>
  BY DEF create_session, OnlyServer
<1> DEFINE r == [req[s] EXCEPT !.session = [ver |-> n, cur |-> current]]
<1>6. /\ r \in TaskRec /\ r.kind = "session" /\ r.tab = req[s].tab /\ r.user = u
      /\ r.session = [ver |-> n, cur |-> current]
  BY <1>1, <1>2, <1>3 DEF TaskRec, SessionRec
<1>7. Honest([ver |-> n, cur |-> current], accepted, u)
  BY <1>3 DEF Honest
<1>8. Reply(s, r)
  BY <1>4
<1> HIDE DEF r
<1>9. Done(r) \in TaskRec /\ ReqFine(Done(r), tab, accepted, owner, mishap)
  <2>1. /\ Done(r) \in TaskRec /\ Done(r).kind = "session" /\ Done(r).tab = req[s].tab
        /\ Done(r).user = u /\ Done(r).session = [ver |-> n, cur |-> current]
    BY <1>6, DoneFields
  <2>2. QED
    BY <2>1, <1>1, <1>7 DEF ReqFine, Belongs
<1>10. accepted \in [Users -> SUBSET Versions] /\ mishap \in BOOLEAN
  BY DEF PortalInv, Stores
<1>11. TabsFine' /\ ReqsFine'
  BY <1>5, <1>8, <1>9, <1>10, ReplyStep DEF historyVars
<1>12. tos' \in [Users -> Int] /\ \A v \in Users : tos'[v] \in {-1, 0} \cup accepted[v]
  <2>1. CASE UNCHANGED tos
    BY <2>1, <1>2
  <2>2. ASSUME NEW gone \in SUBSET Users,
               tos' = [v \in Users |-> IF v = u THEN row ELSE IF v \in gone THEN -1 ELSE tos[v]]
        PROVE  tos' \in [Users -> Int] /\ \A v \in Users : tos'[v] \in {-1, 0} \cup accepted[v]
    BY <2>2, <1>2, <1>3
  <2>3. QED
    BY <1>4, <2>1, <2>2
<1>13. Stores' /\ NoVidLost'
  BY <1>5, <1>12 DEF PortalInv, Stores, NoVidLost, browserVars, historyVars
<1>14. QED
  BY <1>11, <1>13 DEF PortalInv

LEMMA AcceptKeeps ==
    ASSUME PortalInv, NEW s \in Slots, accept_tos(s), UNCHANGED starred
    PROVE  PortalInv'
<1>1. /\ req[s] \in TaskRec /\ ReqFine(req[s], tab, accepted, owner, mishap) /\ req[s].user \in Users
      /\ req[s].kind = "accept" /\ req[s] # NoTask
  BY AskedFine DEF accept_tos, Asked
<1>2. /\ tos \in [Users -> Int] /\ current \in Versions /\ current \in Int /\ accepted \in [Users -> SUBSET Versions]
      /\ mishap \in BOOLEAN /\ \A v \in Users : tos[v] \in {-1, 0} \cup accepted[v]
  BY VersionsInt DEF PortalInv, Stores
<1>3. /\ Reply(s, req[s]) /\ UNCHANGED <<current, owner, captured, mishap, browserVars, tab, plot>>
      /\ \/ UNCHANGED <<tos, accepted>>
         \/ /\ tos' = [tos EXCEPT ![req[s].user] = current]
            /\ accepted' = [accepted EXCEPT ![req[s].user] = @ \cup {current}]
  BY DEF accept_tos, OnlyServer
<1>4. /\ tos' \in [Users -> Int] /\ accepted' \in [Users -> SUBSET Versions]
      /\ \A v \in Users : accepted[v] \subseteq accepted'[v] /\ tos'[v] \in {-1, 0} \cup accepted'[v]
  BY <1>1, <1>2, <1>3
<1>5. Done(req[s]) \in TaskRec /\ ReqFine(Done(req[s]), tab, accepted', owner', mishap')
  <2>1. /\ Done(req[s]) \in TaskRec /\ Done(req[s]).kind = "accept" /\ Done(req[s]).tab = req[s].tab
        /\ Done(req[s]).user = req[s].user /\ Done(req[s]).session = req[s].session
    BY <1>1, DoneFields
  <2>2. Honest(req[s].session, accepted', req[s].user)
    BY <1>1, <1>4 DEF ReqFine, Honest
  <2>3. QED
    BY <2>1, <2>2, <1>1 DEF ReqFine, Belongs
<1>6. TabsFine' /\ ReqsFine'
  BY <1>2, <1>3, <1>4, <1>5, ReplyStep
<1>7. Stores' /\ NoVidLost'
  BY <1>3, <1>4 DEF PortalInv, Stores, NoVidLost, browserVars
<1>8. QED
  BY <1>6, <1>7 DEF PortalInv

LEMMA ClaimKeeps ==
    ASSUME PortalInv, NEW s \in Slots, claim_lists(s), UNCHANGED starred
    PROVE  PortalInv'
<1>1. /\ req[s] \in TaskRec /\ ReqFine(req[s], tab, accepted, owner, mishap) /\ req[s].user \in Users
      /\ req[s].kind = "claim" /\ req[s] # NoTask /\ req[s].about \in Vids
  BY AskedFine DEF claim_lists, Asked, ReqFine
<1>2. /\ owner \in [Vids -> Users \cup {NoUser}] /\ accepted \in [Users -> SUBSET Versions] /\ mishap \in BOOLEAN
  BY DEF PortalInv, Stores
<1>3. /\ Reply(s, req[s]) /\ UNCHANGED <<tos, current, accepted, captured, browserVars, tab, plot>>
      /\ \/ /\ owner' = [owner EXCEPT ![req[s].about] = Claimed(req[s].about, req[s].user)]
            /\ mishap' = mishap
         \/ mishap' = TRUE /\ owner' = owner
  BY DEF claim_lists, OnlyServer
<1>4. /\ owner' \in [Vids -> Users \cup {NoUser}] /\ mishap' \in BOOLEAN /\ (mishap => mishap')
      /\ \A v \in Vids : owner[v] # NoUser => owner'[v] = owner[v]
      /\ mishap' \/ owner'[req[s].about] # NoUser
  <2>1. /\ Claimed(req[s].about, req[s].user) \in Users
        /\ owner[req[s].about] # NoUser => Claimed(req[s].about, req[s].user) = owner[req[s].about]
    BY <1>1, <1>2 DEF Claimed
  <2>2. CASE mishap' = TRUE /\ owner' = owner
    BY <2>2, <1>2
  <2>3. CASE owner' = [owner EXCEPT ![req[s].about] = Claimed(req[s].about, req[s].user)] /\ mishap' = mishap
    BY <2>1, <2>3, <1>1, <1>2, SessionAssumption
  <2>4. QED
    BY <1>3, <2>2, <2>3
<1>5. Done(req[s]) \in TaskRec /\ ReqFine(Done(req[s]), tab, accepted', owner', mishap')
  <2>1. /\ Done(req[s]) \in TaskRec /\ Done(req[s]).kind = "claim" /\ Done(req[s]).tab = req[s].tab
        /\ Done(req[s]).user = req[s].user /\ Done(req[s]).session = req[s].session
        /\ Done(req[s]).about = req[s].about
    BY <1>1, DoneFields
  <2>2. QED
    BY <2>1, <1>1, <1>3, <1>4 DEF ReqFine, Belongs
<1>6. TabsFine' /\ ReqsFine'
  BY <1>2, <1>3, <1>4, <1>5, ReplyStep
<1>7. Stores'
  BY <1>3, <1>4 DEF PortalInv, Stores, browserVars
<1>8. NoVidLost'
  BY <1>3, <1>4 DEF PortalInv, Stores, NoVidLost, browserVars
<1>9. QED
  BY <1>6, <1>7, <1>8 DEF PortalInv

(* Handlers that find something, or change stars only. *)
LEMMA FoundKeeps ==
    ASSUME PortalInv, NEW s \in Slots, (list_mine(s) /\ UNCHANGED starred) \/ list_stars(s) \/ toggle_star(s)
    PROVE  PortalInv'
<1>1. /\ req[s] \in TaskRec /\ ReqFine(req[s], tab, accepted, owner, mishap) /\ req[s].user \in Users
      /\ req[s].kind \in {"mine", "stars", "toggle"} /\ req[s] # NoTask
  BY AskedFine DEF list_mine, list_stars, toggle_star, Asked
<1>2. /\ accepted \in [Users -> SUBSET Versions] /\ mishap \in BOOLEAN
      /\ starred \in [Users -> SUBSET Domains]
  BY DEF PortalInv, Stores
<1>3. PICK f \in SUBSET Shown :
         /\ Reply(s, [req[s] EXCEPT !.found = f])
         /\ req[s].kind = "mine" => OwnLists(f, owner, req[s].user)
  <2>1. CASE list_mine(s)
    <3> DEFINE f == {v \in Vids : owner[v] = req[s].user}
    <3>1. f \in SUBSET Shown /\ OwnLists(f, owner, req[s].user)
      BY DEF OwnLists, Shown
    <3>2. Reply(s, [req[s] EXCEPT !.found = f])
      BY <2>1 DEF list_mine
    <3>3. QED
      BY <3>1, <3>2
  <2>2. CASE list_stars(s)
    <3>1. starred[req[s].user] \in SUBSET Shown
      BY <1>1, <1>2 DEF Shown
    <3>2. QED
      BY <2>2, <3>1 DEF list_stars, Asked
  <2>3. CASE toggle_star(s)
    <3>1. [req[s] EXCEPT !.found = req[s].found] = req[s] /\ req[s].found \in SUBSET Shown
      BY <1>1 DEF TaskRec
    <3>2. QED
      BY <2>3, <3>1 DEF toggle_star, Asked
  <2>4. QED
    BY <2>1, <2>2, <2>3
<1>4. UNCHANGED <<serverVars, historyVars, browserVars, tab, plot>>
  BY DEF list_mine, list_stars, toggle_star, OnlyServer
<1> DEFINE r == [req[s] EXCEPT !.found = f]
<1>5. /\ r \in TaskRec /\ r.kind = req[s].kind /\ r.tab = req[s].tab /\ r.user = req[s].user
      /\ r.session = req[s].session /\ r.found = f /\ r.about = req[s].about
  BY <1>1 DEF TaskRec
<1>6. Reply(s, r)
  BY <1>3
<1> HIDE DEF r
<1>7. Done(r) \in TaskRec /\ ReqFine(Done(r), tab, accepted, owner, mishap)
  <2>1. /\ Done(r) \in TaskRec /\ Done(r).kind = req[s].kind /\ Done(r).tab = req[s].tab
        /\ Done(r).user = req[s].user /\ Done(r).session = req[s].session /\ Done(r).found = f
        /\ Done(r).about = req[s].about
    BY <1>5, DoneFields
  <2>2. QED
    BY <2>1, <1>1, <1>3 DEF ReqFine, Belongs
<1>8. TabsFine' /\ ReqsFine'
  BY <1>2, <1>4, <1>6, <1>7, ReplyStep DEF serverVars, historyVars
<1>9. starred' \in [Users -> SUBSET Domains]
  <2>1. CASE toggle_star(s)
    <3>1. req[s].about \in Domains
      BY <2>1, <1>1 DEF ReqFine, toggle_star, Asked
    <3>2. QED
      BY <2>1, <3>1, <1>1, <1>2 DEF toggle_star, Toggled
  <2>2. QED
    BY <2>1, <1>2 DEF list_stars, starVars
<1>10. Stores' /\ NoVidLost'
  BY <1>4, <1>9 DEF PortalInv, Stores, NoVidLost, serverVars, browserVars, historyVars
<1>11. QED
  BY <1>8, <1>10 DEF PortalInv

-----------------------------------------------------------------------------
(* Signing in, new terms, and what the tabs take of the answers. *)
LEMMA DeployKeeps ==
    ASSUME PortalInv, Deploy, UNCHANGED starred
    PROVE  PortalInv'
<1>1. current' \in Versions
  BY SessionAssumption DEF PortalInv, Stores, Deploy, Versions
<1>2. QED
  BY <1>1 DEF Deploy, PortalInv, Stores, TabsFine, ReqsFine, NoVidLost, browserVars, historyVars

LEMMA SettlesKeeps ==
    ASSUME PortalInv, NEW t \in Tabs, AuthSettles(t), UNCHANGED starred
    PROVE  PortalInv'
<1>1. /\ tab \in [Tabs -> TabRec] /\ tab[t] \in TabRec /\ TabFine(tab[t], accepted, owner)
      /\ tab[t].auth = "pending" /\ cookie \in Users \cup {NoUser}
  BY DEF PortalInv, TabsFine, Stores, AuthSettles
<1>2. tab[t].session = NoSession /\ tab[t].lists = {} /\ NoSession.ver = 0 /\ NoSession \in SessionRec
  BY <1>1 DEF TabFine, NoSession, SessionRec
<1>3. PICK r : SetTab(t, r) /\ TabFine(r, accepted, owner)
  <2>1. CASE cookie = NoUser
    <3> DEFINE r == [tab[t] EXCEPT !.auth = "out", !.loading = FALSE, !.session = NoSession]
    <3>1. r \in TabRec /\ r.auth = "out" /\ r.session = NoSession /\ r.lists = {}
      BY <1>1, <1>2 DEF TabRec
    <3>2. SetTab(t, r)
      BY <2>1 DEF AuthSettles
    <3> HIDE DEF r
    <3>3. TabFine(r, accepted, owner)
      BY <1>2, <3>1 DEF TabFine, Honest, OwnLists
    <3>4. QED
      BY <3>2, <3>3
  <2>2. CASE cookie # NoUser
    <3> DEFINE r == [tab[t] EXCEPT !.auth = "in", !.user = cookie]
    <3>1. r \in TabRec /\ r.auth = "in" /\ r.user = cookie /\ r.session = NoSession /\ r.lists = {}
      BY <1>1, <1>2 DEF TabRec
    <3>2. SetTab(t, r)
      BY <2>2 DEF AuthSettles
    <3> HIDE DEF r
    <3>3. TabFine(r, accepted, owner)
      BY <1>1, <1>2, <2>2, <3>1 DEF TabFine, Honest, OwnLists
    <3>4. QED
      BY <3>2, <3>3
  <2>3. QED
    BY <2>1, <2>2
<1>4. TabFine(Drawn(r), accepted, owner) /\ Drawn(r) \in TabRec /\ tab' = [tab EXCEPT ![t] = Drawn(r)]
  BY <1>3, DrawnFine DEF SetTab, TabFine
<1>5. UNCHANGED <<serverVars, cookie, stash, req, plot, historyVars>>
  BY DEF AuthSettles
<1>6. TabsFine'
  BY <1>1, <1>4, <1>5 DEF PortalInv, TabsFine, serverVars, historyVars
<1>7. ASSUME NEW s \in Slots PROVE ReqFine(req[s], tab', accepted, owner, mishap)
  <2>1. ReqFine(req[s], tab, accepted, owner, mishap)
    BY DEF PortalInv, ReqsFine
  <2>2. req[s] # NoTask => req[s].tab # t
    BY <2>1, <1>1 DEF ReqFine, Belongs
  <2>3. \A x \in Tabs \ {t} : tab'[x] = tab[x]
    BY <1>1, <1>4
  <2>4. QED
    BY <2>1, <2>2, <2>3 DEF ReqFine, Belongs
<1>8. ReqsFine'
  BY <1>5, <1>7 DEF PortalInv, ReqsFine, serverVars, historyVars
<1>9. Stores' /\ NoVidLost'
  <2>1. remembered' \subseteq Users
    BY DEF AuthSettles, PortalInv, Stores
  <2>2. QED
    BY <1>5, <2>1 DEF PortalInv, Stores, NoVidLost, serverVars, historyVars
<1>10. QED
  BY <1>6, <1>8, <1>9 DEF PortalInv

LEMMA AnsweredFine ==
    ASSUME PortalInv, NEW s \in Slots, NEW t \in Tabs, NEW k, Answered(s, k, t)
    PROVE  /\ req[s] \in TaskRec /\ ReqFine(req[s], tab, accepted, owner, mishap)
           /\ req[s].kind = k /\ req[s].user = tab[t].user /\ tab[t].auth = "in"
           /\ k = "mine" => tab[t].page = "history"
           /\ k \in {"stars", "toggle"} => tab[t].page = "starred"
           /\ tab[t] \in TabRec /\ TabFine(tab[t], accepted, owner)
           /\ \A good \in Good(s) : good \in BOOLEAN
<1>1. req[s] # NoTask /\ req[s].tab = t /\ req[s].kind = k
  BY DEF Answered
<1>2. req[s] \in TaskRec /\ ReqFine(req[s], tab, accepted, owner, mishap)
  BY <1>1, AskedFine
<1>3. Belongs(req[s], tab[t])
  BY <1>1, <1>2 DEF ReqFine
<1>4. \A good \in Good(s) : good \in BOOLEAN
  BY <1>2 DEF Good, TaskRec
<1>5. tab[t] \in TabRec /\ TabFine(tab[t], accepted, owner)
  BY DEF PortalInv, TabsFine
<1>6. QED
  BY <1>1, <1>2, <1>3, <1>4, <1>5 DEF Belongs

LEMMA AcceptEndsKeeps ==
    ASSUME PortalInv, NEW s \in Slots, NEW t \in Tabs, AcceptEnds(s, t), UNCHANGED starred
    PROVE  PortalInv'
<1>1. /\ tab[t].auth = "in" /\ tab[t] \in TabRec /\ TabFine(tab[t], accepted, owner)
      /\ \A good \in Good(s) : good \in BOOLEAN
  BY AnsweredFine DEF AcceptEnds
<1>2. PICK good \in Good(s) :
         /\ SetTab(t, [tab[t] EXCEPT !.accepting = FALSE, !.gateError = ~good])
         /\ req' = [req EXCEPT ![s] = IF good THEN NewTask("session", t, NoVid) ELSE NoTask]
  BY DEF AcceptEnds
<1> DEFINE r == [tab[t] EXCEPT !.accepting = FALSE, !.gateError = ~good]
           x == IF good THEN NewTask("session", t, NoVid) ELSE NoTask
<1>3. /\ r \in TabRec /\ r.auth = tab[t].auth /\ r.user = tab[t].user /\ r.page = tab[t].page
      /\ r.session = tab[t].session /\ r.lists = tab[t].lists
  BY <1>1 DEF TabRec
<1>4. SetTab(t, r) /\ req' = [req EXCEPT ![s] = x]
  BY <1>2
<1> HIDE DEF r
<1>5. TabFine(r, accepted, owner)
  BY <1>1, <1>3 DEF TabFine
<1>6. NewTask("session", t, NoVid) \in TaskRec /\ ReqFine(NewTask("session", t, NoVid), tab, accepted, owner, mishap)
  BY <1>1, NewTaskFine DEF Kinds
<1>7. x \in TaskRec \cup {NoTask} /\ ReqFine(x, tab, accepted, owner, mishap)
  BY <1>6, NoTaskFine
<1> HIDE DEF x
<1>8. QED
  BY <1>3, <1>4, <1>5, <1>7, TaskStep DEF AcceptEnds, OnlyTab

LEMMA MineEndsKeeps ==
    ASSUME PortalInv, NEW s \in Slots, NEW t \in Tabs, MineEnds(s, t), UNCHANGED starred
    PROVE  PortalInv'
<1>1. /\ tab[t].auth = "in" /\ tab[t] \in TabRec /\ TabFine(tab[t], accepted, owner)
      /\ req[s] \in TaskRec /\ ReqFine(req[s], tab, accepted, owner, mishap) /\ req[s].kind = "mine"
      /\ req[s].user = tab[t].user /\ req[s] # NoTask
  BY AnsweredFine DEF MineEnds, Answered
<1>2. PICK w \in {"lists", "error"} :
         SetTab(t, [tab[t] EXCEPT !.view = w, !.lists = req[s].found])
  BY DEF MineEnds
<1> DEFINE r == [tab[t] EXCEPT !.view = w, !.lists = req[s].found]
<1>3. /\ r \in TabRec /\ r.auth = tab[t].auth /\ r.user = tab[t].user /\ r.page = tab[t].page
      /\ r.session = tab[t].session /\ r.lists = req[s].found
  BY <1>1 DEF TabRec, TaskRec
<1>4. SetTab(t, r) /\ req' = [req EXCEPT ![s] = NoTask]
  BY <1>2 DEF MineEnds
<1> HIDE DEF r
<1>5. TabFine(r, accepted, owner)
  BY <1>1, <1>3 DEF TabFine, ReqFine
<1>6. QED
  BY <1>3, <1>4, <1>5, TaskStep, NoTaskFine DEF MineEnds, OnlyTab

LEMMA SessionLandsKeeps ==
    ASSUME PortalInv, NEW s \in Slots, NEW t \in Tabs, SessionLands(s, t), UNCHANGED starred
    PROVE  PortalInv'
<1>1. /\ tab[t].auth = "in" /\ tab[t] \in TabRec /\ TabFine(tab[t], accepted, owner)
      /\ req[s] \in TaskRec /\ ReqFine(req[s], tab, accepted, owner, mishap)
      /\ req[s].user = tab[t].user /\ req[s] # NoTask
  BY AnsweredFine DEF SessionLands, Answered
<1>2. PICK n \in {req[s].session, tab[t].session}, x \in {NewTask("claim", t, stash), NoTask} :
         /\ SetTab(t, [tab[t] EXCEPT !.loading = FALSE, !.session = n])
         /\ req' = [(IF tab'[t].view = "none" THEN Cancel(req, t) ELSE req) EXCEPT ![s] = x]
         /\ x # NoTask => stash # NoVid /\ x = NewTask("claim", t, stash)
  BY DEF SessionLands
<1>3. UNCHANGED <<serverVars, browserVars, plot, historyVars>> /\ mishap \in BOOLEAN
  BY DEF SessionLands, OnlyTab, PortalInv, Stores
<1>4. UNCHANGED <<accepted, owner, mishap>>
  BY <1>3 DEF serverVars, historyVars
<1> DEFINE r == [tab[t] EXCEPT !.loading = FALSE, !.session = n]
<1>5. /\ r \in TabRec /\ r.auth = tab[t].auth /\ r.user = tab[t].user /\ r.page = tab[t].page
      /\ r.session = n /\ r.lists = tab[t].lists
  BY <1>1 DEF TabRec, TaskRec
<1>6. SetTab(t, r)
  BY <1>2
<1> HIDE DEF r
<1>7. TabFine(r, accepted, owner)
  <2>1. Honest(n, accepted, tab[t].user)
    BY <1>1 DEF ReqFine, TabFine
  <2>2. QED
    BY <1>1, <1>5, <2>1 DEF TabFine
<1>8. /\ TabsFine'
      /\ \A z \in Slots : ReqFine(req[z], tab', accepted', owner', mishap')
      /\ \A y \in Tabs : tab'[y].auth = tab[y].auth /\ tab'[y].user = tab[y].user /\ tab'[y].page = tab[y].page
  BY <1>4, <1>5, <1>6, <1>7, TabStep
<1>9. \A y \in Tabs \ {t} : tab'[y] = tab[y]
  BY <1>6 DEF SetTab, PortalInv, TabsFine
<1>10. /\ Cancel(req, t) \in [Slots -> TaskRec \cup {NoTask}]
       /\ \A z \in Slots : ReqFine(Cancel(req, t)[z], tab', accepted, owner, mishap)
  BY <1>3, <1>8, <1>9, AbandonFine DEF Cancel, Belongs
<1> DEFINE q == IF tab'[t].view = "none" THEN Cancel(req, t) ELSE req
<1>11. q \in [Slots -> TaskRec \cup {NoTask}] /\ \A z \in Slots : ReqFine(q[z], tab', accepted, owner, mishap)
  BY <1>4, <1>8, <1>10 DEF PortalInv, ReqsFine
<1>12. x \in TaskRec \cup {NoTask} /\ ReqFine(x, tab', accepted, owner, mishap)
  <2>1. CASE x = NoTask
    BY <2>1, NoTaskFine
  <2>2. CASE x # NoTask
    <3>1. stash \in Vids /\ x = NewTask("claim", t, stash)
      BY <1>2, <2>2 DEF PortalInv, Stores
    <3>2. NewTask("claim", t, stash) \in TaskRec
            /\ ReqFine(NewTask("claim", t, stash), tab, accepted, owner, mishap)
      BY <1>1, <3>1, NewTaskFine DEF Kinds
    <3>3. QED
      BY <1>8, <3>1, <3>2 DEF ReqFine, Belongs
  <2>3. QED
    BY <2>1, <2>2
<1>13. req' = [q EXCEPT ![s] = x]
  BY <1>2
<1> HIDE DEF q
<1>14. ReqsFine'
  BY <1>4, <1>11, <1>12, <1>13 DEF ReqsFine
<1>15. Stores' /\ NoVidLost'
  BY <1>3 DEF PortalInv, Stores, NoVidLost, serverVars, browserVars, historyVars
<1>16. QED
  BY <1>8, <1>14, <1>15 DEF PortalInv

LEMMA ClaimEndsKeeps ==
    ASSUME PortalInv, NEW s \in Slots, NEW t \in Tabs, ClaimEnds(s, t), UNCHANGED starred
    PROVE  PortalInv'
<1>1. /\ req[s] \in TaskRec /\ ReqFine(req[s], tab, accepted, owner, mishap) /\ req[s].kind = "claim"
      /\ req[s] # NoTask /\ req[s].about \in Vids /\ (req[s].ok /\ ~mishap => owner[req[s].about] # NoUser)
  BY AnsweredFine DEF ClaimEnds, Answered, ReqFine
<1>2. PICK good \in Good(s) :
         /\ stash' = IF good THEN NoVid ELSE stash
         /\ mishap' = (mishap \/ (good /\ stash \notin {NoVid, req[s].about}))
  BY DEF ClaimEnds
<1>3. /\ req' = [req EXCEPT ![s] = NoTask]
      /\ UNCHANGED <<serverVars, cookie, remembered, tab, plot, accepted, captured>>
  BY DEF ClaimEnds
<1>4. (good => req[s].ok) /\ good \in BOOLEAN /\ mishap \in BOOLEAN /\ accepted \in [Users -> SUBSET Versions]
      /\ stash \in Vids \cup {NoVid} /\ captured \subseteq Vids
  BY <1>1, <1>2 DEF Good, TaskRec, PortalInv, Stores
<1>5. mishap' \in BOOLEAN /\ (mishap => mishap') /\ UNCHANGED <<accepted, owner, tab>>
  BY <1>2, <1>3, <1>4 DEF serverVars
<1>6. ReqFine(NoTask, tab, accepted', owner', mishap')
  BY NoTaskFine
<1>7. TabsFine' /\ ReqsFine'
  BY <1>3, <1>4, <1>5, <1>6, ServerStep
<1>8. Stores'
  BY <1>2, <1>3, <1>4, <1>5 DEF PortalInv, Stores, serverVars
<1>9. NoVidLost'
  <2>1. ~mishap => \A v \in captured : stash = v \/ owner[v] # NoUser
    BY DEF PortalInv, NoVidLost
  <2>2. QED
    BY <1>1, <1>2, <1>3, <1>4, <1>5, <2>1, SessionAssumption DEF NoVidLost
<1>10. QED
  BY <1>7, <1>8, <1>9 DEF PortalInv

LEMMA RefreshEndsKeeps ==
    ASSUME PortalInv, NEW s \in Slots, NEW t \in Tabs, RefreshEnds(s, t)
    PROVE  PortalInv'
<1>1. /\ tab[t].auth = "in" /\ tab[t] \in TabRec /\ TabFine(tab[t], accepted, owner)
      /\ req[s] \in TaskRec /\ req[s] # NoTask /\ tab[t].page = "starred"
  BY AnsweredFine DEF RefreshEnds, Answered
<1>2. PICK r \in {[tab[t] EXCEPT !.view = "error"], tab[t],
                  [tab[t] EXCEPT !.view = "lists", !.lists = req[s].found]} : SetTab(t, r)
  BY DEF RefreshEnds
<1>3. /\ r \in TabRec /\ r.auth = tab[t].auth /\ r.user = tab[t].user /\ r.page = tab[t].page
      /\ r.session = tab[t].session
  BY <1>1, <1>2 DEF TabRec, TaskRec
<1>4. TabFine(r, accepted, owner)
  BY <1>1, <1>3 DEF TabFine
<1>5. QED
  BY <1>2, <1>3, <1>4, TaskStep, NoTaskFine DEF RefreshEnds, StarOnly, starVars

LEMMA StarKeeps ==
    ASSUME PortalInv, NEW s \in Slots, NEW t \in Tabs,
           ToggleEnds(s, t) \/ \E d \in Domains : unstar(s, t, d)
    PROVE  PortalInv'
<1>1. UNCHANGED <<tab, serverVars, browserVars, plot, historyVars, starred>>
  BY DEF ToggleEnds, unstar, StarOnly
<1>2. PICK x \in TaskRec \cup {NoTask} :
         req' = [req EXCEPT ![s] = x] /\ ReqFine(x, tab, accepted, owner, mishap)
  <2>1. CASE ToggleEnds(s, t)
    <3>1. tab[t].auth = "in" /\ tab[t].page = "starred"
      BY <2>1, AnsweredFine DEF ToggleEnds
    <3>2. NewTask("stars", t, "all") \in TaskRec /\ ReqFine(NewTask("stars", t, "all"), tab, accepted, owner, mishap)
      BY <3>1, NewTaskFine DEF Kinds
    <3>3. req' = [req EXCEPT ![s] = NewTask("stars", t, "all")] \/ req' = [req EXCEPT ![s] = NoTask]
      BY <2>1 DEF ToggleEnds
    <3>4. QED
      BY <3>2, <3>3, NoTaskFine
  <2>2. ASSUME NEW d \in Domains, unstar(s, t, d)
        PROVE  \E x \in TaskRec \cup {NoTask} :
                  req' = [req EXCEPT ![s] = x] /\ ReqFine(x, tab, accepted, owner, mishap)
    <3>1. tab[t].auth = "in" /\ tab[t].page = "starred" /\ req' = [req EXCEPT ![s] = NewTask("toggle", t, d)]
      BY <2>2 DEF unstar, OnStarred, Open, Ask
    <3>2. NewTask("toggle", t, d) \in TaskRec /\ ReqFine(NewTask("toggle", t, d), tab, accepted, owner, mishap)
      BY <3>1, NewTaskFine DEF Kinds
    <3>3. QED
      BY <3>1, <3>2
  <2>3. QED
    BY <2>1, <2>2
<1>3. accepted \in [Users -> SUBSET Versions] /\ mishap \in BOOLEAN
  BY DEF PortalInv, Stores
<1>4. TabsFine' /\ ReqsFine'
  BY <1>1, <1>2, <1>3, ServerStep DEF serverVars, historyVars
<1>5. Stores' /\ NoVidLost'
  BY <1>1 DEF PortalInv, Stores, NoVidLost, serverVars, browserVars, historyVars
<1>6. QED
  BY <1>4, <1>5 DEF PortalInv

-----------------------------------------------------------------------------
LEMMA StarInitHolds == StarInit => PortalInv
<1> SUFFICES ASSUME StarInit PROVE PortalInv
  OBVIOUS
<1>1. /\ plot \in Plots /\ current = 1 /\ owner = [v \in Vids |-> NoUser] /\ cookie = NoUser /\ stash = NoVid /\ remembered = {}
      /\ tos = [u \in Users |-> IF "accept" \in plot.what THEN -1 ELSE 1]
      /\ accepted = [u \in Users |-> IF "accept" \in plot.what THEN {} ELSE {1}]
      /\ tab = [t \in Tabs |-> Fresh("usage")] /\ req = [s \in Slots |-> NoTask]
      /\ captured = {} /\ mishap = FALSE
      /\ starred = [u \in Users |-> IF "star" \in plot.what THEN Domains ELSE {}]
  BY DEF StarInit, Init
<1>2. Stores
  <2>1. tos \in [Users -> Int] /\ accepted \in [Users -> SUBSET Versions]
    BY <1>1, VersionsInt
  <2>2. ASSUME NEW u \in Users PROVE tos[u] \in {-1, 0} \cup accepted[u]
    <3>1. CASE "accept" \in plot.what
      BY <1>1, <3>1
    <3>2. CASE "accept" \notin plot.what
      BY <1>1, <3>2
    <3>3. QED
      BY <3>1, <3>2
  <2>3. owner \in [Vids -> Users \cup {NoUser}]
    BY <1>1
  <2>4. starred \in [Users -> SUBSET Domains]
    BY <1>1
  <2>5. /\ current \in Versions /\ cookie \in Users \cup {NoUser} /\ stash \in Vids \cup {NoVid}
        /\ captured \subseteq Vids /\ plot \in Plots /\ remembered \subseteq Users
    BY <1>1, VersionsInt
  <2>6. mishap \in BOOLEAN
    BY <1>1, Zenon
  <2>7. QED
    BY <2>1, <2>2, <2>3, <2>4, <2>5, <2>6 DEF Stores
<1>3. TabsFine
  <2>1. TabFine(Fresh("usage"), accepted, owner) /\ Fresh("usage") \in TabRec
    BY FreshFine DEF Pages, TabFine
  <2>2. QED
    BY <1>1, <2>1 DEF TabsFine
<1>4. ReqsFine
  BY <1>1, NoTaskFine DEF ReqsFine
<1>5. NoVidLost
  BY <1>1 DEF NoVidLost
<1>6. QED
  BY <1>2, <1>3, <1>4, <1>5 DEF PortalInv

LEMMA NextKeeps == PortalInv /\ Next /\ UNCHANGED starVars => PortalInv'
<1> SUFFICES ASSUME PortalInv, Next, UNCHANGED starVars PROVE PortalInv'
  OBVIOUS
<1>0. UNCHANGED starred
  BY DEF starVars
<1>1. CASE Deploy
  BY <1>0, <1>1, DeployKeeps
<1>2. ASSUME NEW t \in plot.tabs, Visit(t) \/ AuthSettles(t) PROVE PortalInv'
  BY <1>0, <1>2, PlotTypes, VisitKeeps, SettlesKeeps
<1>3. ASSUME NEW s \in Slots, Serve(s) PROVE PortalInv'
  BY <1>0, <1>3, RefusedKeeps, SessionKeeps, AcceptKeeps, ClaimKeeps, FoundKeeps DEF Serve
<1>4. ASSUME NEW s \in Slots, Take(s) PROVE PortalInv'
  BY <1>0, <1>4, SessionLandsKeeps, AcceptEndsKeeps, ClaimEndsKeeps, MineEndsKeeps DEF Take
<1>5. ASSUME NEW s \in Slots, NEW t \in Tabs, fetchSession(s, t) \/ handleAccept(s, t) \/ load(s, t)
      PROVE  PortalInv'
  BY <1>0, <1>5, AskKeeps
<1>6. QED
  BY <1>1, <1>2, <1>3, <1>4, <1>5 DEF Next

LEMMA StarStepKeeps == PortalInv /\ StarStep => PortalInv'
<1> SUFFICES ASSUME PortalInv, StarStep PROVE PortalInv'
  OBVIOUS
<1>1. ASSUME NEW s \in Slots, toggle_star(s) \/ list_stars(s) PROVE PortalInv'
  BY <1>1, FoundKeeps
<1>2. ASSUME NEW s \in Slots, NEW t \in plot.tabs, mount(s, t) PROVE PortalInv'
  BY <1>2, PlotTypes, AskKeeps DEF mount
<1>3. ASSUME NEW s \in Slots, NEW t \in plot.tabs,
             RefreshEnds(s, t) \/ ToggleEnds(s, t) \/ \E d \in Domains : unstar(s, t, d)
      PROVE  PortalInv'
  BY <1>3, PlotTypes, RefreshEndsKeeps, StarKeeps
<1>4. ASSUME NEW u \in plot.users, NEW d \in Domains, claim_anon_stars(u, d) PROVE PortalInv'
  <2>1. starred \in [Users -> SUBSET Domains] /\ u \in Users
    BY PlotTypes DEF PortalInv, Stores
  <2>2. starred' \in [Users -> SUBSET Domains]
    BY <1>4, <2>1 DEF claim_anon_stars
  <2>3. UNCHANGED <<serverVars, browserVars, tab, req, plot, historyVars>>
    BY <1>4 DEF claim_anon_stars, vars
  <2>4. QED
    BY <2>2, <2>3 DEF PortalInv, Stores, TabsFine, ReqsFine, NoVidLost, serverVars, browserVars, historyVars
<1>5. QED
  BY <1>1, <1>2, <1>3, <1>4 DEF StarStep

(* Every reachable state of the portal: the tabs, the requests under way, the
   stores and the visitor ids are in order together.                       *)
THEOREM PortalSafe == StarSpec => []PortalInv
<1>1. PortalInv /\ [StarNext]_allVars => PortalInv'
  <2> SUFFICES ASSUME PortalInv, [StarNext]_allVars PROVE PortalInv'
    OBVIOUS
  <2>1. CASE UNCHANGED allVars
    BY <2>1 DEF allVars, vars, starVars, PortalInv, Stores, TabsFine, ReqsFine, NoVidLost,
                serverVars, browserVars, historyVars
  <2>2. QED
    BY <2>1, NextKeeps, StarStepKeeps DEF StarNext
<1>2. QED
  BY <1>1, StarInitHolds, PTL DEF StarSpec

(* The types of the stores and of what each tab shows. *)
THEOREM PortalTypes == StarSpec => []TypeOK
<1>1. ASSUME PortalInv PROVE TypeOK
  <2>1. \A u \in Users : tos[u] \in -1 .. LastVersion
    BY <1>1, SessionAssumption DEF PortalInv, Stores, Versions
  <2>2. tos \in [Users -> -1 .. LastVersion]
    BY <1>1, <2>1 DEF PortalInv, Stores
  <2>3. QED
    BY <1>1, <2>2 DEF PortalInv, Stores, TabsFine, TabRec, TypeOK
<1>2. QED
  BY <1>1, PortalSafe, PTL

(* The gate opens only for an account that accepted the version its session
   named, whatever is merged, deployed, lost or overtaken.                 *)
THEOREM GateIsHonestHolds == StarSpec => []GateIsHonest
<1>1. PortalInv => GateIsHonest
  BY DEF PortalInv, TabsFine, TabFine, Honest, GateIsHonest, Open, Accepted
<1>2. QED
  BY <1>1, PortalSafe, PTL

(* Short of a mishap, a visitor's id is in the browser until its lists are
   somebody's.                                                             *)
THEOREM NoVidLostHolds == StarSpec => []NoVidLost
<1>1. PortalInv => NoVidLost
  BY DEF PortalInv
<1>2. QED
  BY <1>1, PortalSafe, PTL

(* The history page shows an account its own lists only. *)
THEOREM ShownIsMineHolds == StarSpec => []ShownIsMine
<1>1. PortalInv => ShownIsMine
  BY DEF PortalInv, TabsFine, TabFine, OwnLists, ShownIsMine
<1>2. QED
  BY <1>1, PortalSafe, PTL

-----------------------------------------------------------------------------
(* The stars.  A tab whose requests and page are left alone stays fine, and so
   does one whose page is blank or another, with no request for stars.     *)
Kept(t) ==
    /\ tab'[t].view = tab[t].view /\ tab'[t].lists = tab[t].lists
    /\ tab'[t].user = tab[t].user /\ tab'[t].page = tab[t].page
    /\ Open(tab[t]) => Open(tab'[t])
    /\ \A s \in Slots : /\ StarTask(s, t)' <=> StarTask(s, t)
                        /\ StarTask(s, t) /\ TaskAgrees(s, t) => TaskAgrees(s, t)'

LEMMA KeptFine ==
    ASSUME NEW t \in Tabs, StarFine(t), Kept(t), t \in astray => t \in astray',
           t \notin astray' => starred'[tab[t].user] = starred[tab[t].user]
    PROVE  StarFine(t)'
<1>1. DrawnOpen(t)'
  BY DEF StarFine, DrawnOpen, Kept
<1>2. AtWork(t)' <=> AtWork(t)
  BY DEF AtWork, Kept
<1>3. AsksDrawn(t)'
  BY <1>2 DEF StarFine, AsksDrawn, Kept
<1>4. ASSUME t \notin astray' PROVE Steady(t)'
  <2>1. Steady(t) /\ starred'[tab'[t].user] = starred[tab[t].user]
    BY <1>4 DEF StarFine, Kept
  <2>2. OneTask(t)'
    BY <2>1 DEF Steady, OneTask, Kept
  <2>3. RestAgrees(t)'
    BY <1>2, <2>1 DEF Steady, RestAgrees, Same, Kept, OnStarred, StarFine, DrawnOpen
  <2>4. QED
    BY <2>1, <2>2, <2>3 DEF Steady, Kept
<1>5. QED
  BY <1>1, <1>3, <1>4 DEF StarFine

LEMMA ClearedFine ==
    ASSUME NEW t \in Tabs, DrawnOpen(t)', ~AtWork(t)', tab'[t].view = "none" \/ tab'[t].page # "starred"
    PROVE  StarFine(t)'
  BY DEF StarFine, AsksDrawn, AtWork, Steady, OneTask, RestAgrees, OnStarred

(* A tab that nothing happens to. *)
LEMMA UntouchedFine ==
    ASSUME NEW t \in Tabs, StarFine(t), tab'[t] = tab[t], t \in astray => t \in astray',
           t \notin astray' => starred'[tab[t].user] = starred[tab[t].user],
           \A s \in Slots : StarTask(s, t) \/ StarTask(s, t)' => req'[s] = req[s]
    PROVE  StarFine(t)'
<1>1. ASSUME t \notin astray' PROVE Kept(t)
  <2>1. \A s \in Slots : StarTask(s, t)' <=> StarTask(s, t)
    BY DEF StarTask
  <2>2. \A s \in Slots : StarTask(s, t) => (TaskAgrees(s, t) <=> TaskAgrees(s, t)')
    BY <1>1, <2>1 DEF TaskAgrees, Same
  <2>3. QED
    BY <2>1, <2>2 DEF Kept
<1>2. CASE t \notin astray'
  BY <1>1, <1>2, KeptFine
<1>3. CASE t \in astray'
  <2>1. \A s \in Slots : StarTask(s, t)' <=> StarTask(s, t)
    BY DEF StarTask
  <2>2. QED
    BY <1>3, <2>1 DEF StarFine, DrawnOpen, AsksDrawn, AtWork
<1>4. QED
  BY <1>2, <1>3

(* What is drawn is behind the gate. *)
LEMMA DrawnShows ==
    ASSUME NEW r \in TabRec
    PROVE  /\ Drawn(r).view # "none" => Drawn(r) = r /\ Open(r) /\ r.page \in {"history", "starred"}
           /\ Open(r) /\ r.page \in {"history", "starred"} => Drawn(r) = r
           /\ Drawn(r).page = r.page /\ Drawn(r).user = r.user
<1> DEFINE d == [r EXCEPT !.view = "none"]
<1>1. d.view = "none" /\ d \in TabRec /\ d.page = r.page /\ d.user = r.user
  BY DEF TabRec
<1>2. [r EXCEPT !.view = "none", !.lists = {}] = [d EXCEPT !.lists = {}]
  OBVIOUS
<1> HIDE DEF d
<1>3. [d EXCEPT !.lists = {}].view = "none" /\ [d EXCEPT !.lists = {}].page = r.page
        /\ [d EXCEPT !.lists = {}].user = r.user
  BY <1>1 DEF TabRec
<1>4. QED
  BY <1>2, <1>3 DEF Drawn

NotStars(x) == x = NoTask \/ x.kind \notin {"stars", "toggle"}

(* A request that is not for stars comes, changes or goes. *)
LEMMA SlotFine ==
    ASSUME PortalInv, NEW s \in Slots, NEW x, NotStars(x), NotStars(req[s]), req' = [req EXCEPT ![s] = x]
    PROVE  \A z \in Slots, t \in Tabs :
              /\ StarTask(z, t)' <=> StarTask(z, t)
              /\ StarTask(z, t) => req'[z] = req[z]
<1>1. \A z \in Slots : req'[z] = IF z = s THEN x ELSE req[z]
  BY DEF PortalInv, ReqsFine
<1>2. QED
  BY <1>1 DEF StarTask, NotStars

LEMMA OtherRequest ==
    ASSUME PortalInv, StarInv, UNCHANGED <<tab, starVars>>, NEW s \in Slots, NEW x,
           NotStars(x), NotStars(req[s]), req' = [req EXCEPT ![s] = x]
    PROVE  StarInv'
<1>1. ASSUME NEW t \in Tabs PROVE StarFine(t)'
  BY SlotFine, UntouchedFine DEF StarInv, starVars
<1>2. QED
  BY <1>1 DEF StarInv

(* A tab moves on and asks something else than stars. *)
LEMMA TabMoves ==
    ASSUME PortalInv, StarInv, UNCHANGED starVars, NEW t \in Tabs, NEW r \in TabRec, SetTab(t, r),
           r.user = tab[t].user, r.page = tab[t].page,
           \/ (Open(tab[t]) => Open(r)) /\ r.view = tab[t].view /\ r.lists = tab[t].lists
           \/ r.page # "starred",
           NEW s \in Slots, NEW x, NotStars(x), NotStars(req[s]), req' = [req EXCEPT ![s] = x]
    PROVE  StarInv'
<1>1. tab' = [tab EXCEPT ![t] = Drawn(r)] /\ tab \in [Tabs -> TabRec]
  BY DEF SetTab, PortalInv, TabsFine
<1>2. ASSUME NEW y \in Tabs \ {t} PROVE StarFine(y)'
  BY <1>1, SlotFine, UntouchedFine DEF StarInv, starVars
<1>3. StarFine(t)'
  <2>1. tab'[t] = Drawn(r) /\ StarFine(t)
    BY <1>1 DEF StarInv
  <2>2. AtWork(t)' <=> AtWork(t)
    BY SlotFine DEF AtWork
  <2>3. DrawnOpen(t)'
    BY <2>1, DrawnShows DEF DrawnOpen
  <2>4. CASE tab[t].view = "none" \/ r.page # "starred"
    <3>1. ~AtWork(t)
      <4>1. CASE tab[t].view = "none"
        BY <2>1, <4>1 DEF StarFine, AsksDrawn
      <4>2. CASE r.page # "starred"
        <5>1. \A z \in Slots : StarTask(z, t) => Belongs(req[z], tab[t])
          BY DEF PortalInv, ReqsFine, ReqFine, StarTask
        <5>2. QED
          BY <4>2, <5>1 DEF AtWork, StarTask, Belongs
      <4>3. QED
        BY <2>4, <4>1, <4>2
    <3>2. tab'[t].view = "none" \/ tab'[t].page # "starred"
      <4>1. CASE r.page # "starred"
        BY <2>1, <4>1, DrawnShows
      <4>2. CASE r.page = "starred" /\ tab[t].view = "none"
        BY <2>1, <4>2, DrawnShows
      <4>3. QED
        BY <2>4, <4>1, <4>2
    <3>3. QED
      BY <2>2, <2>3, <3>1, <3>2, ClearedFine
  <2>5. CASE tab[t].view # "none" /\ r.page = "starred"
    <3>1. Open(tab[t]) /\ Open(r) /\ tab'[t] = r /\ r.view = tab[t].view /\ r.lists = tab[t].lists
      BY <2>1, <2>5, DrawnShows DEF StarFine, DrawnOpen
    <3>2. \A z \in Slots : StarTask(z, t) /\ TaskAgrees(z, t) => TaskAgrees(z, t)'
      BY <3>1, SlotFine DEF TaskAgrees, Same, starVars
    <3>3. Kept(t)
      BY <3>1, <3>2, SlotFine DEF Kept
    <3>4. QED
      BY <2>1, <3>3, KeptFine DEF starVars
  <2>6. QED
    BY <2>4, <2>5
<1>4. QED
  BY <1>2, <1>3 DEF StarInv


LEMMA AbandonStars ==
    ASSUME PortalInv, NEW t \in Tabs, NEW kinds, {"stars", "toggle"} \subseteq kinds, NEW s \in Slots, NEW q,
           q = Abandon(req, t, kinds)[s]
    PROVE  /\ q = NoTask \/ q.tab # t \/ NotStars(q)
           /\ \A x \in Tabs \ {t} :
                 /\ StarTask(s, x) => q = req[s]
                 /\ q # NoTask /\ q.kind \in {"stars", "toggle"} /\ q.tab = x => q = req[s]
<1>1. req[s] \in TaskRec \cup {NoTask} /\ NoTab \notin Tabs
  BY SessionAssumption DEF PortalInv, ReqsFine
<1>2. q = IF req[s] = NoTask \/ req[s].tab # t \/ req[s].kind \notin kinds THEN req[s]
          ELSE IF req[s].st = "done" THEN NoTask ELSE [req[s] EXCEPT !.tab = NoTab]
  BY DEF Abandon
<1>3. req[s] # NoTask => [req[s] EXCEPT !.tab = NoTab].tab = NoTab
  BY <1>1 DEF TaskRec
<1>4. q = NoTask \/ q.tab # t \/ NotStars(q)
  BY <1>1, <1>2, <1>3 DEF NotStars
<1>5. ASSUME NEW x \in Tabs \ {t}
      PROVE  /\ StarTask(s, x) => q = req[s]
             /\ q # NoTask /\ q.kind \in {"stars", "toggle"} /\ q.tab = x => q = req[s]
  BY <1>1, <1>2, <1>3 DEF StarTask
<1>6. QED
  BY <1>4, <1>5


LEMMA TabBlank ==
    ASSUME PortalInv, StarInv, UNCHANGED starVars, NEW t \in Tabs, NEW r, tab' = [tab EXCEPT ![t] = r],
           r.view = "none", NEW kinds, {"stars", "toggle"} \subseteq kinds,
           req' = Abandon(req, t, kinds)
    PROVE  StarInv'
<1>1. tab'[t] = r /\ \A y \in Tabs \ {t} : tab'[y] = tab[y]
  BY DEF PortalInv, TabsFine
<1>2. StarFine(t)'
  <2>1. DrawnOpen(t)'
    BY <1>1 DEF DrawnOpen
  <2>2. \A s \in Slots : ~StarTask(s, t)'
    BY AbandonStars DEF StarTask, NotStars
  <2>3. QED
    BY <1>1, <2>1, <2>2, ClearedFine DEF AtWork
<1>3. ASSUME NEW y \in Tabs \ {t} PROVE StarFine(y)'
  <2>1. \A s \in Slots : StarTask(s, y) \/ StarTask(s, y)' => req'[s] = req[s]
    BY AbandonStars DEF StarTask
  <2>2. QED
    BY <1>1, <2>1, UntouchedFine DEF StarInv, starVars
<1>4. QED
  BY <1>2, <1>3 DEF StarInv

LEMMA VisitStars ==
    ASSUME PortalInv, StarInv, UNCHANGED starVars, NEW t \in Tabs, Visit(t)
    PROVE  StarInv'
<1>1. \A p : Fresh(p).view = "none" /\ [Fresh(p) EXCEPT !.auth = "error"].view = "none"
  BY DEF Fresh
<1>2. {"stars", "toggle"} \subseteq Kinds
  BY DEF Kinds
<1>3. ASSUME NEW p, NEW v, Load(t, p, v) PROVE StarInv'
  BY <1>1, <1>2, <1>3, TabBlank DEF Load, Orphan
<1>4. ASSUME NEW p \in plot.pages, Follow(t, p) PROVE StarInv'
  <2> DEFINE r == [tab[t] EXCEPT !.page = p, !.view = "none", !.lists = {}]
  <2>1. r \in TabRec /\ r.view = "none"
    BY PlotTypes DEF PortalInv, TabsFine, TabRec
  <2>2. tab' = [tab EXCEPT ![t] = Drawn(r)] /\ req' = Abandon(req, t, {"mine", "stars", "toggle"})
    BY <1>4 DEF Follow, SetTab, Cancel
  <2> HIDE DEF r
  <2>3. Drawn(r).view = "none"
    BY <2>1, DrawnShows
  <2>4. QED
    BY <2>2, <2>3, TabBlank
<1>5. ASSUME NEW u \in plot.users, removeAccount(t, u) PROVE StarInv'
  <2>1. ASSUME NEW y \in Tabs PROVE StarFine(y)'
    BY <1>5, UntouchedFine DEF removeAccount, StarInv, starVars
  <2>2. QED
    BY <2>1 DEF StarInv
<1>6. CASE tab' = [tab EXCEPT ![t] = [Fresh("usage") EXCEPT !.auth = "error"]] /\ req' = Orphan(req, t)
  BY <1>1, <1>2, <1>6, TabBlank DEF Orphan
<1>7. QED
  BY <1>3, <1>4, <1>5, <1>6 DEF Visit, Reload, LoginReturns, TryAgain, addAccount, signOut, ArriveWith,
     switchAccount, ThroughAuth0

LEMMA SettlesStars ==
    ASSUME PortalInv, StarInv, UNCHANGED starVars, NEW t \in Tabs, AuthSettles(t)
    PROVE  StarInv'
<1>1. /\ tab \in [Tabs -> TabRec] /\ tab[t].auth = "pending" /\ StarFine(t) /\ UNCHANGED req
      /\ cookie \in Users \cup {NoUser}
  BY DEF AuthSettles, PortalInv, TabsFine, Stores, StarInv
<1>2. tab[t].view = "none" /\ ~AtWork(t)
  BY <1>1 DEF StarFine, DrawnOpen, AsksDrawn, Open
<1>0. NoSession \in SessionRec
  BY DEF NoSession, SessionRec
<1>3. PICK r \in TabRec : r.view = "none" /\ tab' = [tab EXCEPT ![t] = Drawn(r)]
  <2>1. CASE cookie = NoUser
    <3> DEFINE r == [tab[t] EXCEPT !.auth = "out", !.loading = FALSE, !.session = NoSession]
    <3>1. r \in TabRec /\ r.view = "none"
      BY <1>0, <1>1, <1>2 DEF TabRec
    <3>2. QED
      BY <2>1, <3>1 DEF AuthSettles, SetTab
  <2>2. CASE cookie # NoUser
    <3> DEFINE r == [tab[t] EXCEPT !.auth = "in", !.user = cookie]
    <3>1. r \in TabRec /\ r.view = "none"
      BY <1>1, <1>2 DEF TabRec
    <3>2. QED
      BY <2>2, <3>1 DEF AuthSettles, SetTab
  <2>3. QED
    BY <2>1, <2>2
<1>4. Drawn(r).view = "none"
  BY <1>3, DrawnShows
<1>5. StarFine(t)'
  BY <1>1, <1>2, <1>3, <1>4, ClearedFine DEF DrawnOpen, AtWork, StarTask
<1>6. ASSUME NEW y \in Tabs \ {t} PROVE StarFine(y)'
  BY <1>1, <1>3, UntouchedFine DEF StarInv, starVars
<1>7. QED
  BY <1>5, <1>6 DEF StarInv

LEMMA AskStars ==
    ASSUME PortalInv, StarInv, UNCHANGED starVars, NEW s \in Slots, NEW t \in Tabs,
           fetchSession(s, t) \/ handleAccept(s, t) \/ load(s, t)
    PROVE  StarInv'
<1>1. tab[t] \in TabRec
  BY DEF PortalInv, TabsFine
<1>2. NotStars(NewTask("session", t, NoVid)) /\ NotStars(NewTask("accept", t, NoVid)) /\ NotStars(NewTask("mine", t, NoVid))
        /\ NotStars(NewTask("mine", t, "all")) /\ NotStars(NoTask)
  BY DEF NotStars, NewTask
<1>3. CASE fetchSession(s, t)
  <2> DEFINE r == [tab[t] EXCEPT !.called = TRUE]
  <2>1. /\ r \in TabRec /\ r.user = tab[t].user /\ r.page = tab[t].page /\ r.view = tab[t].view
        /\ r.lists = tab[t].lists /\ (Open(tab[t]) => Open(r))
    BY <1>1 DEF TabRec, Open, Accepted
  <2>2. SetTab(t, r) /\ req' = [req EXCEPT ![s] = NewTask("session", t, NoVid)] /\ req[s] = NoTask
    BY <1>3 DEF fetchSession, Ask
  <2> HIDE DEF r
  <2>3. QED
    BY <1>2, <2>1, <2>2, TabMoves
<1>4. CASE handleAccept(s, t)
  <2> DEFINE r == [tab[t] EXCEPT !.accepting = TRUE, !.gateError = FALSE]
  <2>1. /\ r \in TabRec /\ r.user = tab[t].user /\ r.page = tab[t].page /\ r.view = tab[t].view
        /\ r.lists = tab[t].lists /\ (Open(tab[t]) => Open(r))
    BY <1>1 DEF TabRec, Open, Accepted
  <2>2. SetTab(t, r) /\ req' = [req EXCEPT ![s] = NewTask("accept", t, NoVid)] /\ req[s] = NoTask
    BY <1>4 DEF handleAccept, Ask
  <2> HIDE DEF r
  <2>3. QED
    BY <1>2, <2>1, <2>2, TabMoves
<1>5. CASE load(s, t)
  <2> DEFINE r == [tab[t] EXCEPT !.view = "loading"]
  <2>1. r \in TabRec /\ r.user = tab[t].user /\ r.page = tab[t].page
    BY <1>1 DEF TabRec
  <2>2. /\ SetTab(t, r) /\ req' = [req EXCEPT ![s] = NewTask("mine", t, NoVid)] /\ req[s] = NoTask
        /\ tab[t].page # "starred"
    BY <1>5 DEF load, Ask
  <2> HIDE DEF r
  <2>3. QED
    BY <1>2, <2>1, <2>2, TabMoves
<1>6. QED
  BY <1>3, <1>4, <1>5

(* Handlers that answer, and do not touch the stars. *)
LEMMA ReplyStars ==
    ASSUME PortalInv, StarInv, UNCHANGED <<tab, starVars>>, NEW s \in Slots, req[s] # NoTask,
           NotStars(req[s]), NEW r \in TaskRec, NotStars(r), r # NoTask, Reply(s, r)
    PROVE  StarInv'
<1> DEFINE x == IF req[s].tab = NoTab THEN NoTask ELSE Done(r)
<1>1. req' = [req EXCEPT ![s] = x]
  BY DEF Reply, Done
<1>2. NotStars(x)
  BY DoneFields DEF NotStars
<1> HIDE DEF x
<1>3. QED
  BY <1>1, <1>2, OtherRequest

LEMMA ServeStars ==
    ASSUME PortalInv, StarInv, UNCHANGED starVars, NEW s \in Slots,
           create_session(s) \/ accept_tos(s) \/ claim_lists(s) \/ list_mine(s)
    PROVE  StarInv'
<1>1. /\ req[s] \in TaskRec /\ req[s] # NoTask /\ UNCHANGED tab
      /\ req[s].kind \in {"session", "accept", "claim", "mine"}
  BY AskedFine DEF create_session, accept_tos, claim_lists, list_mine, Asked, OnlyServer
<1>2. NotStars(req[s])
  BY <1>1 DEF NotStars
<1>3. PICK r \in TaskRec : Reply(s, r) /\ r.kind = req[s].kind
  <2>1. CASE accept_tos(s) \/ claim_lists(s)
    BY <1>1, <2>1 DEF accept_tos, claim_lists
  <2>2. CASE list_mine(s)
    <3> DEFINE r == [req[s] EXCEPT !.found = {v \in Vids : owner[v] = req[s].user}]
    <3>1. r \in TaskRec /\ r.kind = req[s].kind
      BY <1>1 DEF TaskRec, Shown
    <3>2. QED
      BY <2>2, <3>1 DEF list_mine
  <2>3. CASE create_session(s)
    <3>1. tos \in [Users -> Int] /\ current \in Int /\ req[s].user \in Users
      BY <1>1, VersionsInt, AskedFine DEF PortalInv, Stores
    <3> DEFINE row == IF tos[req[s].user] = -1 THEN 0 ELSE tos[req[s].user]
    <3>0. row \in Int /\ 0 \in Int
      BY <3>1
    <3>2. PICK n \in {0, row} : Reply(s, [req[s] EXCEPT !.session = [ver |-> n, cur |-> current]])
      BY <2>3 DEF create_session
    <3> DEFINE r == [req[s] EXCEPT !.session = [ver |-> n, cur |-> current]]
    <3>3. r \in TaskRec /\ r.kind = req[s].kind
      BY <1>1, <3>0, <3>1 DEF TaskRec, SessionRec
    <3>4. QED
      BY <3>2, <3>3
  <2>4. QED
    BY <2>1, <2>2, <2>3
<1>4. r # NoTask /\ NotStars(r)
  <2>1. r.kind \in Kinds /\ NoTask.kind = "none" /\ "none" \notin Kinds
    BY DEF TaskRec, NoTask, Kinds
  <2>2. QED
    BY <1>1, <1>3, <2>1 DEF NotStars
<1>5. QED
  BY <1>1, <1>2, <1>3, <1>4, ReplyStars

LEMMA RefusedStars ==
    ASSUME PortalInv, StarInv, UNCHANGED starVars, NEW s \in Slots, Refused(s)
    PROVE  StarInv'
<1> DEFINE d == [req[s] EXCEPT !.st = "done"]
<1>1. req[s] \in TaskRec /\ req[s] # NoTask /\ req[s].st = "sent" /\ UNCHANGED tab
  BY AskedFine DEF Refused, OnlyServer
<1>2. /\ d.kind = req[s].kind /\ d.tab = req[s].tab /\ d.ok = req[s].ok /\ d.about = req[s].about
      /\ d.found = req[s].found /\ d.st = "done" /\ d.kind \in Kinds
  BY <1>1 DEF TaskRec
<1>3. \A z \in Slots : req'[z] = IF z # s THEN req[z] ELSE IF req[s].tab = NoTab THEN NoTask ELSE d
  BY DEF Refused, PortalInv, ReqsFine
<1>4. d # NoTask
  BY <1>2 DEF NoTask, Kinds
<1> HIDE DEF d
<1>5. ASSUME NEW t \in Tabs PROVE StarFine(t)'
  <2>1. \A z \in Slots : StarTask(z, t)' <=> StarTask(z, t)
    BY <1>1, <1>2, <1>3, <1>4, SessionAssumption DEF StarTask
  <2>2. ASSUME NEW z \in Slots, StarTask(z, t), TaskAgrees(z, t) PROVE TaskAgrees(z, t)'
    <3>1. CASE z # s
      BY <1>1, <1>3, <2>2, <3>1 DEF TaskAgrees, Same, starVars
    <3>2. CASE z = s
      <4>1. req'[s] = d
        BY <1>3, <2>2, <3>2, SessionAssumption DEF StarTask
      <4>2. QED
        BY <1>1, <1>2, <2>2, <3>2, <4>1 DEF TaskAgrees, Same, starVars
    <3>3. QED
      BY <3>1, <3>2
  <2>3. Kept(t)
    BY <1>1, <2>1, <2>2 DEF Kept
  <2>4. QED
    BY <2>3, KeptFine DEF StarInv, starVars
<1>6. QED
  BY <1>5 DEF StarInv


LEMMA AcceptEndsStars ==
    ASSUME PortalInv, StarInv, UNCHANGED starVars, NEW s \in Slots, NEW t \in Tabs, AcceptEnds(s, t)
    PROVE  StarInv'
<1>1. /\ tab[t] \in TabRec /\ req[s].kind = "accept" /\ \A good \in Good(s) : good \in BOOLEAN
  BY AnsweredFine DEF AcceptEnds
<1>2. PICK good \in Good(s) :
         /\ SetTab(t, [tab[t] EXCEPT !.accepting = FALSE, !.gateError = ~good])
         /\ req' = [req EXCEPT ![s] = IF good THEN NewTask("session", t, NoVid) ELSE NoTask]
  BY DEF AcceptEnds
<1> DEFINE r == [tab[t] EXCEPT !.accepting = FALSE, !.gateError = ~good]
           x == IF good THEN NewTask("session", t, NoVid) ELSE NoTask
<1>3. /\ r \in TabRec /\ r.user = tab[t].user /\ r.page = tab[t].page /\ r.view = tab[t].view
      /\ r.lists = tab[t].lists /\ (Open(tab[t]) => Open(r))
  BY <1>1 DEF TabRec, Open, Accepted
<1>4. SetTab(t, r) /\ req' = [req EXCEPT ![s] = x]
  BY <1>2
<1>5. NotStars(x) /\ NotStars(req[s])
  BY <1>1 DEF NotStars, NewTask
<1> HIDE DEF r, x
<1>6. QED
  BY <1>3, <1>4, <1>5, TabMoves

LEMMA MineEndsStars ==
    ASSUME PortalInv, StarInv, UNCHANGED starVars, NEW s \in Slots, NEW t \in Tabs, MineEnds(s, t)
    PROVE  StarInv'
<1>1. tab[t] \in TabRec /\ req[s] \in TaskRec /\ req[s].kind = "mine" /\ tab[t].page = "history"
  BY AnsweredFine DEF MineEnds
<1>2. PICK w \in {"lists", "error"} :
         SetTab(t, [tab[t] EXCEPT !.view = w, !.lists = req[s].found])
  BY DEF MineEnds
<1> DEFINE r == [tab[t] EXCEPT !.view = w, !.lists = req[s].found]
<1>3. r \in TabRec /\ r.user = tab[t].user /\ r.page = tab[t].page
  BY <1>1 DEF TabRec, TaskRec
<1>4. SetTab(t, r) /\ req' = [req EXCEPT ![s] = NoTask]
  BY <1>2 DEF MineEnds
<1>5. NotStars(NoTask) /\ NotStars(req[s])
  BY <1>1 DEF NotStars
<1> HIDE DEF r
<1>6. QED
  BY <1>1, <1>3, <1>4, <1>5, TabMoves

LEMMA ClaimEndsStars ==
    ASSUME PortalInv, StarInv, UNCHANGED starVars, NEW s \in Slots, NEW t \in Tabs, ClaimEnds(s, t)
    PROVE  StarInv'
<1>1. req[s].kind = "claim" /\ req' = [req EXCEPT ![s] = NoTask] /\ UNCHANGED tab
  BY AnsweredFine DEF ClaimEnds
<1>2. NotStars(NoTask) /\ NotStars(req[s])
  BY <1>1 DEF NotStars
<1>3. QED
  BY <1>1, <1>2, OtherRequest

LEMMA SessionLandsStars ==
    ASSUME PortalInv, StarInv, UNCHANGED starVars, NEW s \in Slots, NEW t \in Tabs, SessionLands(s, t)
    PROVE  StarInv'
<1>1. tab[t] \in TabRec /\ req[s] \in TaskRec /\ req[s].kind = "session" /\ StarFine(t)
  BY AnsweredFine DEF SessionLands, StarInv
<1>2. PICK n \in {req[s].session, tab[t].session}, x \in {NewTask("claim", t, stash), NoTask} :
         /\ SetTab(t, [tab[t] EXCEPT !.loading = FALSE, !.session = n])
         /\ req' = [(IF tab'[t].view = "none" THEN Cancel(req, t) ELSE req) EXCEPT ![s] = x]
  BY DEF SessionLands
<1> DEFINE r == [tab[t] EXCEPT !.loading = FALSE, !.session = n]
           q == IF tab'[t].view = "none" THEN Cancel(req, t) ELSE req
<1>3. /\ r \in TabRec /\ r.user = tab[t].user /\ r.page = tab[t].page /\ r.view = tab[t].view
      /\ r.lists = tab[t].lists
  BY <1>1 DEF TabRec, TaskRec
<1>4. tab' = [tab EXCEPT ![t] = Drawn(r)] /\ tab \in [Tabs -> TabRec] /\ req' = [q EXCEPT ![s] = x]
  BY <1>2 DEF SetTab, PortalInv, TabsFine
<1>5. NotStars(x) /\ NotStars(req[s])
  BY <1>1 DEF NotStars, NewTask
<1> HIDE DEF r
<1>6. DOMAIN q = Slots
  BY DEF Cancel, Abandon, PortalInv, ReqsFine
<1>7. \A z \in Slots : req'[z] = IF z = s THEN x ELSE q[z]
  BY <1>4, <1>6
<1>8. \A z \in Slots, y \in Tabs \ {t} : StarTask(z, y) \/ StarTask(z, y)' => req'[z] = req[z]
  <2>1. CASE q = req
    BY <1>5, <1>7, <2>1 DEF StarTask, NotStars
  <2>2. CASE q = Abandon(req, t, {"mine", "stars", "toggle"})
    BY <1>5, <1>7, <2>2, AbandonStars DEF StarTask, NotStars
  <2>3. QED
    BY <2>1, <2>2 DEF Cancel
<1>9. ASSUME NEW y \in Tabs \ {t} PROVE StarFine(y)'
  BY <1>4, <1>8, UntouchedFine DEF StarInv, starVars
<1>10. DrawnOpen(t)'
  BY <1>3, <1>4, DrawnShows DEF DrawnOpen
<1>11. CASE tab'[t].view = "none"
  <2>1. q = Abandon(req, t, {"mine", "stars", "toggle"})
    BY <1>11 DEF Cancel
  <2>2. \A z \in Slots : ~StarTask(z, t)'
    BY <1>5, <1>7, <2>1, AbandonStars DEF StarTask, NotStars
  <2>3. StarFine(t)'
    BY <1>10, <1>11, <2>2, ClearedFine DEF AtWork
  <2>4. QED
    BY <1>9, <2>3 DEF StarInv
<1>12. CASE tab'[t].view # "none"
  <2>1. tab'[t] = r /\ Open(r) /\ q = req
    BY <1>3, <1>4, <1>12, DrawnShows
  <2>2. req' = [req EXCEPT ![s] = x]
    BY <1>4, <2>1
  <2>3. \A z \in Slots : StarTask(z, t) /\ TaskAgrees(z, t) => TaskAgrees(z, t)'
    BY <1>3, <1>5, <2>1, <2>2, SlotFine DEF TaskAgrees, Same, starVars
  <2>4. Kept(t)
    BY <1>3, <1>5, <2>1, <2>2, <2>3, SlotFine DEF Kept
  <2>5. StarFine(t)'
    BY <1>1, <2>4, KeptFine DEF starVars
  <2>6. QED
    BY <1>9, <2>5 DEF StarInv
<1>13. QED
  BY <1>11, <1>12

-----------------------------------------------------------------------------
(* The steps of the starred page itself: one request, of one tab. *)
OfTab(x, t) == x = NoTask \/ x.tab = t

LEMMA OtherTabs ==
    ASSUME PortalInv, StarInv, NEW t \in Tabs, NEW s \in Slots, NEW x, OfTab(x, t), OfTab(req[s], t),
           req' = [req EXCEPT ![s] = x], UNCHANGED starred,
           NEW y \in Tabs \ {t}, tab'[y] = tab[y], y \in astray => y \in astray'
    PROVE  StarFine(y)'
<1>1. \A z \in Slots : req'[z] = IF z = s THEN x ELSE req[z]
  BY DEF PortalInv, ReqsFine
<1>2. \A z \in Slots : StarTask(z, y) \/ StarTask(z, y)' => req'[z] = req[z]
  BY <1>1 DEF StarTask, OfTab
<1>3. QED
  BY <1>2, UntouchedFine DEF StarInv

LEMMA MountStars ==
    ASSUME PortalInv, StarInv, NEW s \in Slots, NEW t \in Tabs, mount(s, t)
    PROVE  StarInv'
<1> DEFINE r == [tab[t] EXCEPT !.view = "loading"]
           x == NewTask("stars", t, "all")
<1>1. /\ tab \in [Tabs -> TabRec] /\ OnStarred(t) /\ tab[t].view = "none" /\ StarFine(t)
      /\ req[s] = NoTask /\ req' = [req EXCEPT ![s] = x] /\ SetTab(t, r)
      /\ astray' = astray \ {t} /\ UNCHANGED starred
  BY DEF mount, Ask, PortalInv, TabsFine, StarInv
<1>2. /\ r \in TabRec /\ r.view = "loading" /\ Open(r) /\ r.page = "starred"
  BY <1>1 DEF TabRec, OnStarred, Open, Accepted
<1> HIDE DEF r
<1>3. tab'[t] = r /\ \A y \in Tabs \ {t} : tab'[y] = tab[y]
  BY <1>1, <1>2, DrawnShows DEF SetTab
<1>4. x.kind = "stars" /\ x.tab = t /\ x.ok = FALSE
  BY DEF NewTask
<1> HIDE DEF x
<1>5. \A z \in Slots : req'[z] = IF z = s THEN x ELSE req[z]
  BY <1>1 DEF PortalInv, ReqsFine
<1>6. \A z \in Slots : StarTask(z, t)' => z = s
  BY <1>1, <1>5 DEF StarFine, AsksDrawn, AtWork, StarTask
<1>7. Steady(t)'
  <2>1. OneTask(t)' /\ RestAgrees(t)'
    BY <1>2, <1>3, <1>6 DEF OneTask, RestAgrees
  <2>2. TaskAgrees(s, t)'
    BY <1>4, <1>5 DEF TaskAgrees
  <2>3. QED
    BY <1>6, <2>1, <2>2 DEF Steady
<1>8. StarFine(t)'
  BY <1>2, <1>3, <1>7 DEF StarFine, DrawnOpen, AsksDrawn
<1>9. ASSUME NEW y \in Tabs \ {t} PROVE StarFine(y)'
  <2>1. y \in astray => y \in astray'
    BY <1>1
  <2>2. QED
    BY <1>1, <1>3, <1>4, <2>1, OtherTabs DEF OfTab
<1>10. QED
  BY <1>8, <1>9 DEF StarInv

LEMMA UnstarStars ==
    ASSUME PortalInv, StarInv, NEW s \in Slots, NEW t \in Tabs, NEW d \in Domains, unstar(s, t, d)
    PROVE  StarInv'
<1> DEFINE x == NewTask("toggle", t, d)
<1>1. /\ OnStarred(t) /\ tab[t].view = "lists" /\ StarFine(t) /\ d \in tab[t].lists
      /\ req[s] = NoTask /\ req' = [req EXCEPT ![s] = x] /\ UNCHANGED <<tab, starred>>
      /\ astray' = astray \cup (IF AtWork(t) THEN {t} ELSE {})
  BY DEF unstar, Ask, StarInv
<1>2. x.kind = "toggle" /\ x.tab = t /\ x.ok = FALSE /\ x.about = d
  BY DEF NewTask
<1> HIDE DEF x
<1>3. \A z \in Slots : req'[z] = IF z = s THEN x ELSE req[z]
  BY <1>1 DEF PortalInv, ReqsFine
<1>4. ASSUME t \notin astray' PROVE Steady(t)'
  <2>1. ~AtWork(t) /\ Steady(t)
    BY <1>1, <1>4 DEF StarFine
  <2>2. Same(t)
    BY <1>1, <2>1 DEF Steady, RestAgrees
  <2>3. \A z \in Slots : StarTask(z, t)' => z = s
    BY <1>3, <2>1 DEF AtWork, StarTask
  <2>4. OneTask(t)' /\ RestAgrees(t)'
    BY <1>1, <2>2, <2>3 DEF OneTask, RestAgrees, Same
  <2>5. TaskAgrees(s, t)'
    BY <1>1, <1>2, <1>3, <2>2 DEF TaskAgrees, Same
  <2>6. QED
    BY <2>3, <2>4, <2>5 DEF Steady
<1>5. StarFine(t)'
  BY <1>1, <1>4 DEF StarFine, DrawnOpen, AsksDrawn
<1>6. ASSUME NEW y \in Tabs \ {t} PROVE StarFine(y)'
  BY <1>1, <1>2, OtherTabs DEF OfTab
<1>7. QED
  BY <1>5, <1>6 DEF StarInv

LEMMA ToggleEndsStars ==
    ASSUME PortalInv, StarInv, NEW s \in Slots, NEW t \in Tabs, ToggleEnds(s, t)
    PROVE  StarInv'
<1>1. /\ StarFine(t) /\ StarTask(s, t) /\ UNCHANGED <<tab, starred>> /\ req[s] \in TaskRec /\ req[s].kind = "toggle"
  BY AnsweredFine DEF ToggleEnds, Answered, StarTask, StarInv
<1>2. PICK good \in Good(s) :
         /\ req' = [req EXCEPT ![s] = IF good THEN NewTask("stars", t, "all") ELSE NoTask]
         /\ astray' = astray \cup (IF req[s].ok /\ ~good THEN {t} ELSE {})
  BY DEF ToggleEnds
<1>3. good \in BOOLEAN /\ req[s].ok \in BOOLEAN
  BY <1>1, <1>2 DEF Good, TaskRec
<1> DEFINE x == IF good THEN NewTask("stars", t, "all") ELSE NoTask
<1>4. good => x.kind = "stars" /\ x.tab = t /\ x.ok = FALSE /\ x # NoTask
  <2> DEFINE n == NewTask("stars", t, "all")
  <2>1. n.kind = "stars" /\ n.tab = t /\ n.ok = FALSE
    BY DEF NewTask
  <2>2. n # NoTask
    BY <2>1 DEF NoTask
  <2>3. QED
    BY <2>1, <2>2
<1>5. ~good => x = NoTask
  OBVIOUS
<1>6. req' = [req EXCEPT ![s] = x]
  BY <1>2
<1> HIDE DEF x
<1>7. \A z \in Slots : req'[z] = IF z = s THEN x ELSE req[z]
  BY <1>6 DEF PortalInv, ReqsFine
<1>8. ASSUME t \notin astray' PROVE Steady(t)'
  <2>1. Steady(t) /\ (~good => ~req[s].ok)
    BY <1>1, <1>2, <1>8 DEF StarFine
  <2>2. \A z \in Slots : StarTask(z, t)' => z = s
    BY <1>1, <1>7, <2>1 DEF Steady, OneTask, StarTask
  <2>3. OneTask(t)'
    BY <2>2 DEF OneTask
  <2>4. RestAgrees(t)'
    <3>1. CASE good
      BY <1>4, <1>7, <3>1 DEF RestAgrees, AtWork, StarTask
    <3>2. CASE ~good
      BY <1>1, <2>1, <3>2 DEF Steady, TaskAgrees, RestAgrees, Same
    <3>3. QED
      BY <1>3, <3>1, <3>2
  <2>5. StarTask(s, t)' => TaskAgrees(s, t)'
    BY <1>3, <1>4, <1>5, <1>7 DEF StarTask, TaskAgrees
  <2>6. QED
    BY <2>2, <2>3, <2>4, <2>5 DEF Steady
<1>9. StarFine(t)'
  BY <1>1, <1>8 DEF StarFine, DrawnOpen, AsksDrawn, AtWork
<1>10. ASSUME NEW y \in Tabs \ {t} PROVE StarFine(y)'
  <2>1. OfTab(x, t) /\ OfTab(req[s], t)
    BY <1>1, <1>3, <1>4, <1>5 DEF OfTab, StarTask
  <2>2. QED
    BY <1>1, <1>2, <1>6, <2>1, OtherTabs
<1>11. QED
  BY <1>9, <1>10 DEF StarInv

LEMMA RefreshEndsStars ==
    ASSUME PortalInv, StarInv, NEW s \in Slots, NEW t \in Tabs, RefreshEnds(s, t)
    PROVE  StarInv'
<1>1. /\ StarFine(t) /\ StarTask(s, t) /\ UNCHANGED starVars /\ req[s] \in TaskRec /\ req[s].kind = "stars"
      /\ req' = [req EXCEPT ![s] = NoTask] /\ tab[t].page = "starred" /\ tab \in [Tabs -> TabRec]
  BY AnsweredFine DEF RefreshEnds, Answered, StarTask, StarInv, PortalInv, TabsFine
<1>2. Open(tab[t]) /\ tab[t].view # "none"
  BY <1>1 DEF StarFine, DrawnOpen, AsksDrawn, AtWork
<1>3. PICK r \in TabRec :
         /\ SetTab(t, r) /\ Open(r) /\ r.page = "starred" /\ r.view # "none" /\ r.user = tab[t].user
         /\ r.view = "lists" => req[s].ok /\ r.lists = req[s].found
  <2>1. PICK good \in Good(s) :
           SetTab(t, CASE ~good -> [tab[t] EXCEPT !.view = "error"]
                       [] tab[t].view = "error" -> tab[t]
                       [] OTHER -> [tab[t] EXCEPT !.view = "lists", !.lists = req[s].found])
    BY DEF RefreshEnds
  <2>2. good \in BOOLEAN /\ (good => req[s].ok)
    BY <1>1, <2>1 DEF Good, TaskRec
  <2>3. CASE good = FALSE \/ tab[t].view = "error"
    <3> DEFINE e == [tab[t] EXCEPT !.view = "error"]
    <3>0. e \in TabRec /\ Open(e) /\ e.page = "starred" /\ e.view = "error" /\ e.user = tab[t].user
      BY <1>1, <1>2 DEF TabRec, Open, Accepted
    <3>1. PICK w \in {e, tab[t]} : SetTab(t, w) /\ (w = e \/ (w = tab[t] /\ tab[t].view = "error"))
      BY <2>1, <2>3
    <3> HIDE DEF e
    <3>2. w \in TabRec /\ Open(w) /\ w.page = "starred" /\ w.view = "error" /\ w.user = tab[t].user
      BY <1>1, <1>2, <3>0, <3>1
    <3>3. QED
      BY <3>1, <3>2
  <2>5. CASE good /\ tab[t].view # "error"
    <3> DEFINE r == [tab[t] EXCEPT !.view = "lists", !.lists = req[s].found]
    <3>1. /\ r \in TabRec /\ Open(r) /\ r.page = "starred" /\ r.view = "lists" /\ r.user = tab[t].user
          /\ r.lists = req[s].found
      BY <1>1, <1>2 DEF TabRec, TaskRec, Open, Accepted
    <3>2. SetTab(t, r)
      BY <2>1, <2>5
    <3> HIDE DEF r
    <3>3. QED
      BY <2>2, <2>5, <3>1, <3>2
  <2>6. QED
    BY <2>2, <2>3, <2>5
<1>4. tab'[t] = r /\ \A y \in Tabs \ {t} : tab'[y] = tab[y]
  BY <1>1, <1>3, DrawnShows DEF SetTab
<1>5. \A z \in Slots : req'[z] = IF z = s THEN NoTask ELSE req[z]
  BY <1>1 DEF PortalInv, ReqsFine
<1>6. ASSUME t \notin astray' PROVE Steady(t)'
  <2>1. Steady(t)
    BY <1>1, <1>6 DEF StarFine, starVars
  <2>2. \A z \in Slots : ~StarTask(z, t)'
    BY <1>1, <1>5, <2>1 DEF Steady, OneTask, StarTask
  <2>3. RestAgrees(t)'
    BY <1>1, <1>3, <1>4, <2>1 DEF Steady, TaskAgrees, RestAgrees, Same, starVars
  <2>4. QED
    BY <2>2, <2>3 DEF Steady, OneTask
<1>7. StarFine(t)'
  BY <1>3, <1>4, <1>6 DEF StarFine, DrawnOpen, AsksDrawn
<1>8. ASSUME NEW y \in Tabs \ {t} PROVE StarFine(y)'
  <2>1. OfTab(NoTask, t) /\ OfTab(req[s], t)
    BY <1>1 DEF OfTab, StarTask
  <2>2. QED
    BY <1>1, <1>4, <2>1, OtherTabs DEF starVars
<1>9. QED
  BY <1>7, <1>8 DEF StarInv

(* The handlers of the stars: the page that asked, and every other one. *)
LEMMA ListStars ==
    ASSUME PortalInv, StarInv, NEW s \in Slots, list_stars(s)
    PROVE  StarInv'
<1> DEFINE f == starred[req[s].user]
           r == [req[s] EXCEPT !.found = f]
           x == IF req[s].tab = NoTab THEN NoTask ELSE Done(r)
<1>1. /\ req[s] \in TaskRec /\ req[s] # NoTask /\ req[s].kind = "stars" /\ UNCHANGED <<tab, starVars>>
      /\ ReqFine(req[s], tab, accepted, owner, mishap) /\ req' = [req EXCEPT ![s] = x]
      /\ f \in SUBSET Shown
  BY AskedFine DEF list_stars, Asked, OnlyServer, Reply, Done, PortalInv, Stores, Shown
<1>2. /\ r \in TaskRec /\ r.kind = "stars" /\ r.tab = req[s].tab /\ r.found = f
  BY <1>1 DEF TaskRec
<1> HIDE DEF r
<1>3. Done(r).kind = "stars" /\ Done(r).tab = req[s].tab /\ Done(r).found = f /\ Done(r).ok /\ Done(r).st = "done"
  <2>1. Done(r).st = "done"
    BY <1>2 DEF Done, TaskRec
  <2>2. QED
    BY <1>2, <2>1, DoneFields
<1>4. Done(r) # NoTask
  BY <1>3 DEF NoTask
<1>5. \A z \in Slots : req'[z] = IF z = s THEN x ELSE req[z]
  BY <1>1 DEF PortalInv, ReqsFine
<1>6. ASSUME NEW t \in Tabs, t = req[s].tab PROVE StarFine(t)'
  <2>1. tab[t].user = req[s].user /\ x = Done(r) /\ StarFine(t)
    BY <1>1, <1>6, SessionAssumption DEF ReqFine, Belongs, StarInv
  <2> HIDE DEF x
  <2>2. \A z \in Slots : StarTask(z, t)' <=> StarTask(z, t)
    BY <1>1, <1>3, <1>4, <1>5, <1>6, <2>1 DEF StarTask
  <2>3. \A z \in Slots : TaskAgrees(z, t) => TaskAgrees(z, t)'
    BY <1>1, <1>3, <1>5, <2>1 DEF TaskAgrees, Same, starVars
  <2>4. Kept(t)
    BY <1>1, <2>2, <2>3 DEF Kept
  <2>5. QED
    BY <1>1, <2>1, <2>4, KeptFine DEF starVars
<1>7. OfTab(x, req[s].tab) /\ OfTab(req[s], req[s].tab)
  BY <1>3 DEF OfTab
<1> HIDE DEF x
<1>8. ASSUME NEW t \in Tabs, t # req[s].tab PROVE StarFine(t)'
  <2>1. \A z \in Slots : StarTask(z, t) \/ StarTask(z, t)' => req'[z] = req[z]
    BY <1>5, <1>7, <1>8 DEF StarTask, OfTab
  <2>2. QED
    BY <1>1, <2>1, UntouchedFine DEF StarInv, starVars
<1>9. QED
  BY <1>6, <1>8 DEF StarInv

LEMMA ToggleStars ==
    ASSUME PortalInv, StarInv, NEW s \in Slots, toggle_star(s)
    PROVE  StarInv'
<1> DEFINE x == IF req[s].tab = NoTab THEN NoTask ELSE Done(req[s])
<1>1. /\ req[s] \in TaskRec /\ req[s] # NoTask /\ req[s].kind = "toggle" /\ UNCHANGED tab
      /\ req' = [req EXCEPT ![s] = x] /\ req[s].user \in Users /\ starred \in [Users -> SUBSET Domains]
      /\ starred' = [starred EXCEPT ![req[s].user] = Toggled(req[s].user, req[s].about)]
      /\ astray' = astray \cup Others(req[s].user, req[s].tab)
  BY AskedFine DEF toggle_star, Asked, OnlyServer, Reply, Done, PortalInv, Stores
<1>2. Done(req[s]).kind = "toggle" /\ Done(req[s]).tab = req[s].tab /\ Done(req[s]).ok /\ Done(req[s]).st = "done"
  <2>1. Done(req[s]).st = "done"
    BY <1>1 DEF Done, TaskRec
  <2>2. QED
    BY <1>1, <2>1, DoneFields
<1>3. Done(req[s]) # NoTask
  BY <1>2 DEF NoTask
<1>4. \A z \in Slots : req'[z] = IF z = s THEN x ELSE req[z]
  BY <1>1 DEF PortalInv, ReqsFine
<1>5. ASSUME NEW t \in Tabs, t = req[s].tab PROVE StarFine(t)'
  <2>1. x = Done(req[s]) /\ StarFine(t) /\ StarTask(s, t)
    BY <1>1, <1>5, SessionAssumption DEF StarInv, StarTask
  <2> HIDE DEF x
  <2>2. \A z \in Slots : StarTask(z, t)' <=> StarTask(z, t)
    BY <1>1, <1>2, <1>3, <1>4, <1>5, <2>1 DEF StarTask
  <2>3. ASSUME t \notin astray' PROVE Steady(t)'
    <3>1. Steady(t)
      BY <1>1, <2>1, <2>3 DEF StarFine
    <3>2. \A z \in Slots : StarTask(z, t)' => z = s
      BY <2>1, <2>2, <3>1 DEF Steady, OneTask
    <3>3. OneTask(t)' /\ RestAgrees(t)'
      BY <2>1, <2>2, <3>2 DEF OneTask, RestAgrees, AtWork
    <3>4. TaskAgrees(s, t)'
      BY <1>2, <1>4, <2>1 DEF TaskAgrees
    <3>5. QED
      BY <3>2, <3>3, <3>4 DEF Steady
  <2>4. QED
    BY <1>1, <2>1, <2>2, <2>3 DEF StarFine, DrawnOpen, AsksDrawn, AtWork
<1>6. OfTab(x, req[s].tab)
  BY <1>2 DEF OfTab
<1> HIDE DEF x
<1>7. ASSUME NEW t \in Tabs, t # req[s].tab PROVE StarFine(t)'
  <2>1. \A z \in Slots : StarTask(z, t) \/ StarTask(z, t)' => req'[z] = req[z]
    BY <1>4, <1>6, <1>7 DEF StarTask, OfTab
  <2>2. t \notin astray' => starred'[tab[t].user] = starred[tab[t].user]
    BY <1>1, <1>7 DEF Others
  <2>3. QED
    BY <1>1, <2>1, <2>2, UntouchedFine DEF StarInv
<1>8. QED
  BY <1>5, <1>7 DEF StarInv

LEMMA ClaimStars ==
    ASSUME PortalInv, StarInv, NEW u \in Users, NEW d \in Domains, claim_anon_stars(u, d)
    PROVE  StarInv'
<1>1. /\ UNCHANGED <<tab, req>> /\ astray' = astray \cup Others(u, NoTab)
      /\ starred' = [starred EXCEPT ![u] = @ \cup {d}] /\ starred \in [Users -> SUBSET Domains]
  BY DEF claim_anon_stars, vars, PortalInv, Stores
<1>2. ASSUME NEW t \in Tabs PROVE StarFine(t)'
  <2>1. t \notin astray' => starred'[tab[t].user] = starred[tab[t].user]
    BY <1>1, SessionAssumption DEF Others
  <2>2. QED
    BY <1>1, <2>1, UntouchedFine DEF StarInv
<1>3. QED
  BY <1>2 DEF StarInv

LEMMA StarInvKept == PortalInv /\ StarInv /\ [StarNext]_allVars => StarInv'
<1> SUFFICES ASSUME PortalInv, StarInv, [StarNext]_allVars PROVE StarInv'
  OBVIOUS
<1>1. ASSUME Next, UNCHANGED starVars PROVE StarInv'
  <2>1. CASE Deploy
    <3>1. ASSUME NEW t \in Tabs PROVE StarFine(t)'
      BY <1>1, <2>1, UntouchedFine DEF Deploy, StarInv, starVars
    <3>2. QED
      BY <3>1 DEF StarInv
  <2>2. ASSUME NEW t \in plot.tabs, Visit(t) \/ AuthSettles(t) PROVE StarInv'
    BY <1>1, <2>2, PlotTypes, VisitStars, SettlesStars
  <2>3. ASSUME NEW s \in Slots, Serve(s) PROVE StarInv'
    BY <1>1, <2>3, RefusedStars, ServeStars DEF Serve
  <2>4. ASSUME NEW s \in Slots, Take(s) PROVE StarInv'
    BY <1>1, <2>4, SessionLandsStars, AcceptEndsStars, ClaimEndsStars, MineEndsStars DEF Take
  <2>5. ASSUME NEW s \in Slots, NEW t \in Tabs, fetchSession(s, t) \/ handleAccept(s, t) \/ load(s, t)
        PROVE  StarInv'
    BY <1>1, <2>5, AskStars
  <2>6. QED
    BY <1>1, <2>1, <2>2, <2>3, <2>4, <2>5 DEF Next
<1>2. CASE StarStep
  <2>1. ASSUME NEW s \in Slots, toggle_star(s) \/ list_stars(s) PROVE StarInv'
    BY <2>1, ToggleStars, ListStars
  <2>2. ASSUME NEW s \in Slots, NEW t \in plot.tabs,
               \/ mount(s, t) \/ RefreshEnds(s, t) \/ ToggleEnds(s, t)
               \/ \E d \in Domains : unstar(s, t, d)
        PROVE  StarInv'
    BY <2>2, PlotTypes, MountStars, RefreshEndsStars, ToggleEndsStars, UnstarStars
  <2>3. ASSUME NEW u \in plot.users, NEW d \in Domains, claim_anon_stars(u, d) PROVE StarInv'
    BY <2>3, PlotTypes, ClaimStars
  <2>4. QED
    BY <1>2, <2>1, <2>2, <2>3 DEF StarStep
<1>3. CASE UNCHANGED allVars
  <2>1. ASSUME NEW t \in Tabs PROVE StarFine(t)'
    BY <1>3, UntouchedFine DEF allVars, vars, starVars, StarInv
  <2>2. QED
    BY <2>1 DEF StarInv
<1>4. QED
  BY <1>1, <1>2, <1>3 DEF StarNext

(* What holds of the starred page of every tab at every moment. *)
THEOREM StarsInvariant == StarSpec => []StarInv
<1>1. StarInit => StarInv
  <2>1. ASSUME StarInit, NEW t \in Tabs PROVE StarFine(t)
    <3>1. tab[t] = Fresh("usage") /\ \A s \in Slots : req[s] = NoTask
      BY <2>1 DEF StarInit, Init
    <3>2. ~AtWork(t) /\ tab[t].view = "none"
      BY <3>1 DEF AtWork, StarTask, Fresh
    <3>3. QED
      BY <3>2 DEF StarFine, DrawnOpen, AsksDrawn, AtWork, Steady, OneTask, RestAgrees
  <2>2. QED
    BY <2>1 DEF StarInv
<1>2. QED
  BY <1>1, StarInvKept, PortalSafe, PTL DEF StarSpec

(* A starred page at rest shows what is stored, in any number of tabs. *)
THEOREM StarsAgreeHolds == StarSpec => []StarsAgree
<1>1. StarInv => StarsAgree
  BY DEF StarInv, StarFine, Steady, RestAgrees, Same, StarsAgree
<1>2. QED
  BY <1>1, StarsInvariant, PTL

(* No press on a starred page stars anything. *)
THEOREM UnstarOnlyRemovesHolds == StarSpec => UnstarOnlyRemoves
<1> DEFINE Removes == \A t \in Tabs : OnStarred(t) /\ t \notin astray \cup astray' =>
                         starred'[tab[t].user] \subseteq starred[tab[t].user]
<1>1. ASSUME PortalInv, StarInv, StarNext PROVE Removes
  <2> SUFFICES ASSUME NEW t \in Tabs, t \notin astray \cup astray', ~UNCHANGED starred
               PROVE  starred'[tab[t].user] \subseteq starred[tab[t].user]
    OBVIOUS
  <2>1. starred \in [Users -> SUBSET Domains]
    BY <1>1 DEF PortalInv, Stores
  <2>2. ASSUME NEW s \in Slots, toggle_star(s) PROVE starred'[tab[t].user] \subseteq starred[tab[t].user]
    <3>1. /\ req[s] # NoTask /\ req[s].kind = "toggle" /\ req[s].st = "sent" /\ req[s].user \in Users
          /\ starred' = [starred EXCEPT ![req[s].user] = Toggled(req[s].user, req[s].about)]
          /\ astray' = astray \cup Others(req[s].user, req[s].tab)
      BY <1>1, <2>2, AskedFine DEF toggle_star, Asked
    <3>2. CASE t = req[s].tab
      <4>1. TaskAgrees(s, t)
        BY <1>1, <3>1, <3>2 DEF StarInv, StarFine, Steady, StarTask
      <4>2. req[s].about \in starred[tab[t].user]
        BY <3>1, <4>1 DEF TaskAgrees, Same
      <4>3. tab[t].user = req[s].user
        BY <1>1, <3>1, <3>2, AskedFine DEF ReqFine, Belongs
      <4>4. QED
        BY <2>1, <3>1, <4>2, <4>3 DEF Toggled
    <3>3. CASE t # req[s].tab
      BY <2>1, <3>1, <3>3 DEF Others
    <3>4. QED
      BY <3>2, <3>3
  <2>3. ASSUME NEW u \in plot.users, NEW d \in Domains, claim_anon_stars(u, d)
        PROVE  starred'[tab[t].user] \subseteq starred[tab[t].user]
    BY <2>1, <2>3, SessionAssumption DEF claim_anon_stars, Others
  <2>4. CASE Next /\ UNCHANGED starVars
    BY <2>4 DEF starVars
  <2>5. ASSUME NEW s \in Slots, NEW y \in plot.tabs,
               \/ mount(s, y) \/ RefreshEnds(s, y) \/ ToggleEnds(s, y)
               \/ \E d \in Domains : unstar(s, y, d)
        PROVE  UNCHANGED starred
    BY <2>5 DEF mount, RefreshEnds, ToggleEnds, unstar, starVars
  <2>6. ASSUME NEW s \in Slots, list_stars(s) PROVE UNCHANGED starred
    BY <2>6 DEF list_stars, starVars
  <2>7. QED
    BY <1>1, <2>2, <2>3, <2>4, <2>5, <2>6 DEF StarNext, StarStep
<1>2. UNCHANGED allVars => Removes
  BY DEF allVars, starVars
<1>3. QED
  BY <1>1, <1>2, PortalSafe, StarsInvariant, PTL DEF StarSpec, UnstarOnlyRemoves
=============================================================================
