------------------------------ MODULE StarredPage ------------------------------
(***************************************************************************)
(* The portal's starred page (StarredPage.tsx) behind the gate of          *)
(* PortalSession, with the star handlers of the API (portal.py,            *)
(* name_starred.py).  The star store is a library of another repository:   *)
(* it lists, toggles, and tells its subscribers of a toggle that succeeded. *)
(***************************************************************************)
EXTENDS PortalSession

CONSTANT Domains

VARIABLES
    starred,   \* starred_domains
    astray     \* history: tabs whose toggles overlapped, failed, or had company

starVars == <<starred, astray>>
allVars == <<vars, starVars>>

StarTask(s, t) == req[s] # NoTask /\ req[s].kind \in {"stars", "toggle"} /\ req[s].tab = t
AtWork(t) == \E s \in Slots : StarTask(s, t)
Others(u, t) == {x \in Tabs \ {t} : tab[x].user = u}
OnStarred(t) == Open(tab[t]) /\ tab[t].page = "starred"
StarOnly == UNCHANGED <<serverVars, browserVars, plot, historyVars>>

-----------------------------------------------------------------------------
(* The effect of the page: its stars, once it is mounted. *)
mount(s, t) ==
    /\ OnStarred(t) /\ tab[t].view = "none"
    /\ Ask(s, "stars", t, "all")
    /\ SetTab(t, [tab[t] EXCEPT !.view = "loading"])
    /\ astray' = astray \ {t}
    /\ StarOnly /\ UNCHANGED starred

(* Every star on the page can be pressed again while it is toggled. *)
unstar(s, t, d) ==
    /\ OnStarred(t) /\ tab[t].view = "lists" /\ d \in tab[t].lists
    /\ Ask(s, "toggle", t, d)
    /\ astray' = astray \cup (IF AtWork(t) THEN {t} ELSE {})
    /\ StarOnly /\ UNCHANGED <<tab, starred>>

(* toggle_star: what is there is deleted, what is not is inserted. *)
Toggled(u, d) == IF d \in starred[u] THEN starred[u] \ {d} ELSE starred[u] \cup {d}
toggle_star(s) ==
    /\ Asked(s, "toggle")
    /\ starred' = [starred EXCEPT ![req[s].user] = Toggled(req[s].user, req[s].about)]
    /\ Reply(s, req[s])
    /\ astray' = astray \cup Others(req[s].user, req[s].tab)
    /\ UNCHANGED <<serverVars, historyVars>> /\ OnlyServer

list_stars(s) ==
    /\ Asked(s, "stars")
    /\ Reply(s, [req[s] EXCEPT !.found = starred[req[s].user]])
    /\ UNCHANGED <<serverVars, historyVars, starVars>> /\ OnlyServer

(* claim_anon_stars: stars of another browser arrive with its sign-in. *)
claim_anon_stars(u, d) ==
    /\ "star" \in plot.what /\ d \notin starred[u]
    /\ starred' = [starred EXCEPT ![u] = @ \cup {d}]
    /\ astray' = astray \cup Others(u, NoTab)
    /\ UNCHANGED vars

(* Variant: what is found is added. *)
RefreshAdds(s, t) ==
    /\ Answered(s, "stars", t)
    /\ \E good \in Good(s) :
          SetTab(t, CASE ~good -> [tab[t] EXCEPT !.view = "error"]
                      [] tab[t].view = "error" -> tab[t]
                      [] OTHER -> [tab[t] EXCEPT !.view = "lists", !.lists = @ \cup req[s].found])
    /\ req' = [req EXCEPT ![s] = NoTask]
    /\ StarOnly /\ UNCHANGED starVars

(* A refresh shows what it got; an error stays until the page is left. *)
RefreshEnds(s, t) ==
    /\ Answered(s, "stars", t)
    /\ \E good \in Good(s) :
          SetTab(t, CASE ~good -> [tab[t] EXCEPT !.view = "error"]
                      [] tab[t].view = "error" -> tab[t]
                      [] OTHER -> [tab[t] EXCEPT !.view = "lists", !.lists = req[s].found])
    /\ req' = [req EXCEPT ![s] = NoTask]
    /\ StarOnly /\ UNCHANGED starVars

(* A toggle that succeeded refreshes the page, one that failed is ignored. *)
ToggleEnds(s, t) ==
    /\ Answered(s, "toggle", t)
    /\ \E good \in Good(s) :
          /\ req' = [req EXCEPT ![s] = IF good THEN NewTask("stars", t, "all") ELSE NoTask]
          /\ astray' = astray \cup (IF req[s].ok /\ ~good THEN {t} ELSE {})
    /\ StarOnly /\ UNCHANGED <<tab, starred>>

-----------------------------------------------------------------------------
StarInit ==
    /\ Init /\ astray = {}
    /\ starred = [u \in Users |-> IF "star" \in plot.what THEN Domains ELSE {}]

StarStep ==
    \/ \E s \in Slots : toggle_star(s) \/ list_stars(s)
    \/ \E s \in Slots, t \in plot.tabs :
          \/ mount(s, t) \/ RefreshEnds(s, t) \/ ToggleEnds(s, t)
          \/ \E d \in Domains : unstar(s, t, d)
    \/ \E u \in plot.users, d \in Domains : claim_anon_stars(u, d)

StarNext == (Next /\ UNCHANGED starVars) \/ StarStep

StarSpec == StarInit /\ [][StarNext]_allVars /\ Fairness

-----------------------------------------------------------------------------
(* A page at rest shows the stars of its account, unless its toggles
   overlapped, the answer to one was lost, or the account's stars changed from
   elsewhere: another tab, an anonymous claim, a toggle that outlived its page. *)
StarsAgree ==
    \A t \in Tabs : OnStarred(t) /\ tab[t].view = "lists" /\ ~AtWork(t) /\ t \notin astray =>
        tab[t].lists = starred[tab[t].user]

(* Pressing a star takes it away: while a page is open its account gets no
   star, with the same exceptions.                                         *)
UnstarOnlyRemoves ==
    [][\A t \in Tabs : OnStarred(t) /\ t \notin astray \cup astray' =>
          starred'[tab[t].user] \subseteq starred[tab[t].user]]_allVars

-----------------------------------------------------------------------------
(* Why: a page that is drawn is behind the open gate, and a tab asks for stars
   only with its page drawn.                                               *)
DrawnOpen(t) == tab[t].view # "none" => Open(tab[t]) /\ tab[t].page \in {"history", "starred"}
AsksDrawn(t) == AtWork(t) => tab[t].view # "none"

(* A tab that is not astray has one request at most, and before its toggle is
   done it shows what is stored.                                           *)
Same(t) == tab[t].view = "lists" /\ tab[t].lists = starred[tab[t].user]
OneTask(t) == \A s, z \in Slots : StarTask(s, t) /\ StarTask(z, t) => s = z
RestAgrees(t) == OnStarred(t) /\ tab[t].view = "lists" /\ ~AtWork(t) => Same(t)
TaskAgrees(s, t) ==
    /\ req[s].kind = "toggle" /\ (req[s].st = "sent" \/ ~req[s].ok) => Same(t) /\ req[s].about \in tab[t].lists
    /\ req[s].kind = "stars" /\ req[s].ok => req[s].st = "done" /\ req[s].found = starred[tab[t].user]
Steady(t) == OneTask(t) /\ RestAgrees(t) /\ \A s \in Slots : StarTask(s, t) => TaskAgrees(s, t)
StarFine(t) == DrawnOpen(t) /\ AsksDrawn(t) /\ (t \notin astray => Steady(t))
StarInv == \A t \in Tabs : StarFine(t)
=============================================================================
