-------------------------------- MODULE KeyPage --------------------------------
(***************************************************************************)
(* The portal's API keys page in one tab (ApiKeysPage.tsx) with the key    *)
(* endpoints of Accounts behind it, and the keys page of the docs portal   *)
(* (zudoku.config.tsx) in another.  A handler of the page is a task that   *)
(* sends its request, and the list request after it, through one slot.     *)
(***************************************************************************)
EXTENDS AccountPage

VARIABLES
    shown,     \* keys, the rows on the page
    ui,        \* its other React state
    task,      \* the handler under way in each slot
    body,      \* the list in an answer to GET /api/keys: which keys are active
    excuse,    \* history: what may have made the page wrong since it was loaded
    made,      \* history: new keys the page was given
    seen       \* history: new keys that were on the screen

tabVars == <<shown, ui, task, excuse, made, seen>>
keyPageVars == <<vars, tabVars, body>>

NoTask == [h |-> "none"]
NoConfirm == [what |-> "none", key |-> 0]
Fresh == [loading |-> TRUE, asked |-> FALSE, error |-> FALSE, form |-> FALSE, creating |-> FALSE,
          revealed |-> 0, confirm |-> NoConfirm, acting |-> 0]

Drawn == ~ui.loading
Working == \E c \in Calls : task[c] # NoTask
AtRest == Drawn /\ ~Working /\ ~ui.error

-----------------------------------------------------------------------------
(* A handler begins with its request, or with the token it needs first; one
   that begins while another runs overlaps with it.                        *)
Begin(c, h, k) ==
    /\ task[c] = NoTask
    /\ task' = [task EXCEPT ![c] = [h |-> h, key |-> k, at |-> "request"]]
    /\ excuse' = IF Working THEN excuse \cup {"overlap"} ELSE excuse
    /\ Send(c, h, Me, k, "free")
    /\ UNCHANGED <<shown, body, made, backVars>>

fetchKeys(c) == call' = [call EXCEPT ![c] = NewCall("list", Me, 0, "free", NoEvent)]

Mount(c) ==
    /\ wants[Me] # {} /\ ~ui.asked /\ task[c] = NoTask /\ call[c] = Idle
    /\ task' = [task EXCEPT ![c] = [h |-> "mount", key |-> 0, at |-> "list"]]
    /\ ui' = [ui EXCEPT !.asked = TRUE]
    /\ fetchKeys(c)
    /\ UNCHANGED <<shown, body, excuse, made, backVars>>

(* Create, or Enter in the form, which does not look at creating. *)
handleCreate(c) ==
    /\ Drawn /\ ui.form /\ "create" \in wants[Me]
    /\ ui' = [ui EXCEPT !.creating = TRUE]
    /\ \/ Begin(c, "create", 0)
       \/ /\ task[c] = NoTask /\ call[c] = Idle
          /\ task' = [task EXCEPT ![c] = [h |-> "create", key |-> 0, at |-> "token"]]
          /\ excuse' = IF Working THEN excuse \cup {"overlap"} ELSE excuse
          /\ UNCHANGED <<call, shown, body, made, backVars>>

(* getTurnstileToken resolves, with a token or without; or never does. *)
getTurnstileToken(c) ==
    /\ task[c] # NoTask /\ task[c].at = "token"
    /\ task' = [task EXCEPT ![c].at = "request"]
    /\ Send(c, "create", Me, 0, "free")
    /\ UNCHANGED <<shown, ui, body, excuse, made, backVars>>

handleRotate(c, k) ==
    /\ Drawn /\ ui.confirm = [what |-> "rotate", key |-> k] /\ ui.acting # k
    /\ ui' = [ui EXCEPT !.acting = k]
    /\ Begin(c, "rotate", k)

(* Every row on the page is active, so that it can only be disabled. *)
handleToggleDisable(c, k) ==
    /\ Drawn /\ ui.confirm = [what |-> "disable", key |-> k] /\ ui.acting # k
    /\ ui' = [ui EXCEPT !.acting = k]
    /\ Begin(c, "disable", k)

(* The buttons that change the page only. *)
Press ==
    /\ Drawn
    /\ \/ /\ "create" \in wants[Me] /\ ui' = [ui EXCEPT !.form = ~@]       \* Create Key, Cancel
       \/ \E k \in shown :
             /\ "rotate" \in wants[Me] /\ ui.confirm.key # k
             /\ ui' = [ui EXCEPT !.confirm = [what |-> "rotate", key |-> k]]
       \/ \E k \in shown :
             /\ "disable" \in wants[Me] /\ ui.confirm.key # k /\ ui.acting # k
             /\ ui' = [ui EXCEPT !.confirm = [what |-> "disable", key |-> k]]
       \/ ui.confirm # NoConfirm /\ ui' = [ui EXCEPT !.confirm = NoConfirm]      \* No
       \/ ui.error /\ ui' = [ui EXCEPT !.error = FALSE]                         \* Dismiss
       \/ ui.revealed # 0 /\ ui' = [ui EXCEPT !.revealed = 0]
    /\ UNCHANGED <<shown, task, body, excuse, made, call, backVars>>

-----------------------------------------------------------------------------
(* The end of a handler; as a variant, all the state of a handler goes with it. *)
FinishedAll(c) == [ui EXCEPT !.creating = FALSE, !.acting = 0, !.revealed = 0]

Finished(c) == IF task[c].h = "create" THEN [ui EXCEPT !.creating = FALSE]
               ELSE [ui EXCEPT !.acting = 0]

AnswerRead(c, s) == task[c] # NoTask /\ task[c].at = s /\ call[c].st = "done"

(* The request of a handler is answered: the new key is revealed, the dialog
   closed, and the list asked for again.                                   *)
MutationDone(c) ==
    /\ AnswerRead(c, "request") /\ call[c].ok
    /\ LET new == IF task[c].h = "disable" THEN ui.revealed ELSE call[c].new IN
       /\ ui' = [ui EXCEPT !.revealed = new, !.loading = TRUE, !.error = FALSE,
                           !.form = IF task[c].h = "create" THEN FALSE ELSE @,
                           !.confirm = IF @.what = task[c].h THEN NoConfirm ELSE @]
       /\ made' = made \cup ({new} \ {0})
    /\ task' = [task EXCEPT ![c].at = "list"]
    /\ fetchKeys(c)
    /\ UNCHANGED <<shown, body, excuse, backVars>>

(* Refused, or the answer lost: an error, and no new list. *)
MutationFailed(c) ==
    /\ AnswerRead(c, "request")
    /\ ui' = [Finished(c) EXCEPT !.error = TRUE]
    /\ task' = [task EXCEPT ![c] = NoTask] /\ call' = [call EXCEPT ![c] = Idle]
    /\ excuse' = IF call[c].ok THEN excuse \cup {"lost"} ELSE excuse
    /\ UNCHANGED <<shown, body, made, backVars>>

(* Variant: new rows are added to those of the page. *)
ListedToo(c) == shown \cup {k \in DOMAIN body[c] : body[c][k]}

Listed(c) == {k \in DOMAIN body[c] : body[c][k]}

(* setKeys of the active ones, and the end of the handler *)
ListArrives(c, good) ==
    /\ AnswerRead(c, "list")
    /\ shown' = IF good THEN Listed(c) ELSE shown
    /\ ui' = [(IF task[c].h = "mount" THEN ui ELSE Finished(c)) EXCEPT
                 !.loading = FALSE, !.error = @ \/ ~good]
    /\ task' = [task EXCEPT ![c] = NoTask] /\ call' = [call EXCEPT ![c] = Idle]
    /\ excuse' = IF good THEN excuse ELSE excuse \cup {"lost"}
    /\ body' = [body EXCEPT ![c] = <<>>]
    /\ UNCHANGED <<made, backVars>>

(* The page is loaded again; its requests are abandoned. *)
Reload ==
    /\ ui.asked /\ ui' = Fresh /\ shown' = {} /\ made' = {}
    /\ task' = [c \in Calls |-> NoTask]
    /\ excuse' = IF \E c \in Calls : call[c] # Idle THEN {"abandoned"} ELSE {}
    /\ UNCHANGED <<call, body, backVars>>

Forget(c) ==
    /\ task[c] = NoTask /\ call[c] # Idle /\ call[c].st = "done"
    /\ call' = [call EXCEPT ![c] = Idle] /\ body' = [body EXCEPT ![c] = <<>>]
    /\ UNCHANGED <<shown, ui, task, excuse, made, backVars>>

-----------------------------------------------------------------------------
(* The docs portal's keys page: createKey and rollKey do not keep the answer,
   and deleteKey asks for a method the API does not have.                  *)
Elsewhere == excuse' = excuse \cup {"elsewhere"} /\ UNCHANGED <<shown, ui, task, body, made, backVars>>

docsCreateKey(c) ==
    /\ {"docs", "create"} \subseteq wants[Me] /\ task[c] = NoTask
    /\ Send(c, "create", Me, 0, "free") /\ Elsewhere

docsRollKey(c, k) ==
    /\ {"docs", "rotate"} \subseteq wants[Me] /\ task[c] = NoTask
    /\ Send(c, "rotate", Me, k, "free") /\ Elsewhere

(* A client of the API itself, which alone can enable a key. *)
apiToggle(c, o, k) ==
    /\ {"docs", "disable"} \subseteq wants[Me] /\ task[c] = NoTask
    /\ Send(c, o, Me, k, "free") /\ Elsewhere

(* list_keys *)
ListKeys(c) ==
    /\ At(c, {"list"}, "sent")
    /\ body' = [body EXCEPT ![c] = [k \in ActiveKeys(call[c].user) |-> keys[k].status = "live"]]
    /\ Answer(c, TRUE)
    /\ UNCHANGED <<keys, cards, stripeVars, wants, historyVars>>

-----------------------------------------------------------------------------
(* An account that uses the page and creates no keys has one already. *)
KeyPageInit ==
    /\ \/ Init /\ wants[Me] \cap {"rotate", "disable"} = {}
       \/ /\ InitWith(<<[user |-> Me, plan |-> "free", status |-> "live"]>>, [s \in Subs |-> NoSub])
          /\ wants[Me] \cap {"rotate", "disable"} # {}
    /\ shown = {} /\ ui = Fresh /\ task = [c \in Calls |-> NoTask]
    /\ body = [c \in Calls |-> <<>>]
    /\ excuse = {} /\ made = {} /\ seen = {}

Page ==
    \/ Press \/ Reload
    \/ \E c \in Calls :
          \/ Mount(c) \/ handleCreate(c) \/ getTurnstileToken(c)
          \/ MutationDone(c) \/ MutationFailed(c) \/ Forget(c)
          \/ \E good \in BOOLEAN : ListArrives(c, good)
          \/ \E k \in shown : handleRotate(c, k) \/ handleToggleDisable(c, k)

Other ==
    \E c \in Calls :
        \/ docsCreateKey(c)
        \/ \E k \in ActiveKeys(Me) :
              docsRollKey(c, k) \/ \E o \in {"disable", "enable"} : apiToggle(c, o, k)

(* What a step draws has been seen. *)
Draw == seen' = made' \cap (seen \cup (IF ui'.loading THEN {} ELSE {ui'.revealed}))

KeyPageNext ==
    \/ (Page \/ Other) /\ Draw
    \/ (\E c \in Calls : ListKeys(c)) /\ UNCHANGED tabVars
    \/ Next /\ UNCHANGED <<tabVars, body>>              \* the API, Stripe, other accounts

KeyPageSpec == KeyPageInit /\ [][KeyPageNext]_keyPageVars

-----------------------------------------------------------------------------
Ui == [loading : BOOLEAN, asked : BOOLEAN, error : BOOLEAN, form : BOOLEAN, creating : BOOLEAN, revealed : Nat,
       confirm : [what : {"none", "rotate", "disable"}, key : Nat], acting : Nat]
Task == [h : {"mount", "create", "rotate", "disable"}, key : Nat, at : {"token", "request", "list"}]

PageTypeOK ==
    /\ shown \subseteq Nat /\ ui \in Ui
    /\ task \in [Calls -> Task \cup {NoTask}]
    /\ DOMAIN body = Calls /\ \A c \in Calls : DOMAIN body[c] \subseteq Nat

(* A page at rest shows the keys that can be used, as long as no handlers of
   it overlapped, no answer was lost and nobody else changed the keys: each
   of them asks for the list again after what it changed.                  *)
PageIsCurrent ==
    AtRest /\ excuse = {} => shown = {k \in ActiveKeys(Me) : keys[k].status = "live"}

(* "shown only once": a new key is on the screen at least once, although the
   page hides it while it loads the list, unless a second one came in then. *)
NewKeyIsSeen ==
    "overlap" \notin excuse => made \ seen \subseteq {ui.revealed}

(* Rotating is one for one: an account that creates no key has one at most,
   from wherever and however often it is rotated, disabled or enabled, unless
   the API handled two rotations of one key at a time.                     *)
RotatedOneForOne ==
    "create" \notin wants[Me] /\ raced = {} => Cardinality(ActiveKeys(Me)) <= 1

-----------------------------------------------------------------------------
(* A handler has one under way, unless it waits for its token. *)
TaskCall(c) ==
    task[c] # NoTask =>
        CASE task[c].at = "token" -> task[c].h = "create"
          [] task[c].at = "request" -> OwnCall(c) /\ call[c].op = task[c].h
          [] task[c].at = "list" -> OwnCall(c) /\ call[c].op = "list" /\ call[c].st \in {"sent", "done"}
TaskCalls == \A c \in Calls : TaskCall(c)

KeyPageInv == AccountsInv /\ PageTypeOK /\ TaskCalls

(* Why a new key is seen: without overlap the list that hides the page is
   asked for by its only handler, and comes before the next begins.        *)
AskedFirst == ~ui.asked => ui.loading /\ ~Working
OneTask == \A c, d \in Calls : task[c] # NoTask /\ task[d] # NoTask => c = d
SeenInv ==
    "overlap" \notin excuse =>
        /\ OneTask
        /\ \A c \in Calls : task[c] # NoTask /\ task[c].at # "list" => Drawn
        /\ made \ seen \subseteq {ui.revealed}
        /\ Drawn => made \subseteq seen

(* No one else rotates a key of the account. *)
OwnRotations ==
    \A c \in Calls : Making(c) /\ call[c].op = "rotate" /\ keys[call[c].key].user = Me => call[c].user = Me

(* Why rotating is one for one: it holds the only key there is. *)
MakingMine(c) == Making(c) /\ call[c].user = Me
OneKeyInv ==
    "create" \notin wants[Me] =>
        /\ \A c \in Calls : OwnCall(c) => call[c].op # "create"
        /\ \A c \in Calls : task[c] # NoTask => task[c].at # "token"
        /\ raced = {} =>
              /\ \A j, k \in ActiveKeys(Me) : j = k
              /\ \A c \in Calls : MakingMine(c) => ActiveKeys(Me) \subseteq {call[c].key}
              /\ \A c, d \in Calls : MakingMine(c) /\ MakingMine(d) => c = d

(* Why the page is current: only its handler changes the keys, and has the
   list asked for before it ends.                                          *)
LiveKeys == {k \in ActiveKeys(Me) : keys[k].status = "live"}
Unsettled(c) ==
    /\ task[c] # NoTask
    /\ task[c].at = "list" \/ (task[c].at = "request" /\ call[c].st = "done" /\ call[c].ok)
CurrentInv ==
    excuse = {} =>
        /\ \A c \in Calls : OwnCall(c) => task[c] # NoTask /\ task[c].at # "token"
        /\ \A c \in Calls : task[c] # NoTask /\ task[c].at = "list" /\ call[c].st = "done" => Listed(c) = LiveKeys
        /\ shown = LiveKeys \/ (\E c \in Calls : Unsettled(c)) \/ (~Working /\ ~Drawn)
=============================================================================
