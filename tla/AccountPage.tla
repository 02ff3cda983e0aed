------------------------------ MODULE AccountPage ------------------------------
(* What the pages of the portal have in common: the account of the tab, whose
   requests they send and await, and what they can not write themselves.      *)
EXTENDS Accounts

CONSTANT Me      \* the account of the tab

ASSUME PageAssumption == Me \in Watchers

backVars == <<keys, cards, subs, method, sessions, events, wants, historyVars>>

(* A request of the account itself. *)
OwnCall(c) == call[c] # Idle /\ call[c].user = Me /\ call[c].op # "webhook"
=============================================================================
