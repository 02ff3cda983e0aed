---------------------------- MODULE MCBillingPages ----------------------------
(* An instance of BillingPages for TLC. *)
EXTENDS BillingPages, TLC

CONSTANTS u1

MCMaxKeys == u1 :> 1
MCScenarios ==
    {u1 :> s : s \in {{"pricing", "checkout"}, {"pricing", "usage", "cancel"},
                      {"pricing", "usage", "setup_card"}, {"pricing", "usage", "login"},
                      {"card", "usage"}, {"usage", "setup_card", "create"}}}
=============================================================================
