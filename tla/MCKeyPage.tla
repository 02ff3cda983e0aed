------------------------------- MODULE MCKeyPage -------------------------------
(* Instances of Accounts and KeyPage for TLC: two accounts that use the API,
   or one that uses the page.                                              *)
EXTENDS KeyPage, TLC

CONSTANTS u1, u2, u3, c1, c2, s1, s2

MCLinks == {<<u1, u2>>}
Pairs(S) == {u1 :> s[1] @@ u2 :> s[2] @@ u3 :> {} : s \in S}
MCScenarios ==
    Pairs({<<{"create", "rotate", "checkout", "outage"}, {"create"}>>,
           <<{"create", "confirm"}, {"create", "setup_card"}>>,
           <<{}, {"create", "checkout", "setup_card", "cancel"}>>,
           <<{"create", "checkout", "switch"}, {}>>,
           <<{}, {"create", "checkout", "again", "cancel"}>>})
    \cup
    {u1 :> {} @@ u2 :> {} @@ u3 :> s : s \in
        {{"create", "docs"}, {"rotate", "disable"}, {"rotate", "docs"}, {"disable", "docs"}}}

(* Stripe is up, the account buys one plan with or without a card. *)
MCPaidScenarios ==
    Pairs({<<{"create", "rotate", "checkout"}, {"create"}>>,
           <<{}, {"create", "checkout", "setup_card", "cancel"}>>})
MCMaxKeys == u1 :> 2 @@ u2 :> 1 @@ u3 :> 3
MCSymmetry == Permutations(Calls) \cup Permutations(Subs)
=============================================================================
