---------------------------- MODULE MCStarredPage -----------------------------
(* An instance of StarredPage and PortalSession for TLC. *)
EXTENDS StarredPage, TLC

CONSTANTS u1, u2, t1, t2, v1, v2

MCLinks == {<<u1, u2>>}
MCPlots ==
    {[what |-> {}, tabs |-> {t1, t2}, users |-> {u1}, vids |-> {v1, v2}, pages |-> {}],
     [what |-> {"switch"}, tabs |-> {t1}, users |-> {u1, u2}, vids |-> {v1},
      pages |-> {"history"}],
     [what |-> {"accept", "deploy"}, tabs |-> {t1}, users |-> {u1, u2}, vids |-> {},
      pages |-> {"usage", "pricing"}],
     [what |-> {"star"}, tabs |-> {t1}, users |-> {u1}, vids |-> {}, pages |-> {"starred", "pricing"}]}
=============================================================================
