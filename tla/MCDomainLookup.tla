---------------------------- MODULE MCDomainLookup ----------------------------
(* A small instance of DomainLookup for TLC: times to live in the order
   5 min < 6 h, 24 h, 25 h < 3 d, 7 d.                                     *)
EXTENDS DomainLookup, TLC

CONSTANTS l1, l2

Available == [l \in AllLangs |-> IF l = "go" THEN 3 ELSE 1]
Registered == [l \in AllLangs |-> 2]

LookupSymmetry == Permutations({l1, l2})
=============================================================================
