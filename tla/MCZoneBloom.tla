----------------------------- MODULE MCZoneBloom -----------------------------
(* A small instance of ZoneBloom for TLC: words of two digits to the base
   four, two hash functions, and two names whose positions differ between the
   languages.                                                              *)
EXTENDS ZoneBloom

SmallHash == [n \in Names |-> IF n = "known" THEN <<5, 14>> ELSE <<2, 7>>]
SmallReverse == [w \in 0..15 |-> (w % 4) * 4 + w \div 4]
=============================================================================
