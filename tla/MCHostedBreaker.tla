--------------------------- MODULE MCHostedBreaker ---------------------------
(* Small instances of HostedBreaker for TLC.                               *)
EXTENDS HostedBreaker

CONSTANTS p1, p2, c1, c2, c3
=============================================================================
