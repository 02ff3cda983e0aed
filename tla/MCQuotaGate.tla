----------------------------- MODULE MCQuotaGate -----------------------------
(* Small instances of QuotaGate for TLC.                                   *)
EXTENDS QuotaGate

CONSTANTS p1, p2

\* One month, and a month that ends after minute 0.
OneMonth == [m \in Minutes |-> 0]
MonthEnds == [m \in Minutes |-> IF m = 0 THEN 0 ELSE 1]
=============================================================================
