---------------------------- MODULE MCJobPipeline ----------------------------
(* Small instances of JobPipeline for TLC.                                 *)
EXTENDS JobPipeline, TLC

CONSTANTS j1, j2, w1, w2

TwoLists == [p \in Parts |-> p]
OneList == [p \in Parts |-> "rdap"]

\* One worker per list, and two workers on one list.
OnePerList == (w1 :> "rdap") @@ (w2 :> "whois")
BothOnOne == (w1 :> "rdap") @@ (w2 :> "rdap")

EachOnce == [f \in Faults |-> 1]
Only(kind, n) == [f \in Faults |-> IF f = kind THEN n ELSE 0]
WorkerErrorOnce == Only("worker", 1)
ApiErrorTwice == Only("api", 2)
=============================================================================
