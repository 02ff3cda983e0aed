------------------------------ MODULE BulkCheck ------------------------------
(***************************************************************************)
(* What the job pipeline promises the sender of a bulk check: one reply    *)
(* per request; at most one result array is ever published for an open     *)
(* request; a 200 reply is that array; and an array holds, at each         *)
(* position, the result of that position's domain or a placeholder.        *)
(***************************************************************************)
EXTENDS Naturals

CONSTANTS Jobs, Lengths   \* requests, and lengths an array may have

VARIABLES published,      \* the array of each request, <<>> while there is none
          reply           \* what its sender was told
bvars == <<published, reply>>

Arrays == UNION {{[i \in 1..n |-> IF i \in known THEN i ELSE 0] : known \in SUBSET (1..n)} :
                   n \in Lengths}
Open(j) == reply[j].code = "none"

BCInit ==
    /\ published = [j \in Jobs |-> <<>>]
    /\ reply = [j \in Jobs |-> [code |-> "none", results |-> <<>>]]

(* A worker publishes the array, at most once while the request is open. *)
PublishArray(j) ==
    /\ published[j] = <<>>
    /\ \E r \in Arrays : published' = [published EXCEPT ![j] = r]
    /\ UNCHANGED reply

Send(j, code, res) ==
    /\ Open(j)
    /\ reply' = [reply EXCEPT ![j] = [code |-> code, results |-> res]]

(* A 200 reply is the published array. *)
ReplyOk(j) ==
    /\ published[j] # <<>>
    /\ Send(j, "ok", published[j])
    /\ UNCHANGED published

(* A partial reply holds what the sub-jobs have so far. *)
ReplyPartial(j) ==
    /\ \E r \in Arrays \cup {<<>>} : Send(j, "partial", r)
    /\ UNCHANGED published

(* Any other reply has no results; a failed enqueue withdraws the job. *)
Refuse(j) ==
    /\ \E code \in {"failed", "timeout", "unavailable", "error", "lost"} : Send(j, code, <<>>)
    /\ \/ UNCHANGED published
       \/ published' = [published EXCEPT ![j] = <<>>]

(* The array of a request that was answered expires. *)
Retire(j) ==
    /\ ~Open(j)
    /\ published' = [published EXCEPT ![j] = <<>>]
    /\ UNCHANGED reply

BCNext == \E j \in Jobs :
    PublishArray(j) \/ ReplyOk(j) \/ ReplyPartial(j) \/ Refuse(j) \/ Retire(j)

BCSpec == BCInit /\ [][BCNext]_bvars
=============================================================================
