----------------------------- MODULE JobPipeline -----------------------------
(***************************************************************************)
(* The bulk-check job pipeline: API handlers create job hashes in Valkey,  *)
(* push their keys on lists and poll; Go workers pop a key, check its      *)
(* domains, complete the (sub-)job and merge the sub-jobs of a split job;  *)
(* a Python worker that starts up fails every job it sees in processing.   *)
(*   API handler   backend/app.py, backend/name_gen.py, valkey_client.py   *)
(*   Go worker     cmd/worker/main.go                                      *)
(*   recovery      backend/worker.py                                       *)
(* A domain is its position in the request.  The result of checking it is  *)
(* abstracted to that position, which is what the merge has to keep right. *)
(* One action is one Valkey round trip: a pipeline or a Lua script is one  *)
(* action, and two commands sent one after the other are two.              *)
(***************************************************************************)
EXTENDS Naturals, Sequences, FiniteSets

CONSTANTS
    Jobs,         \* the requests of a behaviour (each makes one uuid)
    NoJob,        \* not a job
    N,            \* domains in a request
    SafetyCount,  \* the merge's "safety fallback" for an unreadable domain_count
    Workers,      \* Go worker processes
    Lists,        \* Valkey lists
    ListOf,       \* the list each part is pushed to (RDAP/WHOIS_QUEUE_NAME)
    WorkerList,   \* the list each worker pops
    Kinds,        \* the callers considered, a subset of {"bulk", "anon"}
    Impatient,    \* the jobs whose poll loop may run out
    Budget        \* bound on the faults of each kind in a behaviour

Parts == {"rdap", "whois"}
Faults == {"crash", "api", "worker", "recover"}

ASSUME PipelineAssumption ==
    /\ NoJob \notin Jobs
    /\ N \in Nat \ {0}
    /\ SafetyCount \in Nat \ {0}
    /\ ListOf \in [Parts -> Lists]
    /\ WorkerList \in [Workers -> Lists]
    /\ Kinds \subseteq {"bulk", "anon"}
    /\ Impatient \subseteq Jobs
    /\ Budget \in [Faults -> Nat]

VARIABLES
    hash,    \* the job hashes, by key
    queue,   \* the lists of keys waiting for a worker
    client,  \* the API handlers, by job
    worker,  \* the Go workers
    stale,   \* the key a starting Python worker has read as 'processing'
    used     \* faults so far, by kind

vars == <<hash, queue, client, worker, stale, used>>

-----------------------------------------------------------------------------
(* Keys, hashes and results.                                               *)

Keys == [job : Jobs, part : Parts \cup {"parent"}]
NoKey == [job |-> NoJob, part |-> "parent"]
Parent(j) == [job |-> j, part |-> "parent"]
Sub(j, p) == [job |-> j, part |-> p]

Positions == 1..N
Gap == 0                          \* an error or 'pending' placeholder
Outcome == Positions \cup {Gap}
Gaps(n) == [i \in 1..n |-> Gap]

(* made: the fields written at creation are there (domains, and indices and
   parent_job of a sub-job, or sub_jobs of a split parent).
   results = <<>>: the field is missing.                                   *)
Status == {"absent", "pending", "processing", "completed", "failed"}
Hash == [status : Status, made : BOOLEAN, results : Seq(Outcome), ttl : BOOLEAN]
Absent == [status |-> "absent", made |-> FALSE, results |-> <<>>, ttl |-> FALSE]
Created == [status |-> "pending", made |-> TRUE, results |-> <<>>, ttl |-> TRUE]

(* classify_domains: every position goes to exactly one batch, in request
   order.  Which one (registry entry, failure rate) is left open.          *)
Batch == {s \in UNION {[1..n -> Positions] : n \in 0..N} :
            \A a, b \in DOMAIN s : a < b => s[a] < s[b]}
In(p, s) == \E i \in DOMAIN s : s[i] = p
Splits == {sp \in [Parts -> Batch] :
            \A p \in Positions : In(p, sp["rdap"]) <=> ~In(p, sp["whois"])}
IsSplit(sp) == \A p \in Parts : sp[p] # <<>>

SubOrder == <<"rdap", "whois">>
PushOrder(sp) == CASE IsSplit(sp) -> SubOrder
                   [] sp["whois"] = <<>> -> <<"rdap">>
                   [] sp["rdap"] = <<>> -> <<"whois">>
NewKeys(j, sp) ==
    {Parent(j)} \cup (IF IsSplit(sp) THEN {Sub(j, p) : p \in Parts} ELSE {})
PushedKey(j, sp, p) == IF IsSplit(sp) THEN Sub(j, p) ELSE Parent(j)

(* The domains stored in hash k.                                           *)
DomainsOf(k) == IF k.part = "parent" THEN [i \in 1..N |-> i]
                ELSE client[k.job].route[k.part]

(* Variant: a merge that ignores the stored indices.                       *)
PlaceInOrder(merged, indices, results) ==
    [p \in DOMAIN merged |-> IF p \in DOMAIN results THEN results[p] ELSE merged[p]]

(* merged[idx] = result, for the zipped (idx, result) of a sub-job.        *)
Place(merged, indices, results) ==
    [p \in DOMAIN merged |->
        IF \E i \in DOMAIN indices \cap DOMAIN results : indices[i] = p
        THEN results[CHOOSE i \in DOMAIN indices \cap DOMAIN results : indices[i] = p]
        ELSE merged[p]]

(* What a reader of sub-job k adds to the array it is filling: nothing
   unless the hash is 'completed' and still has its indices.               *)
AddSub(merged, k) ==
    IF hash[k].status = "completed" /\ hash[k].made
    THEN Place(merged, DomainsOf(k), hash[k].results)
    ELSE merged

Spend(f) == /\ used[f] < Budget[f]
            /\ used' = [used EXCEPT ![f] = @ + 1]

-----------------------------------------------------------------------------
(* The API handler: create_split_job, then the poll loop of do_bulk_check  *)
(* ("bulk") or check_domains_anon ("anon").                                *)

NewClient == [pc |-> "idle", kind |-> "bulk", route |-> [p \in Parts |-> <<>>],
              left |-> <<>>, answer |-> "none", results |-> <<>>]

Answer(j, a, res) ==
    client' = [client EXCEPT ![j].pc = "done", ![j].left = <<>>,
                             ![j].answer = a, ![j].results = res]
GoTo(j, pc) == client' = [client EXCEPT ![j].pc = pc]

CreateHashes(j, sp) ==
    [k \in Keys |-> IF k \in NewKeys(j, sp) THEN Created ELSE hash[k]]

(* The transaction that writes the parent and its sub-jobs.                *)
Submit(j) ==
    /\ client[j].pc = "idle"
    /\ \E kind \in Kinds, sp \in Splits :
        /\ hash' = CreateHashes(j, sp)
        /\ client' = [client EXCEPT ![j] =
                        [NewClient EXCEPT !.pc = "push", !.kind = kind, !.route = sp,
                                          !.left = PushOrder(sp)]]
    /\ UNCHANGED <<queue, worker, stale, used>>

(* The transaction raises: it may have been applied, nothing is undone.    *)
SubmitError(j) ==
    /\ client[j].pc = "idle"
    /\ Spend("api")
    /\ \E kind \in Kinds, sp \in Splits :
        /\ hash' \in {hash, CreateHashes(j, sp)}
        /\ client' = [client EXCEPT ![j] =
                        [NewClient EXCEPT !.pc = "done", !.kind = kind, !.route = sp,
                                          !.answer = "unavailable"]]
    /\ UNCHANGED <<queue, worker, stale>>

Pushed(j) ==
    LET p == Head(client[j].left)
    IN  [queue EXCEPT ![ListOf[p]] = Append(@, PushedKey(j, client[j].route, p))]

Push(j) ==
    /\ client[j].pc = "push"
    /\ queue' = Pushed(j)
    /\ client' = [client EXCEPT ![j].left = Tail(@),
                                ![j].pc = IF Len(client[j].left) = 1 THEN "poll" ELSE "push"]
    /\ UNCHANGED <<hash, worker, stale, used>>

(* RPUSH raises; the list may have been pushed all the same.               *)
PushError(j) ==
    /\ client[j].pc = "push"
    /\ Spend("api")
    /\ queue' \in {queue, Pushed(j)}
    /\ client' = [client EXCEPT ![j].pc = "undo", ![j].left = <<>>]
    /\ UNCHANGED <<hash, worker, stale>>

(* The handler of a failed push deletes the hashes, whoever uses them.     *)
Undo(j) ==
    /\ client[j].pc = "undo"
    /\ hash' = [k \in Keys |-> IF k \in NewKeys(j, client[j].route) THEN Absent ELSE hash[k]]
    /\ Answer(j, "unavailable", <<>>)
    /\ UNCHANGED <<queue, worker, stale, used>>

(* What the poll loop does when it ends without results.                   *)
GiveUp(j, a) == IF client[j].kind = "anon" THEN GoTo(j, "drain") ELSE Answer(j, a, <<>>)

(* get_job_status: a missing, pending or processing job is polled again.   *)
Poll(j) ==
    /\ client[j].pc = "poll"
    /\ \/ hash[Parent(j)].status = "completed" /\ GoTo(j, "fetch")
       \/ hash[Parent(j)].status = "failed" /\ GiveUp(j, "failed")
    /\ UNCHANGED <<hash, queue, worker, stale, used>>

PollTimeout(j) ==
    /\ client[j].pc = "poll"
    /\ j \in Impatient
    /\ GiveUp(j, "timeout")
    /\ UNCHANGED <<hash, queue, worker, stale, used>>

(* get_job_results: a second round trip, after the status was read.        *)
Fetch(j) ==
    /\ client[j].pc = "fetch"
    /\ Answer(j, "ok", hash[Parent(j)].results)
    /\ UNCHANGED <<hash, queue, worker, stale, used>>

(* get_partial_job_results: the parent, then one sub-job per round trip.   *)
Drain(j) ==
    /\ client[j].pc = "drain"
    /\ IF hash[Parent(j)].made /\ IsSplit(client[j].route)
       THEN client' = [client EXCEPT ![j].pc = "drain_subs", ![j].left = SubOrder,
                                     ![j].results = Gaps(N)]
       ELSE Answer(j, "partial", hash[Parent(j)].results)
    /\ UNCHANGED <<hash, queue, worker, stale, used>>

DrainSub(j) ==
    /\ client[j].pc = "drain_subs"
    /\ LET res == AddSub(client[j].results, Sub(j, Head(client[j].left)))
       IN  IF Len(client[j].left) = 1
           THEN Answer(j, "partial", res)
           ELSE client' = [client EXCEPT ![j].left = Tail(@), ![j].results = res]
    /\ UNCHANGED <<hash, queue, worker, stale, used>>

(* A Valkey error outside the try block ends the request with a 500; one in
   the deletion replaces the exception being handled.                      *)
ClientError(j) ==
    /\ client[j].pc \in {"undo", "poll", "fetch", "drain", "drain_subs"}
    /\ Spend("api")
    /\ Answer(j, IF client[j].pc = "undo" THEN "unavailable" ELSE "error", <<>>)
    /\ UNCHANGED <<hash, queue, worker, stale>>

(* The API process dies with the request open.                             *)
ApiCrash(j) ==
    /\ client[j].pc \notin {"idle", "done", "dead"}
    /\ Spend("crash")
    /\ client' = [client EXCEPT ![j].pc = "dead", ![j].left = <<>>, ![j].results = <<>>]
    /\ UNCHANGED <<hash, queue, worker, stale>>

-----------------------------------------------------------------------------
(* The Go worker: BLPOP, processJob, mergeSubJobs, failJob.                *)

IdleWorker == [pc |-> "idle", key |-> NoKey, results |-> <<>>, todo |-> <<>>]

WorkerTo(w, pc) == worker' = [worker EXCEPT ![w].pc = pc]
WorkerIdle(w) == worker' = [worker EXCEPT ![w] = IdleWorker]
Key(w) == worker[w].key
ParentKey(w) == Parent(Key(w).job)

(* HSET of the status alone, and of status 'completed' with results: both
   make the hash again when it is gone, and leave its time to live alone.  *)
Marked(k, s) == [hash EXCEPT ![k].status = s]
Finished(k, res) == [hash EXCEPT ![k].status = "completed", ![k].results = res]
FinishedTTL(k, res) ==
    [hash EXCEPT ![k].status = "completed", ![k].results = res, ![k].ttl = TRUE]

(* Variant: the key stays on the list until the job is done.               *)
PopPeek(w) ==
    LET l == WorkerList[w] IN
    /\ worker[w].pc = "idle"
    /\ queue[l] # <<>>
    /\ worker' = [worker EXCEPT ![w] = [IdleWorker EXCEPT !.pc = "claim", !.key = Head(queue[l])]]
    /\ UNCHANGED <<queue, hash, client, stale, used>>

(* BLPOP removes the key: from here on only this worker knows about it.    *)
Pop(w) ==
    LET l == WorkerList[w] IN
    /\ worker[w].pc = "idle"
    /\ queue[l] # <<>>
    /\ worker' = [worker EXCEPT ![w] = [IdleWorker EXCEPT !.pc = "claim", !.key = Head(queue[l])]]
    /\ queue' = [queue EXCEPT ![l] = Tail(@)]
    /\ UNCHANGED <<hash, client, stale, used>>

(* The claim pipeline writes the status before it knows the hash exists.   *)
Claim(w) ==
    /\ worker[w].pc = "claim"
    /\ hash' = Marked(Key(w), "processing")
    /\ WorkerTo(w, IF hash[Key(w)].made THEN "check" ELSE "fail")
    /\ UNCHANGED <<queue, client, stale, used>>

ClaimError(w) ==
    /\ worker[w].pc = "claim"
    /\ Spend("worker")
    /\ hash' \in {hash, Marked(Key(w), "processing")}
    /\ WorkerTo(w, "fail")
    /\ UNCHANGED <<queue, client, stale>>

(* All goroutines of the job have stored their result.                     *)
Check(w) ==
    /\ worker[w].pc = "check"
    /\ worker' = [worker EXCEPT ![w].pc = "complete", ![w].results = DomainsOf(Key(w))]
    /\ UNCHANGED <<hash, queue, client, stale, used>>

(* Variant: the script does not look at the siblings.                      *)
AllDoneUnchecked(h, j) == h[Parent(j)].made

(* The script's answer: sub_jobs is there and every sub-job is completed.  *)
AllDone(h, j) ==
    /\ h[Parent(j)].made
    /\ \A p \in Parts : h[Sub(j, p)].status = "completed"

(* Variant: the script looks at the sub-jobs before it marks its own.      *)
CompleteSubCheckFirst(w) ==
    /\ worker[w].pc = "complete"
    /\ Key(w).part \in Parts
    /\ hash' = FinishedTTL(Key(w), worker[w].results)
    /\ IF AllDone(hash, Key(w).job)
       THEN worker' = [worker EXCEPT ![w].pc = "merge", ![w].results = <<>>]
       ELSE WorkerIdle(w)
    /\ UNCHANGED <<queue, client, stale, used>>

(* completeSubJobLua: atomic on the server.                                *)
CompleteSub(w) ==
    /\ worker[w].pc = "complete"
    /\ Key(w).part \in Parts
    /\ hash' = FinishedTTL(Key(w), worker[w].results)
    /\ IF AllDone(FinishedTTL(Key(w), worker[w].results), Key(w).job)
       THEN worker' = [worker EXCEPT ![w].pc = "merge", ![w].results = <<>>]
       ELSE WorkerIdle(w)
    /\ UNCHANGED <<queue, client, stale, used>>

(* The script call fails, whether or not the script ran: direct write.     *)
CompleteSubError(w) ==
    /\ worker[w].pc = "complete"
    /\ Key(w).part \in Parts
    /\ Spend("worker")
    /\ hash' \in {hash, FinishedTTL(Key(w), worker[w].results)}
    /\ WorkerTo(w, "write")
    /\ UNCHANGED <<queue, client, stale>>

(* HSET of the results: of the fallback, and of a job without sub-jobs.    *)
Writing(w) == \/ worker[w].pc = "write"
              \/ worker[w].pc = "complete" /\ Key(w).part = "parent"

DirectWrite(w) ==
    /\ Writing(w)
    /\ hash' = Finished(Key(w), worker[w].results)
    /\ WorkerTo(w, "expire")
    /\ UNCHANGED <<queue, client, stale, used>>

(* failJob's HSET.                                                         *)
FailJob(w) ==
    /\ worker[w].pc = "fail"
    /\ hash' = Marked(Key(w), "failed")
    /\ WorkerTo(w, "expire")
    /\ UNCHANGED <<queue, client, stale, used>>

(* Variant: the status write is not followed by EXPIRE.                    *)
NoExpire(w) ==
    /\ worker[w].pc = "expire"
    /\ WorkerIdle(w)
    /\ UNCHANGED <<hash, queue, client, stale, used>>

(* The EXPIRE that follows the HSET of a direct write and of failJob.      *)
SetTTL(w) ==
    /\ worker[w].pc = "expire"
    /\ hash' = [hash EXCEPT ![Key(w)].ttl = (hash[Key(w)].status # "absent")]
    /\ WorkerIdle(w)
    /\ UNCHANGED <<queue, client, stale, used>>

(* mergeSubJobs reads sub_jobs (gone: return) and domain_count.            *)
Merge(w) ==
    /\ worker[w].pc = "merge"
    /\ IF hash[ParentKey(w)].made
       THEN worker' = [worker EXCEPT ![w].pc = "read", ![w].todo = SubOrder,
                                     ![w].results = Gaps(N)]
       ELSE WorkerIdle(w)
    /\ UNCHANGED <<hash, queue, client, stale, used>>

(* sub_jobs cannot be read: return.  domain_count cannot: SafetyCount.     *)
MergeError(w) ==
    /\ worker[w].pc = "merge"
    /\ Spend("worker")
    /\ \/ WorkerIdle(w)
       \/ /\ hash[ParentKey(w)].made
          /\ worker' = [worker EXCEPT ![w].pc = "read", ![w].todo = SubOrder,
                                      ![w].results = Gaps(SafetyCount)]
    /\ UNCHANGED <<hash, queue, client, stale>>

Merged(w, res) ==
    worker' = [worker EXCEPT ![w].todo = Tail(@), ![w].results = res,
                             ![w].pc = IF Len(worker[w].todo) = 1 THEN "publish" ELSE "read"]

ReadSub(w) ==
    /\ worker[w].pc = "read"
    /\ Merged(w, AddSub(worker[w].results, Sub(Key(w).job, Head(worker[w].todo))))
    /\ UNCHANGED <<hash, queue, client, stale, used>>

ReadSubError(w) ==
    /\ worker[w].pc = "read"
    /\ Spend("worker")
    /\ Merged(w, worker[w].results)
    /\ UNCHANGED <<hash, queue, client, stale>>

(* The pipeline that completes the parent.                                 *)
Publish(w) ==
    /\ worker[w].pc = "publish"
    /\ hash' = FinishedTTL(ParentKey(w), worker[w].results)
    /\ WorkerIdle(w)
    /\ UNCHANGED <<queue, client, stale, used>>

(* A write whose error is ignored does not reach the server.               *)
WriteLost(w) ==
    /\ \/ (Writing(w) \/ worker[w].pc = "fail") /\ WorkerTo(w, "expire")
       \/ worker[w].pc \in {"expire", "publish"} /\ WorkerIdle(w)
    /\ Spend("worker")
    /\ UNCHANGED <<hash, queue, client, stale>>

(* The process dies and is restarted: what it held is forgotten.           *)
Crash(w) ==
    /\ worker[w].pc # "idle"
    /\ Spend("crash")
    /\ WorkerIdle(w)
    /\ UNCHANGED <<hash, queue, client, stale>>

-----------------------------------------------------------------------------
(* recover_stale_jobs of a Python worker that starts, and Valkey itself.   *)

ReadStale(k) ==
    /\ stale = NoKey
    /\ hash[k].status = "processing"
    /\ Spend("recover")
    /\ stale' = k
    /\ UNCHANGED <<hash, queue, client, worker>>

(* fail_job, on the status read earlier.                                   *)
FailStale ==
    /\ stale # NoKey
    /\ hash' = [hash EXCEPT ![stale].status = "failed", ![stale].ttl = TRUE]
    /\ stale' = NoKey
    /\ UNCHANGED <<queue, client, worker, used>>

(* A key expires.  The shortest time to live (600 s) is longer than any
   poll loop (120 s), so not while the request that made it is open.       *)
Expire(k) ==
    /\ hash[k].ttl
    /\ client[k.job].pc \in {"done", "dead"}
    /\ hash' = [hash EXCEPT ![k] = Absent]
    /\ UNCHANGED <<queue, client, worker, stale, used>>

-----------------------------------------------------------------------------
Init ==
    /\ hash = [k \in Keys |-> Absent]
    /\ queue = [l \in Lists |-> <<>>]
    /\ client = [j \in Jobs |-> NewClient]
    /\ worker = [w \in Workers |-> IdleWorker]
    /\ stale = NoKey
    /\ used = [f \in Faults |-> 0]

ClientStep(j) ==
    \/ Push(j) \/ Undo(j) \/ Poll(j) \/ PollTimeout(j)
    \/ Fetch(j) \/ Drain(j) \/ DrainSub(j)
ClientFault(j) == SubmitError(j) \/ PushError(j) \/ ClientError(j) \/ ApiCrash(j)

WorkerStep(w) ==
    \/ Pop(w) \/ Claim(w) \/ Check(w) \/ CompleteSub(w) \/ DirectWrite(w)
    \/ FailJob(w) \/ SetTTL(w) \/ Merge(w) \/ ReadSub(w) \/ Publish(w)
WorkerFault(w) ==
    \/ ClaimError(w) \/ CompleteSubError(w) \/ MergeError(w)
    \/ ReadSubError(w) \/ WriteLost(w) \/ Crash(w)

Next ==
    \/ \E j \in Jobs : Submit(j) \/ ClientStep(j) \/ ClientFault(j)
    \/ \E w \in Workers : WorkerStep(w) \/ WorkerFault(w)
    \/ \E k \in Keys : ReadStale(k) \/ Expire(k)
    \/ FailStale

(* Handlers and workers run on, a started recovery goes on, keys expire;
   nobody has to send a request, and no fault has to happen.               *)
Fairness ==
    /\ \A j \in Jobs : WF_vars(ClientStep(j))
    /\ \A w \in Workers : WF_vars(WorkerStep(w))
    /\ \A k \in Keys : WF_vars(Expire(k))
    /\ WF_vars(FailStale)

Spec == Init /\ [][Next]_vars
FairSpec == Spec /\ Fairness

-----------------------------------------------------------------------------
(* Properties.                                                             *)

ClientPCs == {"idle", "push", "undo", "poll", "fetch", "drain", "drain_subs", "done", "dead"}
Answers == {"none", "ok", "failed", "timeout", "partial", "unavailable", "error"}
WorkerPCs == {"idle", "claim", "check", "complete", "write", "fail", "expire",
              "merge", "read", "publish"}
Client == [pc : ClientPCs, kind : {"bulk", "anon"}, route : [Parts -> Batch],
           left : Seq(Parts), answer : Answers, results : Seq(Outcome)]
Worker == [pc : WorkerPCs, key : Keys \cup {NoKey}, results : Seq(Outcome), todo : Seq(Parts)]

(* Types of the variables. *)
TypeOK ==
    /\ hash \in [Keys -> Hash]
    /\ queue \in [Lists -> Seq(Keys)]
    /\ client \in [Jobs -> Client]
    /\ worker \in [Workers -> Worker]
    /\ stale \in Keys \cup {NoKey}
    /\ used \in [Faults -> Nat]

(* A popped key is worked on by one worker, is on no list any more, and was
   on its list once: BLPOP hands a job to one worker, and nothing (ghost
   keys of a failed push, crashes, recovery) makes a second delivery.      *)
ExclusiveDelivery ==
    /\ \A l \in Lists : \A a, b \in DOMAIN queue[l] : queue[l][a] = queue[l][b] => a = b
    /\ \A l, m \in Lists : \A k \in Keys : In(k, queue[l]) /\ In(k, queue[m]) => l = m
    /\ \A w \in Workers : worker[w].pc # "idle" => \A l \in Lists : ~In(Key(w), queue[l])
    /\ \A v, w \in Workers :
          worker[v].pc # "idle" /\ worker[w].pc # "idle" /\ Key(v) = Key(w) => v = w

Merging(w) == worker[w].pc \in {"merge", "read", "publish"}
Unfinished(w) == worker[w].pc \in {"claim", "check", "complete", "fail"}

(* At most one worker merges a split job, whatever fails: the script tells
   only the last sub-job's worker to merge.                                *)
SingleMerger ==
    \A v, w \in Workers : Merging(v) /\ Merging(w) /\ Key(v).job = Key(w).job => v = w

(* Nobody still works on, or will ever pop, a sub-job of a job that is being
   merged: a merge never publishes an array that a late sub-job completes. *)
QuiescentMerge ==
    \A v \in Workers : Merging(v) =>
        /\ \A w \in Workers : Unfinished(w) => Key(w).job # Key(v).job
        /\ \A l \in Lists, p \in Parts : ~In(Sub(Key(v).job, p), queue[l])

InPlace(res) == \A i \in DOMAIN res : res[i] \in {i, Gap}

(* Every result array that is published or sent holds, at each position, the
   result of the domain of that position or a placeholder.                 *)
ResultsInPlace ==
    \A j \in Jobs : InPlace(hash[Parent(j)].results) /\ InPlace(client[j].results)

(* Without worker-side Valkey errors and recoveries, a 200 answer holds the
   result of every domain: neither crashes, nor failed pushes, nor the
   order in which sub-jobs end leaves a placeholder or an empty array.     *)
AnswerWhole ==
    \A j \in Jobs :
        client[j].answer = "ok" /\ used["worker"] = 0 /\ used["recover"] = 0
            => client[j].results = [i \in 1..N |-> i]

(* A completed hash keeps its status and its results until it is deleted or
   expires, unless a recovery that read an older status is under way.      *)
CompletedIsFinal ==
    [][\A k \in Keys :
          hash[k].status = "completed" /\ stale # k =>
              \/ hash'[k].status = "absent"
              \/ hash'[k].status = "completed" /\ hash'[k].results = hash[k].results]_vars

(* Every request that reaches the lists is answered with its results, or
   with the API-side error it met itself, when workers do not fail and the
   poll loop is long enough: no merge is missed, in whatever order the
   sub-jobs end and whatever ghost keys a withdrawn request left behind.   *)
AnsweredInFull ==
    \A j \in Jobs :
        (client[j].pc = "push") ~> (client[j].answer \in {"ok", "unavailable", "error"})

(* Every job hash goes away: hashes that a worker makes again after the
   handler deleted them get a time to live too.  (README.md, the Valkey
   table: the TTL of job:{uuid} is 1 hour.)                                *)
HashesExpire ==
    \A k \in Keys : (hash[k].status # "absent") ~> (hash[k].status = "absent")

(* valkey_client.py and main.go: the merge fills the gaps of failed sub-jobs
   with placeholders, so a job with a failed and a completed sub-job is
   completed.                                                              *)
FailedSubJobIsMerged ==
    \A j \in Jobs :
        (/\ client[j].pc = "poll"
         /\ {hash[Sub(j, p)].status : p \in Parts} = {"failed", "completed"})
        ~> (hash[Parent(j)].status = "completed")

-----------------------------------------------------------------------------
(* The inductive invariant of the proofs (JobPipelineProofs).              *)

(* What the control points say about the sequences being walked. *)
Shape ==
    /\ \A j \in Jobs :
        /\ client[j].pc = "push" =>
              IF IsSplit(client[j].route) THEN client[j].left \in {SubOrder, <<"whois">>}
                                          ELSE client[j].left \in {<<"rdap">>, <<"whois">>}
        /\ client[j].pc = "drain_subs" => client[j].left \in {SubOrder, <<"whois">>}
    /\ \A w \in Workers :
        /\ worker[w].pc # "idle" => worker[w].key \in Keys
        /\ worker[w].pc = "read" => worker[w].todo \in {SubOrder, <<"whois">>}

(* The handler of k's job may still push k. *)
Unpushed(k) ==
    \/ client[k.job].pc = "idle"
    \/ /\ client[k.job].pc = "push"
       /\ \E p \in Parts : /\ In(p, client[k.job].left)
                           /\ k = PushedKey(k.job, client[k.job].route, p)

Held(k) == \E w \in Workers : worker[w].pc # "idle" /\ Key(w) = k
Queued(k) == \E l \in Lists : In(k, queue[l])

(* Nobody will start on k, and nobody who has started is still to finish. *)
Spent(k) ==
    /\ ~Unpushed(k)
    /\ ~Queued(k)
    /\ \A w \in Workers : Unfinished(w) => Key(w) # k

(* A key that may still be pushed is nowhere yet. *)
PushedOnce == \A k \in Keys : Unpushed(k) => ~Queued(k) /\ ~Held(k)

(* Sub-jobs are delivered of split jobs only, and parents of the others. *)
RightKind ==
    \A k \in Keys : Queued(k) \/ Held(k) => (k.part \in Parts <=> IsSplit(client[k.job].route))

(* 'completed' is the last word on a key, and a merge starts after it has
   been said of every sub-job.                                             *)
CompletedIsSpent == \A k \in Keys : hash[k].status = "completed" => Spent(k)
MergingIsSpent ==
    \A w \in Workers : Merging(w) =>
        Key(w).part \in Parts /\ \A k \in Keys : k.job = Key(w).job => Spent(k)

Delivery == PushedOnce /\ RightKind /\ ExclusiveDelivery
Completion == CompletedIsSpent /\ MergingIsSpent /\ SingleMerger
CoreInv == TypeOK /\ Shape /\ Delivery /\ Completion

-----------------------------------------------------------------------------
(* The pipeline implements BulkCheck: the published array is the results
   field of the job hash, and the reply is what the handler returned.      *)
BC == INSTANCE BulkCheck WITH
    Lengths <- {N, SafetyCount},
    published <- [j \in Jobs |-> hash[Parent(j)].results],
    reply <- [j \in Jobs |->
                [code |-> IF client[j].pc = "dead" THEN "lost" ELSE client[j].answer,
                 results |-> IF client[j].pc = "done" THEN client[j].results ELSE <<>>]]

(* Every step of the pipeline is a step of BulkCheck or changes neither the
   array nor the reply: in particular no array is published twice or
   changed while its request is open, however workers fail or retry.       *)
ImplementsBulkCheck == BC!BCSpec

-----------------------------------------------------------------------------
(* What the refinement needs besides CoreInv: where result arrays come from. *)

Arrays == BC!Arrays
ArrayOrNone == Arrays \cup {<<>>}
Whole == [i \in 1..N |-> i]

(* Nothing of a job is there before its request. *)
Untouched ==
    \A k \in Keys : client[k.job].pc = "idle" =>
        hash[k].status = "absent" /\ hash[k].results = <<>> /\ stale # k

(* Nobody is to work on job j any more, nor to merge it. *)
Settled(j) ==
    /\ \A k \in Keys : k.job = j => Spent(k)
    /\ \A w \in Workers : Merging(w) => Key(w).job # j

(* A sub-job's results are those of its own domains; a job has an array once
   it is settled.                                                          *)
StoredArrays ==
    \A j \in Jobs :
        /\ \A p \in Parts :
              LET h == hash[Sub(j, p)]
              IN  /\ h.results \in {<<>>, client[j].route[p]}
                  /\ h.status = "completed" => h.results = client[j].route[p]
        /\ hash[Parent(j)].results \in ArrayOrNone
        /\ hash[Parent(j)].status = "completed" => hash[Parent(j)].results # <<>>
        /\ hash[Parent(j)].results # <<>> => Settled(j)

WorkerArrays ==
    \A w \in Workers :
        /\ worker[w].pc \in {"complete", "write"} => worker[w].results = DomainsOf(Key(w))
        /\ worker[w].pc = "write" => Key(w).part \in Parts
        /\ worker[w].pc \in {"read", "publish"} => worker[w].results \in Arrays

ClientArrays ==
    \A j \in Jobs :
        /\ client[j].pc # "idle" => client[j].route \in Splits
        /\ client[j].pc = "done" <=> client[j].answer # "none"
        /\ client[j].pc \notin {"drain_subs", "done"} => client[j].results = <<>>
        /\ client[j].pc = "drain_subs" => client[j].results \in Arrays
        /\ client[j].answer = "ok" => client[j].results \in Arrays
        /\ client[j].answer = "partial" => client[j].results \in ArrayOrNone
        /\ client[j].answer \notin {"ok", "partial"} /\ client[j].pc = "done" =>
              client[j].results = <<>>
        /\ client[j].pc = "fetch" => hash[Parent(j)].results # <<>>

(* The request of j was sent and may still be answered with an array. *)
Waiting(j) == client[j].pc \in {"push", "poll", "fetch"}

Kept == \A j \in Jobs : Waiting(j) => \A k \in NewKeys(j, client[j].route) : hash[k].made

(* Without worker-side errors and recoveries, a merge for a waiting request
   finds both sub-jobs completed and fills every position.                 *)
Clean == used["worker"] = 0 /\ used["recover"] = 0
WholeArrays ==
    Clean =>
        /\ stale = NoKey
        /\ \A j \in Jobs :
              /\ Waiting(j) => hash[Parent(j)].results \in {<<>>, Whole}
              /\ client[j].answer = "ok" => client[j].results = Whole
        /\ \A w \in Workers : Merging(w) /\ Waiting(Key(w).job) =>
              LET j == Key(w).job
              IN  /\ \A p \in Parts : hash[Sub(j, p)].status = "completed"
                  /\ worker[w].pc = "read" => DOMAIN worker[w].results = 1..N
                  /\ worker[w].pc = "read" /\ worker[w].todo # SubOrder =>
                        \A i \in 1..N : In(i, client[j].route["rdap"]) => worker[w].results[i] = i
                  /\ worker[w].pc = "publish" => worker[w].results = Whole

(* The inductive invariant of the pipeline. *)
PipelineInv ==
    /\ CoreInv
    /\ Untouched /\ StoredArrays /\ WorkerArrays /\ ClientArrays /\ Kept /\ WholeArrays

=============================================================================
