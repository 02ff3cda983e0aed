-------------------------- MODULE JobPipelineProofs --------------------------
(***************************************************************************)
(* Proofs about JobPipeline, for any set of requests and workers, any list *)
(* layout and any number of faults: first who holds, charges and completes *)
(* a job, then what the pipeline publishes and answers (arrays stay in     *)
(* place and whole, completed hashes are final), and that it implements    *)
(* BulkCheck.                                                              *)
(***************************************************************************)
EXTENDS JobPipeline, TLAPS

-----------------------------------------------------------------------------
(* Sequences and batches.                                                  *)

(* A key is in a list that was appended to or popped iff it was there or was
   appended, and a popped list keeps its other elements.                   *)
LEMMA InAppend ==
    ASSUME NEW S, NEW s \in Seq(S), NEW e \in S, NEW x
    PROVE  In(x, Append(s, e)) <=> In(x, s) \/ x = e
<1>1. /\ DOMAIN Append(s, e) = 1..(Len(s) + 1)
      /\ \A i \in 1..Len(s) : Append(s, e)[i] = s[i]
      /\ Append(s, e)[Len(s) + 1] = e
      /\ Len(s) \in Nat
      /\ DOMAIN s = 1..Len(s)
  OBVIOUS
<1> QED BY <1>1 DEF In

LEMMA InTail ==
    ASSUME NEW S, NEW s \in Seq(S), s # <<>>, NEW x, In(x, Tail(s))
    PROVE  In(x, s)
  BY DEF In

LEMMA InHead ==
    ASSUME NEW S, NEW s \in Seq(S), s # <<>>
    PROVE  In(Head(s), s) /\ Head(s) \in S
  BY DEF In

(* The walks over the two sub-jobs. *)
LEMMA Walks ==
    /\ SubOrder \in Seq(Parts) /\ <<"rdap">> \in Seq(Parts) /\ <<"whois">> \in Seq(Parts)
    /\ Head(SubOrder) = "rdap" /\ Tail(SubOrder) = <<"whois">> /\ Len(SubOrder) = 2
    /\ Head(<<"whois">>) = "whois" /\ Tail(<<"whois">>) = <<>> /\ Len(<<"whois">>) = 1
    /\ Head(<<"rdap">>) = "rdap" /\ Tail(<<"rdap">>) = <<>> /\ Len(<<"rdap">>) = 1
    /\ \A x : In(x, SubOrder) <=> x \in Parts
    /\ \A x : In(x, <<"whois">>) <=> x = "whois"
    /\ \A x : In(x, <<"rdap">>) <=> x = "rdap"
  BY DEF SubOrder, Parts, In

LEMMA BatchType == Batch \subseteq Seq(Positions) /\ Batch \subseteq Seq(Outcome) /\ <<>> \in Batch
  BY PipelineAssumption DEF Batch, Positions, Outcome

LEMMA GapsType == ASSUME NEW n \in Nat PROVE Gaps(n) \in Seq(Outcome)
  BY DEF Gaps, Outcome, Gap

LEMMA PlaceType ==
    ASSUME NEW merged \in Seq(Outcome), NEW indices, NEW results \in Seq(Outcome)
    PROVE  Place(merged, indices, results) \in Seq(Outcome)
<1> DEFINE f == Place(merged, indices, results)
<1>1. ASSUME NEW p \in DOMAIN merged PROVE f[p] \in Outcome
  <2>1. f[p] = IF \E i \in DOMAIN indices \cap DOMAIN results : indices[i] = p
               THEN results[CHOOSE i \in DOMAIN indices \cap DOMAIN results : indices[i] = p]
               ELSE merged[p]
    BY DEF Place
  <2>2. CASE \E i \in DOMAIN indices \cap DOMAIN results : indices[i] = p
    <3> DEFINE c == CHOOSE i \in DOMAIN indices \cap DOMAIN results : indices[i] = p
    <3>1. c \in DOMAIN results
      BY <2>2
    <3>2. \A i \in DOMAIN results : results[i] \in Outcome
      OBVIOUS
    <3> QED BY <2>1, <2>2, <3>1, <3>2
  <2>3. CASE ~\E i \in DOMAIN indices \cap DOMAIN results : indices[i] = p
    BY <2>1, <2>3
  <2> QED BY <2>2, <2>3
<1>2. /\ DOMAIN merged = 1..Len(merged)
      /\ Len(merged) \in Nat
  OBVIOUS
<1>3. f = [p \in 1..Len(merged) |-> f[p]]
  BY <1>2 DEF Place
<1> HIDE DEF f
<1>4. f \in [1..Len(merged) -> Outcome]
  BY <1>1, <1>2, <1>3
<1>5. f \in Seq(Outcome)
  BY <1>2, <1>4
<1> QED BY <1>5 DEF f

LEMMA AddSubType ==
    ASSUME TypeOK, NEW merged \in Seq(Outcome), NEW k \in Keys
    PROVE  AddSub(merged, k) \in Seq(Outcome)
  BY PlaceType DEF AddSub, TypeOK, Hash

LEMMA DomainsOfType ==
    ASSUME TypeOK, NEW k \in Keys
    PROVE  DomainsOf(k) \in Seq(Outcome)
<1>1. CASE k.part = "parent"
  <2>1. [i \in 1..N |-> i] \in [1..N -> Outcome] /\ N \in Nat
    BY PipelineAssumption DEF Outcome, Positions
  <2>2. [i \in 1..N |-> i] \in Seq(Outcome)
    BY <2>1
  <2> QED BY <1>1, <2>2 DEF DomainsOf
<1>2. CASE k.part # "parent"
  <2>1. k.part \in Parts /\ client[k.job].route \in [Parts -> Batch]
    BY <1>2 DEF TypeOK, Client, Keys
  <2> QED BY <1>2, <2>1, BatchType DEF DomainsOf
<1> QED BY <1>1, <1>2

-----------------------------------------------------------------------------
(* Types.  Shape is what makes them inductive: a walk that takes the head of
   a sequence never finds it empty.                                        *)

Typed == TypeOK /\ Shape

LEMMA NewClientType == NewClient \in Client
  BY BatchType DEF NewClient, Client, ClientPCs, Answers

LEMMA IdleWorkerType == IdleWorker \in Worker
  BY DEF IdleWorker, Worker, WorkerPCs

LEMMA AbsentType == Absent \in Hash /\ Created \in Hash
  BY DEF Absent, Created, Hash, Status

LEMMA KeyTypes ==
    ASSUME NEW j \in Jobs, NEW sp
    PROVE  /\ Parent(j) \in Keys /\ Parent(j).job = j /\ Parent(j).part = "parent"
           /\ \A p \in Parts : Sub(j, p) \in Keys /\ Sub(j, p).job = j /\ Sub(j, p).part = p
           /\ "parent" \notin Parts
           /\ \A p \in Parts : PushedKey(j, sp, p) \in Keys /\ PushedKey(j, sp, p).job = j
  BY DEF Parent, Sub, Keys, Parts, PushedKey

LEMMA InitTyped == Init => Typed
<1> SUFFICES ASSUME Init PROVE Typed
  OBVIOUS
<1>1. TypeOK
  BY NewClientType, IdleWorkerType, AbsentType, PipelineAssumption DEF Init, TypeOK
<1>2. Shape
  BY DEF Init, Shape, NewClient, IdleWorker
<1> QED BY <1>1, <1>2 DEF Typed

(* A split's push order is a walk over the parts that got domains. *)
LEMMA PushOrderShape ==
    ASSUME NEW sp \in Splits
    PROVE  /\ sp \in [Parts -> Batch]
           /\ PushOrder(sp) \in Seq(Parts)
           /\ IF IsSplit(sp) THEN PushOrder(sp) = SubOrder
                             ELSE PushOrder(sp) \in {<<"rdap">>, <<"whois">>}
<1>1. sp \in [Parts -> Batch]
  BY DEF Splits
<1>2. CASE IsSplit(sp)
  <2>1. sp["whois"] # <<>> /\ sp["rdap"] # <<>>
    BY <1>2 DEF IsSplit, Parts
  <2>2. PushOrder(sp) = SubOrder
    BY <1>2, <2>1 DEF PushOrder
  <2> QED BY <1>1, <1>2, <2>2, Walks
<1>3. CASE ~IsSplit(sp)
  <2>1. sp["whois"] = <<>> \/ sp["rdap"] = <<>>
    BY <1>3 DEF IsSplit, Parts
  <2>2. sp["whois"] = <<>> => ~(sp["rdap"] = <<>>)
    <3> SUFFICES ASSUME sp["whois"] = <<>>, sp["rdap"] = <<>> PROVE FALSE
      OBVIOUS
    <3>1. 1 \in Positions
      BY PipelineAssumption DEF Positions
    <3>2. In(1, sp["rdap"]) <=> ~In(1, sp["whois"])
      BY <3>1 DEF Splits
    <3> QED BY <3>2 DEF In
  <2>3. PushOrder(sp) \in {<<"rdap">>, <<"whois">>}
    BY <1>3, <2>1, <2>2 DEF PushOrder
  <2> QED BY <1>1, <1>3, <2>3, Walks
<1> QED BY <1>2, <1>3

LEMMA SpendType ==
    ASSUME TypeOK, NEW f, f \in Faults, Spend(f)
    PROVE  used' \in [Faults -> Nat]
  BY DEF Spend, TypeOK

(* The handler's steps keep the types. *)
LEMMA ClientTyped ==
    ASSUME Typed, NEW j \in Jobs, Submit(j) \/ ClientStep(j) \/ ClientFault(j)
    PROVE  Typed'
<1> USE DEF Typed
<1>a. client[j] \in Client
  BY DEF TypeOK
<1>b. /\ Parent(j) \in Keys
      /\ hash[Parent(j)] \in Hash
      /\ \A p \in Parts : Sub(j, p) \in Keys
  BY KeyTypes DEF TypeOK
<1>g. <<>> \in Seq(Parts) /\ <<>> \in Seq(Outcome)
  OBVIOUS
<1>c. \A sp : CreateHashes(j, sp) \in [Keys -> Hash]
  BY AbsentType DEF CreateHashes, TypeOK
<1>1. CASE Submit(j)
  <2>1. PICK kind \in Kinds, sp \in Splits :
          /\ hash' = CreateHashes(j, sp)
          /\ client' = [client EXCEPT ![j] =
                          [NewClient EXCEPT !.pc = "push", !.kind = kind, !.route = sp,
                                            !.left = PushOrder(sp)]]
    BY <1>1 DEF Submit
  <2> DEFINE c == [NewClient EXCEPT !.pc = "push", !.kind = kind, !.route = sp,
                                    !.left = PushOrder(sp)]
  <2>2. c \in Client /\ c.pc = "push" /\ c.route = sp /\ c.left = PushOrder(sp)
    BY NewClientType, PushOrderShape, PipelineAssumption DEF Client, ClientPCs, NewClient
  <2> HIDE DEF c
  <2>3. client' = [client EXCEPT ![j] = c]
    BY <2>1 DEF c
  <2>4. TypeOK'
    BY <1>1, <1>c, <2>1, <2>2, <2>3 DEF TypeOK, Submit
  <2>5. Shape'
    BY <1>1, <2>2, <2>3, PushOrderShape DEF Shape, Submit, TypeOK
  <2> QED BY <2>4, <2>5
<1>2. CASE SubmitError(j)
  <2>1. PICK kind \in Kinds, sp \in Splits :
          /\ hash' \in {hash, CreateHashes(j, sp)}
          /\ client' = [client EXCEPT ![j] =
                          [NewClient EXCEPT !.pc = "done", !.kind = kind, !.route = sp,
                                            !.answer = "unavailable"]]
    BY <1>2 DEF SubmitError
  <2> DEFINE c == [NewClient EXCEPT !.pc = "done", !.kind = kind, !.route = sp,
                                    !.answer = "unavailable"]
  <2>2. c \in Client /\ c.pc = "done"
    BY NewClientType, PushOrderShape, PipelineAssumption DEF Client, ClientPCs, Answers, NewClient
  <2> HIDE DEF c
  <2>3. client' = [client EXCEPT ![j] = c]
    BY <2>1 DEF c
  <2>4. used' \in [Faults -> Nat]
    BY <1>2, SpendType DEF SubmitError, Faults
  <2>5. TypeOK'
    BY <1>2, <1>c, <2>1, <2>2, <2>3, <2>4 DEF TypeOK, SubmitError
  <2>6. Shape'
    BY <1>2, <2>2, <2>3 DEF Shape, SubmitError, TypeOK
  <2> QED BY <2>5, <2>6
<1>3. CASE Push(j) \/ PushError(j)
  <2>1. /\ client[j].left \in {SubOrder, <<"whois">>, <<"rdap">>}
        /\ Head(client[j].left) \in Parts
        /\ Tail(client[j].left) \in Seq(Parts)
    BY <1>3, Walks, <1>a DEF Shape, Push, PushError, Client, Parts
  <2>2. Pushed(j) \in [Lists -> Seq(Keys)]
    <3> DEFINE p == Head(client[j].left)
               k == PushedKey(j, client[j].route, p)
    <3>1. k \in Keys /\ ListOf[p] \in Lists
      BY <2>1, KeyTypes, PipelineAssumption
    <3>2. Append(queue[ListOf[p]], k) \in Seq(Keys)
      BY <3>1 DEF TypeOK
    <3> HIDE DEF k
    <3>3. Pushed(j) = [queue EXCEPT ![ListOf[p]] = Append(@, k)]
      BY DEF Pushed, k
    <3> HIDE DEF p
    <3> QED BY <3>1, <3>2, <3>3 DEF TypeOK
  <2>3. CASE Push(j)
    <3>1. TypeOK'
      BY <2>1, <2>2, <2>3, <1>a DEF TypeOK, Push, Client, ClientPCs
    <3>2. Shape'
      BY <2>1, <2>3, <1>a, Walks DEF Shape, Push, TypeOK, Client
    <3> QED BY <3>1, <3>2
  <2>4. CASE PushError(j)
    <3>1. used' \in [Faults -> Nat]
      BY <2>4, SpendType DEF PushError, Faults
    <3>2. [client[j] EXCEPT !.pc = "undo", !.left = <<>>] \in Client
      BY <1>a, <1>g DEF Client, ClientPCs
    <3>4. TypeOK'
      BY <2>2, <2>4, <3>1, <3>2 DEF TypeOK, PushError
    <3>3. Shape'
      BY <2>4, <1>a DEF Shape, PushError, TypeOK, Client
    <3> QED BY <3>3, <3>4
  <2> QED BY <1>3, <2>3, <2>4
<1>d. ASSUME NEW a \in Answers, NEW res \in Seq(Outcome), Answer(j, a, res),
             UNCHANGED <<worker, queue, stale>>, hash' \in [Keys -> Hash],
             used' \in [Faults -> Nat]
      PROVE  Typed'
  <2> DEFINE c == [client[j] EXCEPT !.pc = "done", !.left = <<>>, !.answer = a, !.results = res]
  <2>0. c \in Client /\ client' = [client EXCEPT ![j] = c]
    BY <1>a, <1>d, <1>g DEF Answer, Client, ClientPCs
  <2>1. TypeOK'
    BY <1>d, <2>0 DEF TypeOK
  <2>2. Shape'
    BY <1>a, <1>d DEF Answer, Shape, TypeOK, Client
  <2> QED BY <2>1, <2>2
<1>e. ASSUME NEW pc \in ClientPCs \ {"push", "drain_subs"}, GoTo(j, pc),
             UNCHANGED <<hash, worker, queue, stale, used>>
      PROVE  Typed'
  <2>1. TypeOK'
    BY <1>a, <1>e DEF GoTo, TypeOK, Client
  <2>2. Shape'
    BY <1>a, <1>e DEF GoTo, Shape, TypeOK, Client
  <2> QED BY <2>1, <2>2
<1>f. <<>> \in Seq(Outcome) /\ hash[Parent(j)].results \in Seq(Outcome)
  BY <1>b DEF Hash
<1>4. CASE Undo(j)
  <2>1. hash' \in [Keys -> Hash]
    BY <1>4, AbsentType DEF Undo, TypeOK
  <2> QED BY <1>4, <1>d, <1>f, <2>1 DEF Undo, Answers, TypeOK
<1>5. CASE Poll(j) \/ PollTimeout(j)
  <2>1. \/ \E pc \in {"fetch", "drain"} : GoTo(j, pc)
        \/ \E a \in {"failed", "timeout"} : Answer(j, a, <<>>)
    BY <1>5 DEF Poll, PollTimeout, GiveUp
  <2> QED BY <1>5, <1>d, <1>e, <1>f, <2>1 DEF Poll, PollTimeout, ClientPCs, Answers, TypeOK
<1>6. CASE Fetch(j)
  BY <1>6, <1>d, <1>f DEF Fetch, Answers, TypeOK
<1>7. CASE Drain(j)
  <2>1. CASE Answer(j, "partial", hash[Parent(j)].results)
    BY <1>7, <1>d, <1>f, <2>1 DEF Drain, Answers, TypeOK
  <2>2. CASE client' = [client EXCEPT ![j].pc = "drain_subs", ![j].left = SubOrder,
                                      ![j].results = Gaps(N)]
    <3>1. Gaps(N) \in Seq(Outcome)
      BY GapsType, PipelineAssumption
    <3>2. TypeOK'
      BY <1>7, <1>a, <2>2, <3>1, Walks DEF TypeOK, Client, ClientPCs, Drain
    <3>3. Shape'
      BY <1>7, <1>a, <2>2 DEF Shape, Client, Drain, TypeOK
    <3> QED BY <3>2, <3>3
  <2> QED BY <1>7, <2>1, <2>2 DEF Drain
<1>8. CASE DrainSub(j)
  <2> DEFINE res == AddSub(client[j].results, Sub(j, Head(client[j].left)))
  <2>1. client[j].left \in {SubOrder, <<"whois">>} /\ client[j].results \in Seq(Outcome)
    BY <1>8, <1>a DEF DrainSub, Shape, Client
  <2>2. Head(client[j].left) \in Parts
    BY <2>1, Walks DEF Parts
  <2>3. res \in Seq(Outcome)
    BY <1>b, <2>1, <2>2, AddSubType
  <2> HIDE DEF res
  <2>4. CASE Answer(j, "partial", res)
    BY <1>8, <1>d, <2>3, <2>4 DEF DrainSub, Answers, TypeOK
  <2>5. CASE /\ Len(client[j].left) # 1
             /\ client' = [client EXCEPT ![j].left = Tail(@), ![j].results = res]
    <3>1. Tail(client[j].left) = <<"whois">>
      BY <2>1, <2>5, Walks
    <3>2. TypeOK'
      BY <1>8, <1>a, <2>3, <2>5, <3>1, Walks DEF TypeOK, Client, DrainSub
    <3>3. Shape'
      BY <1>8, <1>a, <2>5, <3>1 DEF Shape, Client, DrainSub, TypeOK
    <3> QED BY <3>2, <3>3
  <2> QED BY <1>8, <2>4, <2>5 DEF DrainSub, res
<1>9. CASE ClientError(j)
  <2>1. used' \in [Faults -> Nat] /\ hash' \in [Keys -> Hash]
    BY <1>9, SpendType DEF ClientError, Faults, TypeOK
  <2> QED BY <1>9, <1>d, <1>f, <2>1 DEF ClientError, Answers, TypeOK
<1>10. CASE ApiCrash(j)
  <2>1. used' \in [Faults -> Nat]
    BY <1>10, SpendType DEF ApiCrash, Faults
  <2> DEFINE c == [client[j] EXCEPT !.pc = "dead", !.left = <<>>, !.results = <<>>]
  <2>0. c \in Client /\ client' = [client EXCEPT ![j] = c]
    BY <1>10, <1>a, <1>g DEF ApiCrash, Client, ClientPCs
  <2>2. TypeOK'
    BY <1>10, <2>0, <2>1 DEF TypeOK, ApiCrash
  <2>3. Shape'
    BY <1>10, <1>a DEF Shape, ApiCrash, Client, TypeOK
  <2> QED BY <2>2, <2>3
<1> QED BY <1>1, <1>2, <1>3, <1>4, <1>5, <1>6, <1>7, <1>8, <1>9, <1>10
        DEF ClientStep, ClientFault

(* The worker's steps keep the types. *)
LEMMA WorkerTyped ==
    ASSUME Typed, NEW w \in Workers, WorkerStep(w) \/ WorkerFault(w)
    PROVE  Typed'
<1> USE DEF Typed
<1> DEFINE k == Key(w)
           res == worker[w].results
<1>a. /\ worker[w] \in Worker
      /\ res \in Seq(Outcome)
      /\ worker[w].pc # "idle" => k \in Keys /\ k.job \in Jobs
  BY DEF TypeOK, Worker, Shape, Key, Keys
<1>b. <<>> \in Seq(Outcome) /\ <<>> \in Seq(Parts) /\ IdleWorker.pc = "idle"
  BY DEF IdleWorker
(* A step that gives the worker a record of the right shape. *)
<1>c. ASSUME NEW r \in Worker, worker' = [worker EXCEPT ![w] = r],
             r.pc # "idle" => r.key \in Keys,
             r.pc = "read" => r.todo \in {SubOrder, <<"whois">>},
             hash' \in [Keys -> Hash], queue' \in [Lists -> Seq(Keys)],
             used' \in [Faults -> Nat], UNCHANGED <<client, stale>>
      PROVE  Typed'
  <2>1. TypeOK'
    BY <1>c DEF TypeOK
  <2>2. Shape'
    BY <1>c DEF Shape, TypeOK
  <2> QED BY <2>1, <2>2
<1>d. ASSUME NEW pc \in WorkerPCs \ {"idle", "read"}, WorkerTo(w, pc), worker[w].pc # "idle",
             hash' \in [Keys -> Hash], used' \in [Faults -> Nat],
             UNCHANGED <<client, queue, stale>>
      PROVE  Typed'
  <2> DEFINE r == [worker[w] EXCEPT !.pc = pc]
  <2>1. r \in Worker /\ r.pc = pc /\ r.key = k /\ worker' = [worker EXCEPT ![w] = r]
    BY <1>a, <1>d DEF WorkerTo, Worker, Key
  <2>2. queue' \in [Lists -> Seq(Keys)]
    BY <1>d DEF TypeOK
  <2> HIDE DEF r
  <2> QED BY <1>a, <1>c, <1>d, <2>1, <2>2
<1>e. ASSUME WorkerIdle(w), hash' \in [Keys -> Hash], used' \in [Faults -> Nat],
             UNCHANGED <<client, queue, stale>>
      PROVE  Typed'
  <2>1. queue' \in [Lists -> Seq(Keys)]
    BY <1>e DEF TypeOK
  <2> QED BY <1>b, <1>c, <1>e, <2>1, IdleWorkerType DEF WorkerIdle, IdleWorker
<1>f. hash \in [Keys -> Hash] /\ used \in [Faults -> Nat] /\ queue \in [Lists -> Seq(Keys)]
  BY DEF TypeOK
<1>h. ASSUME worker[w].pc # "idle"
      PROVE  /\ \A s \in Status : Marked(k, s) \in [Keys -> Hash]
             /\ Finished(k, res) \in [Keys -> Hash]
             /\ FinishedTTL(k, res) \in [Keys -> Hash]
             /\ FinishedTTL(ParentKey(w), res) \in [Keys -> Hash]
             /\ [hash EXCEPT ![k].ttl = (hash[k].status # "absent")] \in [Keys -> Hash]
  <2>1. k \in Keys /\ ParentKey(w) \in Keys
    BY <1>a, <1>h, KeyTypes DEF ParentKey, Key
  <2>2. hash[k] \in Hash /\ hash[ParentKey(w)] \in Hash
    BY <2>1, <1>f
  <2>3. \A s \in Status : Marked(k, s) \in [Keys -> Hash]
    BY <1>f, <2>1, <2>2 DEF Marked, Hash
  <2>4. Finished(k, res) \in [Keys -> Hash]
    BY <1>a, <1>f, <2>1, <2>2 DEF Finished, Hash, Status
  <2>5. \A x \in Keys : FinishedTTL(x, res) \in [Keys -> Hash]
    <3> SUFFICES ASSUME NEW x \in Keys PROVE FinishedTTL(x, res) \in [Keys -> Hash]
      OBVIOUS
    <3>1. [hash[x] EXCEPT !.status = "completed", !.results = res, !.ttl = TRUE] \in Hash
      BY <1>a, <1>f DEF Hash, Status
    <3>2. FinishedTTL(x, res) =
            [hash EXCEPT ![x] = [hash[x] EXCEPT !.status = "completed", !.results = res, !.ttl = TRUE]]
      BY <1>f DEF FinishedTTL
    <3> QED BY <1>f, <3>1, <3>2
  <2>6. [hash EXCEPT ![k].ttl = (hash[k].status # "absent")] \in [Keys -> Hash]
    <3>1. [hash[k] EXCEPT !.ttl = (hash[k].status # "absent")] \in Hash
      BY <2>2 DEF Hash
    <3> QED BY <1>f, <3>1
  <2> QED BY <2>1, <2>3, <2>4, <2>5, <2>6
<1>1. CASE Pop(w)
  <2> DEFINE l == WorkerList[w]
             r == [IdleWorker EXCEPT !.pc = "claim", !.key = Head(queue[l])]
  <2>1. l \in Lists /\ queue[l] \in Seq(Keys) /\ queue[l] # <<>>
    BY <1>1, PipelineAssumption, <1>f DEF Pop
  <2>2. Head(queue[l]) \in Keys /\ Tail(queue[l]) \in Seq(Keys)
    BY <2>1
  <2>3. r \in Worker /\ r.pc = "claim" /\ r.key \in Keys
    BY <2>2, IdleWorkerType DEF IdleWorker, Worker, WorkerPCs
  <2>4. worker' = [worker EXCEPT ![w] = r] /\ queue' = [queue EXCEPT ![l] = Tail(@)]
    BY <1>1 DEF Pop
  <2> HIDE DEF r
  <2>5. queue' \in [Lists -> Seq(Keys)]
    BY <1>f, <2>1, <2>2, <2>4
  <2> QED BY <1>1, <1>c, <1>f, <2>3, <2>4, <2>5 DEF Pop
<1>2. CASE Claim(w)
  BY <1>2, <1>d, <1>f, <1>h DEF Claim, Status, WorkerPCs
<1>3. CASE ClaimError(w)
  <2>1. used' \in [Faults -> Nat]
    BY <1>3, SpendType DEF ClaimError, Faults
  <2> QED BY <1>3, <1>d, <1>f, <1>h, <2>1 DEF ClaimError, Status, WorkerPCs
<1>4. CASE Check(w)
  <2> DEFINE r == [worker[w] EXCEPT !.pc = "complete", !.results = DomainsOf(k)]
  <2>1. r \in Worker /\ r.pc = "complete" /\ r.key \in Keys
    BY <1>4, <1>a, DomainsOfType DEF Check, Worker, WorkerPCs, Key
  <2> HIDE DEF r
  <2>2. worker' = [worker EXCEPT ![w] = r]
    BY <1>4 DEF Check, r
  <2> QED BY <1>4, <1>c, <1>f, <2>1, <2>2 DEF Check
<1>5. CASE CompleteSub(w)
  <2> DEFINE r == [worker[w] EXCEPT !.pc = "merge", !.results = <<>>]
  <2>1. r \in Worker /\ r.pc = "merge" /\ r.key \in Keys
    BY <1>5, <1>a, <1>b DEF CompleteSub, Worker, WorkerPCs, Key
  <2> HIDE DEF r
  <2>2. hash' \in [Keys -> Hash]
    BY <1>5, <1>h DEF CompleteSub
  <2>3. \/ worker' = [worker EXCEPT ![w] = r]
        \/ WorkerIdle(w)
    BY <1>5 DEF CompleteSub, r
  <2> QED BY <1>5, <1>c, <1>e, <1>f, <2>1, <2>2, <2>3 DEF CompleteSub
<1>6. CASE CompleteSubError(w)
  <2>1. used' \in [Faults -> Nat]
    BY <1>6, SpendType DEF CompleteSubError, Faults
  <2> QED BY <1>6, <1>d, <1>f, <1>h, <2>1 DEF CompleteSubError, WorkerPCs
<1>7. CASE DirectWrite(w)
  BY <1>7, <1>d, <1>f, <1>h DEF DirectWrite, Writing, WorkerPCs
<1>8. CASE FailJob(w)
  BY <1>8, <1>d, <1>f, <1>h DEF FailJob, Status, WorkerPCs
<1>9. CASE SetTTL(w)
  BY <1>9, <1>e, <1>f, <1>h DEF SetTTL
<1>10. CASE Merge(w) \/ MergeError(w)
  <2>1. used' \in [Faults -> Nat]
    BY <1>10, <1>f, SpendType DEF Merge, MergeError, Faults
  <2>2. CASE WorkerIdle(w)
    BY <1>10, <1>e, <1>f, <2>1, <2>2 DEF Merge, MergeError
  <2>3. ASSUME NEW n \in {N, SafetyCount},
               worker' = [worker EXCEPT ![w].pc = "read", ![w].todo = SubOrder,
                                        ![w].results = Gaps(n)]
        PROVE  Typed'
    <3> DEFINE r == [worker[w] EXCEPT !.pc = "read", !.todo = SubOrder, !.results = Gaps(n)]
    <3>1. Gaps(n) \in Seq(Outcome)
      BY GapsType, PipelineAssumption
    <3>2. r \in Worker /\ r.pc = "read" /\ r.key \in Keys /\ r.todo = SubOrder
      BY <1>10, <1>a, <3>1, Walks DEF Merge, MergeError, Worker, WorkerPCs, Key
    <3>3. worker' = [worker EXCEPT ![w] = r]
      BY <2>3
    <3> HIDE DEF r
    <3> QED BY <1>10, <1>c, <1>f, <2>1, <3>2, <3>3 DEF Merge, MergeError
  <2> QED BY <1>10, <2>2, <2>3 DEF Merge, MergeError
<1>11. CASE ReadSub(w) \/ ReadSubError(w)
  <2>1. used' \in [Faults -> Nat]
    BY <1>11, <1>f, SpendType DEF ReadSub, ReadSubError, Faults
  <2>2. worker[w].todo \in {SubOrder, <<"whois">>} /\ worker[w].pc = "read"
    BY <1>11 DEF ReadSub, ReadSubError, Shape
  <2>3. PICK new \in Seq(Outcome) : Merged(w, new)
    <3>1. Head(worker[w].todo) \in Parts
      BY <2>2, Walks DEF Parts
    <3>2. Sub(k.job, Head(worker[w].todo)) \in Keys
      BY <1>a, <2>2, <3>1, KeyTypes
    <3> QED BY <1>11, <1>a, <3>2, AddSubType DEF ReadSub, ReadSubError, Key
  <2> DEFINE r == [worker[w] EXCEPT !.todo = Tail(@), !.results = new,
                                    !.pc = IF Len(worker[w].todo) = 1 THEN "publish" ELSE "read"]
  <2>4. /\ Tail(worker[w].todo) \in Seq(Parts)
        /\ Len(worker[w].todo) # 1 => Tail(worker[w].todo) = <<"whois">>
    BY <1>b, <2>2, Walks
  <2>5. /\ r \in Worker /\ r.key \in Keys
        /\ r.pc = "read" => r.todo = <<"whois">>
    BY <1>a, <2>2, <2>4 DEF Worker, WorkerPCs, Key
  <2>6. worker' = [worker EXCEPT ![w] = r]
    BY <2>3 DEF Merged
  <2> HIDE DEF r
  <2> QED BY <1>11, <1>c, <1>f, <2>1, <2>5, <2>6 DEF ReadSub, ReadSubError
<1>12. CASE Publish(w)
  BY <1>12, <1>e, <1>f, <1>h DEF Publish
<1>13. CASE WriteLost(w)
  <2>1. used' \in [Faults -> Nat]
    BY <1>13, SpendType DEF WriteLost, Faults
  <2> QED BY <1>13, <1>d, <1>e, <1>f, <2>1 DEF WriteLost, Writing, WorkerPCs
<1>14. CASE Crash(w)
  <2>1. used' \in [Faults -> Nat]
    BY <1>14, SpendType DEF Crash, Faults
  <2> QED BY <1>14, <1>e, <1>f, <2>1 DEF Crash
<1> QED BY <1>1, <1>2, <1>3, <1>4, <1>5, <1>6, <1>7, <1>8, <1>9, <1>10, <1>11, <1>12, <1>13,
           <1>14 DEF WorkerStep, WorkerFault

(* Recovery and expiry keep the types. *)
LEMMA StoreTyped ==
    ASSUME Typed, FailStale \/ \E k \in Keys : ReadStale(k) \/ Expire(k)
    PROVE  Typed'
<1> USE DEF Typed
<1>1. ASSUME NEW k \in Keys, ReadStale(k) PROVE Typed'
  <2>1. used' \in [Faults -> Nat]
    BY <1>1, SpendType DEF ReadStale, Faults
  <2> QED BY <1>1, <2>1 DEF ReadStale, TypeOK, Shape
<1>2. ASSUME NEW k \in Keys, Expire(k) PROVE Typed'
  BY <1>2, AbsentType DEF Expire, TypeOK, Shape
<1>3. CASE FailStale
  <2>1. stale \in Keys
    BY <1>3 DEF FailStale, TypeOK
  <2>2. hash' \in [Keys -> Hash]
    <3>1. [hash[stale] EXCEPT !.status = "failed", !.ttl = TRUE] \in Hash
      BY <2>1 DEF TypeOK, Hash, Status
    <3> QED BY <1>3, <2>1, <3>1 DEF FailStale, TypeOK
  <2> QED BY <1>3, <2>2 DEF FailStale, TypeOK, Shape
<1> QED BY <1>1, <1>2, <1>3

LEMMA NextTyped == Typed /\ [Next]_vars => Typed'
<1> SUFFICES ASSUME Typed, [Next]_vars PROVE Typed'
  OBVIOUS
<1>1. CASE UNCHANGED vars
  BY <1>1 DEF vars, Typed, TypeOK, Shape
<1>2. CASE Next
  BY <1>2, ClientTyped, WorkerTyped, StoreTyped DEF Next
<1> QED BY <1>1, <1>2

(* Every variable keeps its type in every behaviour.  The pc, key and walk
   fields are where the handler's, the worker's and the merge's control
   points could disagree with what they index.                             *)
THEOREM TypeCorrect == Spec => []TypeOK
<1>1. Spec => []Typed
  BY InitTyped, NextTyped, PTL DEF Spec
<1>2. Typed => TypeOK
  BY DEF Typed
<1> QED BY <1>1, <1>2, PTL

-----------------------------------------------------------------------------
(* Delivery.  A step either appends one key that its handler had not pushed
   yet, or pops one key, or moves no key at all.                           *)

KeepsRoutes == \A j \in Jobs : client[j].pc # "idle" => client'[j].route = client[j].route
KeepsPushes == \A k \in Keys : Unpushed(k)' => Unpushed(k)
KeepsWork ==
    \A w \in Workers :
        /\ worker'[w].pc # "idle" => worker[w].pc # "idle" /\ worker'[w].key = worker[w].key
        /\ Unfinished(w)' => Unfinished(w)

Quiet == queue' = queue /\ KeepsRoutes /\ KeepsPushes /\ KeepsWork

Enqueues(k, l) ==
    /\ queue' \in {queue, [queue EXCEPT ![l] = Append(@, k)]}
    /\ Unpushed(k) /\ ~Unpushed(k)'
    /\ client[k.job].pc # "idle"
    /\ k.part \in Parts <=> IsSplit(client[k.job].route)
    /\ KeepsRoutes /\ KeepsPushes
    /\ worker' = worker

(* A handler that is past its pushes pushes nothing more. *)
LEMMA PastPushing ==
    ASSUME Typed, NEW j \in Jobs, NEW c, client' = [client EXCEPT ![j] = c],
           c.pc \notin {"idle", "push"}, c.route = client[j].route
    PROVE  KeepsRoutes /\ KeepsPushes
<1>1. ASSUME NEW k \in Keys, Unpushed(k)' PROVE Unpushed(k)
  <2>1. CASE k.job = j
    BY <1>1, <2>1 DEF Unpushed, Typed, TypeOK
  <2>2. CASE k.job # j
    <3>1. client'[k.job] = client[k.job]
      BY <2>2 DEF Typed, TypeOK, Keys
    <3> QED BY <1>1, <3>1 DEF Unpushed
  <2> QED BY <2>1, <2>2
<1> QED BY <1>1 DEF KeepsRoutes, KeepsPushes, Typed, TypeOK

LEMMA WorkersUnchanged == worker' = worker => KeepsWork
  BY DEF KeepsWork, Unfinished

LEMMA PushEnqueues ==
    ASSUME Typed, NEW j \in Jobs, Push(j) \/ PushError(j)
    PROVE  \E k \in Keys, l \in Lists : Enqueues(k, l)
<1> DEFINE c == client[j]
           p == Head(c.left)
<1>1. c.pc = "push" /\ c \in Client
  BY DEF Push, PushError, Typed, TypeOK
<1>2. /\ IsSplit(c.route) => c.left \in {SubOrder, <<"whois">>}
      /\ ~IsSplit(c.route) => c.left \in {<<"rdap">>, <<"whois">>}
  BY <1>1 DEF Typed, Shape
<1>3. /\ p \in Parts /\ In(p, c.left) /\ ~In(p, Tail(c.left))
      /\ \A x : In(x, Tail(c.left)) => In(x, c.left)
      /\ Len(c.left) = 1 \/ IsSplit(c.route)
  <2>1. \A x : ~In(x, <<>>)
    BY DEF In
  <2> QED BY <1>2, <2>1, Walks DEF Parts
<1>4. PICK k \in Keys, l \in Lists :
        k = PushedKey(j, c.route, p) /\ k.job = j /\ l = ListOf[p]
  BY <1>3, KeyTypes, PipelineAssumption
<1>5. k.part \in Parts <=> IsSplit(c.route)
  BY <1>3, <1>4, KeyTypes DEF PushedKey
<1>6. Unpushed(k)
  BY <1>1, <1>3, <1>4 DEF Unpushed
<1>7. /\ client'[j].pc \in {"push", "poll", "undo"}
      /\ client'[j].pc = "push" => client'[j].left = Tail(c.left) /\ IsSplit(c.route)
      /\ client'[j].route = c.route
      /\ \A i \in Jobs : i # j => client'[i] = client[i]
  BY <1>1, <1>3 DEF Push, PushError, Typed, TypeOK, Client
<1>8. KeepsRoutes
  BY <1>7 DEF KeepsRoutes
<1>9. KeepsPushes
  <2> SUFFICES ASSUME NEW x \in Keys, Unpushed(x)' PROVE Unpushed(x)
    BY DEF KeepsPushes
  <2>1. CASE x.job # j
    <3>1. client'[x.job] = client[x.job]
      BY <1>7, <2>1 DEF Keys
    <3> QED BY <3>1 DEF Unpushed
  <2>2. CASE x.job = j
    <3>1. PICK q \in Parts : In(q, Tail(c.left)) /\ x = PushedKey(j, c.route, q)
      BY <1>7, <2>2 DEF Unpushed
    <3> QED BY <1>1, <1>3, <2>2, <3>1 DEF Unpushed
  <2> QED BY <2>1, <2>2
<1>10. ~Unpushed(k)'
  <2> SUFFICES ASSUME Unpushed(k)' PROVE FALSE
    OBVIOUS
  <2>1. client'[j].pc = "push"
    BY <1>4, <1>7 DEF Unpushed
  <2>2. PICK q \in Parts : In(q, Tail(c.left)) /\ k = PushedKey(j, c.route, q)
    BY <1>4, <1>7, <2>1 DEF Unpushed
  <2>3. IsSplit(c.route) /\ k = Sub(j, q) /\ k = Sub(j, p)
    BY <1>4, <1>7, <2>1, <2>2 DEF PushedKey
  <2>4. p = q
    <3>1. Sub(j, p).part = p /\ Sub(j, q).part = q
      BY DEF Sub
    <3> QED BY <2>3, <3>1
  <2> QED BY <1>3, <2>2, <2>4
<1>11. queue' \in {queue, [queue EXCEPT ![l] = Append(@, k)]} /\ worker' = worker
  BY <1>4 DEF Push, PushError, Pushed
<1>12. client[k.job].pc # "idle" /\ (k.part \in Parts <=> IsSplit(client[k.job].route))
  BY <1>1, <1>4, <1>5
<1>13. Enqueues(k, l)
  BY <1>6, <1>8, <1>9, <1>10, <1>11, <1>12 DEF Enqueues
<1> QED BY <1>4, <1>13

(* A handler that has not written its hashes yet. *)
LEMMA BeforePushing ==
    ASSUME Typed, NEW j \in Jobs, NEW c, client' = [client EXCEPT ![j] = c],
           client[j].pc = "idle"
    PROVE  KeepsRoutes /\ KeepsPushes
<1>1. ASSUME NEW k \in Keys, Unpushed(k)' PROVE Unpushed(k)
  <2>1. CASE k.job = j
    BY <2>1 DEF Unpushed
  <2>2. CASE k.job # j
    <3>1. client'[k.job] = client[k.job]
      BY <2>2 DEF Typed, TypeOK, Keys
    <3> QED BY <1>1, <3>1 DEF Unpushed
  <2> QED BY <2>1, <2>2
<1> QED BY <1>1 DEF KeepsRoutes, KeepsPushes, Typed, TypeOK

LEMMA HandlersUnchanged == client' = client => KeepsRoutes /\ KeepsPushes
  BY DEF KeepsRoutes, KeepsPushes, Unpushed

LEMMA ClientQuiet ==
    ASSUME Typed, NEW j \in Jobs, Submit(j) \/ ClientStep(j) \/ ClientFault(j),
           ~Push(j), ~PushError(j)
    PROVE  Quiet
<1>1. queue' = queue /\ worker' = worker
  BY DEF Submit, SubmitError, ClientStep, ClientFault, Undo, Poll, PollTimeout, Fetch, Drain,
         DrainSub, ClientError, ApiCrash
<1>2. CASE Submit(j) \/ SubmitError(j)
  <2>1. client[j].pc = "idle" /\ \E c : client' = [client EXCEPT ![j] = c]
    BY <1>2 DEF Submit, SubmitError
  <2> QED BY <1>1, <2>1, BeforePushing, WorkersUnchanged DEF Quiet
<1>3. CASE ~Submit(j) /\ ~SubmitError(j)
  <2>1. client[j] \in Client
    BY DEF Typed, TypeOK
  <2>2. ASSUME NEW pc \in {"fetch", "drain"}, GoTo(j, pc)
        PROVE  \E c : /\ client' = [client EXCEPT ![j] = c]
                      /\ c.pc \notin {"idle", "push"} /\ c.route = client[j].route
    <3> DEFINE c == [client[j] EXCEPT !.pc = pc]
    <3>1. c.pc \notin {"idle", "push"} /\ c.route = client[j].route
      BY <2>1 DEF Client
    <3> QED BY <2>2, <3>1 DEF GoTo
  <2>3. ASSUME NEW a, NEW res, Answer(j, a, res)
        PROVE  \E c : /\ client' = [client EXCEPT ![j] = c]
                      /\ c.pc \notin {"idle", "push"} /\ c.route = client[j].route
    <3> DEFINE c == [client[j] EXCEPT !.pc = "done", !.left = <<>>, !.answer = a, !.results = res]
    <3>1. c.pc \notin {"idle", "push"} /\ c.route = client[j].route
      BY <2>1 DEF Client
    <3> QED BY <2>3, <3>1 DEF Answer
  <2>4. \E c : /\ client' = [client EXCEPT ![j] = c]
               /\ c.pc \notin {"idle", "push"} /\ c.route = client[j].route
    <3>1. CASE Undo(j) \/ Fetch(j) \/ ClientError(j)
      BY <2>3, <3>1 DEF Undo, Fetch, ClientError
    <3>2. CASE Poll(j) \/ PollTimeout(j)
      BY <2>2, <2>3, <3>2 DEF Poll, PollTimeout, GiveUp
    <3>3. CASE Drain(j)
      <4> DEFINE c == [client[j] EXCEPT !.pc = "drain_subs", !.left = SubOrder, !.results = Gaps(N)]
      <4>1. c.pc \notin {"idle", "push"} /\ c.route = client[j].route
        BY <2>1 DEF Client
      <4>2. client' = [client EXCEPT ![j] = c] \/ Answer(j, "partial", hash[Parent(j)].results)
        BY <3>3 DEF Drain
      <4> HIDE DEF c
      <4> QED BY <2>3, <4>1, <4>2
    <3>4. CASE DrainSub(j)
      <4> DEFINE res == AddSub(client[j].results, Sub(j, Head(client[j].left)))
                 c == [client[j] EXCEPT !.left = Tail(client[j].left), !.results = res]
      <4>1. c.pc = client[j].pc /\ c.route = client[j].route /\ client[j].pc = "drain_subs"
        BY <2>1, <3>4 DEF Client, DrainSub
      <4>2. client' = [client EXCEPT ![j] = c] \/ Answer(j, "partial", res)
        BY <3>4 DEF DrainSub
      <4> HIDE DEF c, res
      <4> QED BY <2>3, <4>1, <4>2
    <3>5. CASE ApiCrash(j)
      <4> DEFINE c == [client[j] EXCEPT !.pc = "dead", !.left = <<>>, !.results = <<>>]
      <4>1. c.pc \notin {"idle", "push"} /\ c.route = client[j].route
        BY <2>1 DEF Client
      <4>2. client' = [client EXCEPT ![j] = c]
        BY <3>5 DEF ApiCrash
      <4> HIDE DEF c
      <4> QED BY <4>1, <4>2
    <3> QED BY <1>3, <3>1, <3>2, <3>3, <3>4, <3>5 DEF ClientStep, ClientFault
  <2> QED BY <1>1, <2>4, PastPushing, WorkersUnchanged DEF Quiet
<1> QED BY <1>2, <1>3

LEMMA WorkerQuiet ==
    ASSUME Typed, NEW w \in Workers, WorkerStep(w) \/ WorkerFault(w), ~Pop(w)
    PROVE  Quiet
<1>1. queue' = queue /\ client' = client
  BY DEF WorkerStep, WorkerFault, Claim, Check, CompleteSub, DirectWrite, FailJob, SetTTL, Merge,
         ReadSub, Publish, ClaimError, CompleteSubError, MergeError, ReadSubError, WriteLost, Crash
<1>2. \A v \in Workers : v # w => worker'[v] = worker[v]
  BY DEF WorkerStep, WorkerFault, Claim, Check, CompleteSub, DirectWrite, FailJob, SetTTL, Merge,
         ReadSub, Publish, ClaimError, CompleteSubError, MergeError, ReadSubError, WriteLost, Crash,
         WorkerTo, WorkerIdle, Merged, Typed, TypeOK
<1>3. /\ worker'[w].pc # "idle" => worker[w].pc # "idle" /\ worker'[w].key = worker[w].key
      /\ worker'[w].pc \in {"claim", "check", "complete", "fail"} =>
            worker[w].pc \in {"claim", "check", "complete", "fail"}
  <2>1. worker[w] \in Worker /\ IdleWorker.pc = "idle"
    BY DEF Typed, TypeOK, IdleWorker
  <2>2. CASE Claim(w) \/ ClaimError(w) \/ Check(w) \/ DirectWrite(w) \/ FailJob(w)
             \/ CompleteSubError(w)
    BY <2>1, <2>2 DEF Claim, ClaimError, Check, DirectWrite, FailJob, CompleteSubError, WorkerTo,
                      Typed, TypeOK, Worker, Writing
  <2>3. CASE CompleteSub(w) \/ Merge(w) \/ MergeError(w)
    BY <2>1, <2>3 DEF CompleteSub, Merge, MergeError, WorkerIdle, Typed, TypeOK, Worker
  <2>4. CASE ReadSub(w) \/ ReadSubError(w)
    BY <2>1, <2>4 DEF ReadSub, ReadSubError, Merged, Typed, TypeOK, Worker
  <2>5. CASE Publish(w) \/ SetTTL(w) \/ Crash(w)
    BY <2>1, <2>5 DEF Publish, SetTTL, Crash, WorkerIdle, Typed, TypeOK, Worker
  <2>6. CASE WriteLost(w)
    BY <2>1, <2>6 DEF WriteLost, WorkerIdle, WorkerTo, Typed, TypeOK, Worker, Writing
  <2> QED BY <2>2, <2>3, <2>4, <2>5, <2>6 DEF WorkerStep, WorkerFault
<1>4. KeepsWork
  BY <1>2, <1>3 DEF KeepsWork, Unfinished
<1> QED BY <1>1, <1>4, HandlersUnchanged DEF Quiet

LEMMA StepKinds ==
    ASSUME Typed, [Next]_vars
    PROVE  \/ Quiet
           \/ \E k \in Keys, l \in Lists : Enqueues(k, l)
           \/ \E w \in Workers : Pop(w)
<1>1. CASE UNCHANGED <<queue, client, worker>>
  BY <1>1, HandlersUnchanged, WorkersUnchanged DEF Quiet
<1>2. ASSUME NEW j \in Jobs, Submit(j) \/ ClientStep(j) \/ ClientFault(j)
      PROVE  Quiet \/ \E k \in Keys, l \in Lists : Enqueues(k, l)
  BY <1>2, PushEnqueues, ClientQuiet
<1>3. ASSUME NEW w \in Workers, WorkerStep(w) \/ WorkerFault(w)
      PROVE  Quiet \/ Pop(w)
  BY <1>3, WorkerQuiet
<1>4. ASSUME FailStale \/ \E k \in Keys : ReadStale(k) \/ Expire(k)
      PROVE  UNCHANGED <<queue, client, worker>>
  BY <1>4 DEF FailStale, ReadStale, Expire
<1> QED BY <1>1, <1>2, <1>3, <1>4 DEF Next, vars

LEMMA InitDelivery == Init => Delivery
<1> SUFFICES ASSUME Init PROVE Delivery
  OBVIOUS
<1>1. \A l \in Lists : queue[l] = <<>>
  BY DEF Init
<1>2. \A w \in Workers : worker[w].pc = "idle"
  BY DEF Init, IdleWorker
<1>3. (\A k \in Keys : ~Queued(k) /\ ~Held(k)) /\ \A l \in Lists : \A x : ~In(x, queue[l])
  BY <1>1, <1>2 DEF Queued, Held, In
<1>4. PushedOnce /\ RightKind
  BY <1>3 DEF PushedOnce, RightKind
<1>5. ExclusiveDelivery
  BY <1>1, <1>2 DEF ExclusiveDelivery, In
<1> QED BY <1>4, <1>5 DEF Delivery

LEMMA QuietDelivery == ASSUME Typed, Delivery, Quiet PROVE Delivery'
<1> USE DEF Quiet, Delivery
<1>1. \A k \in Keys : (Queued(k)' => Queued(k)) /\ (Held(k)' => Held(k))
  BY DEF Queued, Held, KeepsWork, Key
<1>2. PushedOnce'
  BY <1>1 DEF PushedOnce, KeepsPushes
<1>3. RightKind'
  <2> SUFFICES ASSUME NEW k \in Keys, Queued(k)' \/ Held(k)'
               PROVE  k.part \in Parts <=> IsSplit(client'[k.job].route)
    BY DEF RightKind, IsSplit
  <2>1. client[k.job].pc # "idle"
    BY <1>1 DEF PushedOnce, Unpushed
  <2>2. client'[k.job].route = client[k.job].route
    BY <2>1 DEF KeepsRoutes, Keys
  <2> QED BY <1>1, <2>2 DEF RightKind
<1>4. ExclusiveDelivery'
  <2>1. \A w \in Workers : worker'[w].pc # "idle" => worker[w].pc # "idle" /\ Key(w)' = Key(w)
    BY DEF KeepsWork, Key
  <2> QED BY <2>1 DEF ExclusiveDelivery
<1> QED BY <1>2, <1>3, <1>4

LEMMA EnqueuesDelivery ==
    ASSUME Typed, Delivery, NEW k \in Keys, NEW l \in Lists, Enqueues(k, l)
    PROVE  Delivery'
<1> USE DEF Enqueues, Delivery
<1>1. ~Queued(k) /\ ~Held(k)
  BY DEF PushedOnce
<1>2. ASSUME NEW m \in Lists, NEW x, In(x, queue'[m])
      PROVE  In(x, queue[m]) \/ (x = k /\ m = l)
  <2>1. queue[m] \in Seq(Keys) /\ (m # l => queue'[m] = queue[m])
        /\ (m = l => queue'[m] \in {queue[m], Append(queue[m], k)})
    BY DEF Typed, TypeOK
  <2> QED BY <1>2, <2>1, InAppend
<1>3. \A x \in Keys : (Queued(x)' => Queued(x) \/ x = k) /\ (Held(x)' <=> Held(x))
  BY <1>2 DEF Queued, Held, Key
<1>4. PushedOnce'
  BY <1>3 DEF PushedOnce, KeepsPushes
<1>5. RightKind'
  <2> SUFFICES ASSUME NEW x \in Keys, Queued(x)' \/ Held(x)'
               PROVE  x.part \in Parts <=> IsSplit(client'[x.job].route)
    BY DEF RightKind, IsSplit
  <2>1. client[x.job].pc # "idle"
    BY <1>3 DEF PushedOnce, Unpushed
  <2>2. client'[x.job].route = client[x.job].route
    BY <2>1 DEF KeepsRoutes, Keys
  <2> QED BY <1>3, <2>2 DEF RightKind
<1>6. ExclusiveDelivery'
  <2>1. ASSUME NEW m \in Lists, NEW a \in DOMAIN queue'[m], NEW b \in DOMAIN queue'[m],
               queue'[m][a] = queue'[m][b]
        PROVE  a = b
    <3>1. queue[m] \in Seq(Keys) /\ ~In(k, queue[m])
      BY <1>1 DEF Typed, TypeOK, Queued
    <3>2. CASE queue'[m] = queue[m]
      BY <2>1, <3>2 DEF ExclusiveDelivery
    <3>3. CASE queue'[m] = Append(queue[m], k)
      <4>1. /\ DOMAIN queue'[m] = 1..(Len(queue[m]) + 1)
            /\ DOMAIN queue[m] = 1..Len(queue[m])
            /\ Len(queue[m]) \in Nat
            /\ \A i \in DOMAIN queue[m] : queue'[m][i] = queue[m][i] /\ queue[m][i] # k
            /\ queue'[m][Len(queue[m]) + 1] = k
        BY <3>1, <3>3 DEF In
      <4>2. \A i, j \in DOMAIN queue[m] : queue[m][i] = queue[m][j] => i = j
        BY DEF ExclusiveDelivery
      <4>3. \A i \in DOMAIN queue'[m] : i \in DOMAIN queue[m] \/ i = Len(queue[m]) + 1
        BY <4>1
      <4> QED BY <2>1, <4>1, <4>2, <4>3
    <3> QED BY <3>2, <3>3 DEF Typed, TypeOK
  <2>2. ASSUME NEW m \in Lists, NEW n \in Lists, NEW x \in Keys,
               In(x, queue'[m]), In(x, queue'[n])
        PROVE  m = n
    BY <1>1, <1>2, <2>2 DEF ExclusiveDelivery, Queued
  <2>3. ASSUME NEW w \in Workers, worker'[w].pc # "idle", NEW m \in Lists,
               In(worker'[w].key, queue'[m])
        PROVE  FALSE
    BY <1>1, <1>2, <2>3 DEF ExclusiveDelivery, Held, Key
  <2>4. \A v, w \in Workers :
            worker'[v].pc # "idle" /\ worker'[w].pc # "idle" /\ worker'[v].key = worker'[w].key
              => v = w
    BY DEF ExclusiveDelivery, Key
  <2> QED BY <2>1, <2>2, <2>3, <2>4 DEF ExclusiveDelivery, In, Key
<1> QED BY <1>4, <1>5, <1>6

LEMMA PopDelivery ==
    ASSUME Typed, Delivery, NEW w \in Workers, Pop(w)
    PROVE  Delivery'
<1> USE DEF Delivery
<1> DEFINE l == WorkerList[w]
           k == Head(queue[l])
<1>1. /\ l \in Lists /\ queue[l] \in Seq(Keys) /\ queue[l] # <<>>
      /\ client' = client
      /\ queue'[l] = Tail(queue[l]) /\ \A m \in Lists : m # l => queue'[m] = queue[m]
      /\ worker'[w].key = k
      /\ \A v \in Workers : v # w => worker'[v] = worker[v]
  BY PipelineAssumption DEF Pop, Typed, TypeOK, IdleWorker
<1>2. k \in Keys /\ In(k, queue[l]) /\ Queued(k)
  BY <1>1, InHead DEF Queued
<1>3. /\ DOMAIN queue[l] = 1..Len(queue[l])
      /\ DOMAIN queue'[l] = 1..(Len(queue[l]) - 1)
      /\ Len(queue[l]) \in Nat \ {0}
      /\ \A i \in DOMAIN queue'[l] : i + 1 \in DOMAIN queue[l] /\ queue'[l][i] = queue[l][i + 1]
      /\ queue[l][1] = k
  BY <1>1
<1> HIDE DEF l, k
<1>4. /\ \A m \in Lists : \A x : In(x, queue'[m]) => In(x, queue[m])
      /\ \A m \in Lists : ~In(k, queue'[m])
  <2>1. ASSUME NEW x, In(x, queue'[l]) PROVE In(x, queue[l]) /\ x # k
    <3>1. PICK i \in DOMAIN queue'[l] : queue'[l][i] = x
      BY <2>1 DEF In
    <3>2. i + 1 # 1 /\ 1 \in DOMAIN queue[l]
      BY <1>3
    <3>3. \A a, b \in DOMAIN queue[l] : queue[l][a] = queue[l][b] => a = b
      BY <1>1 DEF ExclusiveDelivery
    <3> QED BY <1>3, <3>1, <3>2, <3>3 DEF In
  <2>2. \A m \in Lists : In(k, queue[m]) => m = l
    BY <1>1, <1>2 DEF ExclusiveDelivery
  <2> QED BY <1>1, <2>1, <2>2
<1>5. \A x \in Keys : (Queued(x)' => Queued(x)) /\ (Held(x)' => Held(x) \/ x = k)
  BY <1>1, <1>4 DEF Queued, Held, Key
<1>6. \A x \in Keys : Unpushed(x)' <=> Unpushed(x)
  BY <1>1 DEF Unpushed
<1>7. PushedOnce'
  BY <1>2, <1>5, <1>6 DEF PushedOnce
<1>8. RightKind'
  BY <1>1, <1>2, <1>5 DEF RightKind, IsSplit
<1>9. ExclusiveDelivery'
  <2>1. \A m \in Lists : \A a, b \in DOMAIN queue'[m] : queue'[m][a] = queue'[m][b] => a = b
    <3>1. \A a, b \in DOMAIN queue[l] : queue[l][a] = queue[l][b] => a = b
      BY <1>1 DEF ExclusiveDelivery
    <3>2. ASSUME NEW a \in DOMAIN queue'[l], NEW b \in DOMAIN queue'[l],
                 queue'[l][a] = queue'[l][b]
          PROVE  a = b
      <4>1. a + 1 = b + 1
        BY <1>3, <3>1, <3>2
      <4> QED BY <1>3, <4>1
    <3> QED BY <1>1, <3>2 DEF ExclusiveDelivery
  <2>2. \A m, n \in Lists : \A x \in Keys : In(x, queue'[m]) /\ In(x, queue'[n]) => m = n
    BY <1>4 DEF ExclusiveDelivery
  <2>3. \A v \in Workers : worker'[v].pc # "idle" => \A m \in Lists : ~In(worker'[v].key, queue'[m])
    BY <1>1, <1>4 DEF ExclusiveDelivery, Key
  <2>4. \A v \in Workers : v # w /\ worker'[v].pc # "idle" => worker'[v].key # k
    BY <1>1, <1>2 DEF ExclusiveDelivery, Key
  <2>5. \A v, u \in Workers :
            worker'[v].pc # "idle" /\ worker'[u].pc # "idle" /\ worker'[v].key = worker'[u].key
              => v = u
    BY <1>1, <2>4 DEF ExclusiveDelivery, Key
  <2> QED BY <2>1, <2>2, <2>3, <2>5 DEF ExclusiveDelivery, Key
<1> QED BY <1>7, <1>8, <1>9

LEMMA NextDelivery == ASSUME Typed, Delivery, [Next]_vars PROVE Delivery'
  BY StepKinds, QuietDelivery, EnqueuesDelivery, PopDelivery

-----------------------------------------------------------------------------
(* Completion.  A key that is spent stays so, a key is completed by the
   worker that holds it or by the merge, and only a completing sub-job's
   worker starts to merge.                                                 *)

LEMMA SpentStable ==
    ASSUME Typed, Delivery, [Next]_vars, NEW k \in Keys, Spent(k)
    PROVE  Spent(k)'
<1>1. CASE Quiet
  BY <1>1 DEF Quiet, KeepsPushes, KeepsWork, Spent, Queued, Key, Unfinished
<1>2. ASSUME NEW x \in Keys, NEW l \in Lists, Enqueues(x, l) PROVE Spent(k)'
  <2>1. x # k /\ worker' = worker /\ (Unpushed(k)' => Unpushed(k))
    BY <1>2 DEF Enqueues, Spent, KeepsPushes
  <2>2. ASSUME NEW m \in Lists, In(k, queue'[m]) PROVE In(k, queue[m])
    <3>1. /\ queue[m] \in Seq(Keys)
          /\ queue'[m] \in {queue[m], Append(queue[m], x)}
      BY <1>2 DEF Enqueues, Typed, TypeOK
    <3>2. In(k, Append(queue[m], x)) <=> In(k, queue[m]) \/ k = x
      BY <3>1, InAppend
    <3>3. CASE queue'[m] = queue[m]
      BY <2>2, <3>3
    <3>4. CASE queue'[m] = Append(queue[m], x)
      BY <2>1, <2>2, <3>2, <3>4
    <3> QED BY <3>1, <3>3, <3>4
  <2> QED BY <2>1, <2>2 DEF Spent, Queued, Key, Unfinished
<1>3. ASSUME NEW w \in Workers, Pop(w) PROVE Spent(k)'
  <2> DEFINE l == WorkerList[w]
  <2>1. /\ l \in Lists /\ queue[l] \in Seq(Keys) /\ queue[l] # <<>>
        /\ client' = client
        /\ queue' = [queue EXCEPT ![l] = Tail(queue[l])]
        /\ worker'[w].key = Head(queue[l])
        /\ \A v \in Workers : v # w => worker'[v] = worker[v]
    BY <1>3, PipelineAssumption DEF Pop, Typed, TypeOK, IdleWorker
  <2>2. ~In(k, queue[l]) /\ k # Head(queue[l])
    BY <2>1, InHead DEF Spent, Queued
  <2>3. \A m \in Lists : In(k, queue'[m]) => In(k, queue[m])
    BY <2>1, InTail DEF Typed, TypeOK
  <2> HIDE DEF l
  <2>4. \A v \in Workers : Unfinished(v)' => worker'[v].key # k
    BY <2>1, <2>2 DEF Spent, Unfinished, Key
  <2>5. ~Unpushed(k)'
    BY <2>1 DEF Spent, Unpushed
  <2> QED BY <2>3, <2>4, <2>5 DEF Spent, Queued, Key
<1> QED BY <1>1, <1>2, <1>3, StepKinds

(* Who completes a hash. *)
LEMMA NewlyCompleted ==
    ASSUME Typed, [Next]_vars, NEW k \in Keys,
           hash'[k].status = "completed", hash[k].status # "completed"
    PROVE  \E w \in Workers :
              \/ /\ Quiet
                 /\ worker[w].pc \in {"complete", "write"} /\ Key(w) = k
                 /\ ~Unfinished(w)'
              \/ Merging(w) /\ k.job = Key(w).job
<1> USE DEF Typed
<1>1. hash[k] \in Hash /\ Absent.status # "completed" /\ Created.status # "completed"
  BY DEF TypeOK, Absent, Created
<1>2. ASSUME NEW j \in Jobs, Submit(j) \/ ClientStep(j) \/ ClientFault(j) PROVE FALSE
  <2>1. hash'[k] \in {hash[k], Absent, Created}
    BY <1>2 DEF Submit, SubmitError, CreateHashes, ClientStep, ClientFault, Push, PushError, Undo,
                Poll, PollTimeout, Fetch, Drain, DrainSub, ClientError, ApiCrash
  <2> QED BY <1>1, <2>1
<1>3. ~(FailStale \/ \E x \in Keys : ReadStale(x) \/ Expire(x))
  <2>1. ~FailStale
    BY <1>1 DEF FailStale, TypeOK, Hash
  <2>2. ASSUME NEW x \in Keys, ReadStale(x) \/ Expire(x) PROVE FALSE
    BY <1>1, <2>2 DEF ReadStale, Expire, TypeOK
  <2> QED BY <2>1, <2>2
<1>4. ASSUME NEW w \in Workers, WorkerStep(w) \/ WorkerFault(w)
      PROVE  \/ /\ Quiet
                /\ worker[w].pc \in {"complete", "write"} /\ Key(w) = k
                /\ ~Unfinished(w)'
             \/ Merging(w) /\ k.job = Key(w).job
  <2>0. worker[w] \in Worker
    BY DEF TypeOK
  <2>1. CASE CompleteSub(w) \/ CompleteSubError(w) \/ DirectWrite(w)
    <3>1. worker[w].pc \in {"complete", "write"}
      BY <2>1 DEF CompleteSub, CompleteSubError, DirectWrite, Writing
    <3>2. Key(w) = k
      BY <1>1, <2>1 DEF CompleteSub, CompleteSubError, DirectWrite, Finished, FinishedTTL, TypeOK
    <3>3. worker'[w].pc \in {"merge", "idle", "write", "expire"}
      BY <2>0, <2>1 DEF CompleteSub, CompleteSubError, DirectWrite, WorkerTo, WorkerIdle,
                        IdleWorker, TypeOK, Worker
    <3>4. ~Pop(w)
      BY <3>1 DEF Pop
    <3> QED BY <1>4, <3>1, <3>2, <3>3, <3>4, WorkerQuiet DEF Unfinished
  <2>2. CASE Publish(w)
    <3>1. k = ParentKey(w)
      BY <1>1, <2>2 DEF Publish, FinishedTTL, TypeOK
    <3> QED BY <2>2, <3>1 DEF Publish, Merging, ParentKey, Parent
  <2>3. CASE Claim(w) \/ ClaimError(w) \/ FailJob(w) \/ SetTTL(w)
    <3>1. \A s : Marked(Key(w), s)[k].status \in {hash[k].status, s}
      BY DEF Marked, TypeOK, Hash
    <3>2. CASE Claim(w) \/ ClaimError(w) \/ FailJob(w)
      <4>1. hash' \in {hash, Marked(Key(w), "processing"), Marked(Key(w), "failed")}
        BY <3>2 DEF Claim, ClaimError, FailJob
      <4> QED BY <3>1, <4>1
    <3>3. CASE SetTTL(w)
      <4>1. hash'[k].status = hash[k].status
        BY <1>1, <3>3 DEF SetTTL, TypeOK, Hash
      <4> QED BY <4>1
    <3> QED BY <2>3, <3>2, <3>3
  <2>4. CASE hash' = hash
    BY <2>4
  <2> QED BY <1>4, <2>1, <2>2, <2>3, <2>4
          DEF WorkerStep, WorkerFault, Pop, Check, Merge, ReadSub, MergeError, ReadSubError,
              WriteLost, Crash
<1> QED BY <1>2, <1>3, <1>4 DEF Next, vars

LEMMA CompletedStep ==
    ASSUME Typed, Delivery, Completion, [Next]_vars
    PROVE  CompletedIsSpent'
<1> SUFFICES ASSUME NEW k \in Keys, hash'[k].status = "completed" PROVE Spent(k)'
  BY DEF CompletedIsSpent
<1>1. CASE hash[k].status = "completed"
  BY <1>1, SpentStable DEF Completion, CompletedIsSpent
<1>2. CASE hash[k].status # "completed"
  <2>1. ASSUME NEW w \in Workers, Quiet, worker[w].pc \in {"complete", "write"}, Key(w) = k,
               ~Unfinished(w)'
        PROVE  Spent(k)'
    <3>1. ~Unpushed(k) /\ \A l \in Lists : ~In(k, queue[l])
      BY <2>1 DEF Delivery, PushedOnce, Held, ExclusiveDelivery
    <3>2. ~Unpushed(k)' /\ ~Queued(k)'
      BY <2>1, <3>1 DEF Quiet, KeepsPushes, Queued
    <3>3. ASSUME NEW v \in Workers, Unfinished(v)', worker'[v].key = k PROVE FALSE
      <4>1. worker'[v].pc # "idle"
        BY <3>3 DEF Unfinished
      <4>2. worker[v].pc # "idle" /\ Key(v) = k
        BY <2>1, <3>3, <4>1 DEF Quiet, KeepsWork, Key
      <4>3. v = w
        BY <2>1, <4>2 DEF Delivery, ExclusiveDelivery
      <4> QED BY <2>1, <3>3, <4>3
    <3> QED BY <3>2, <3>3 DEF Spent, Key
  <2>2. ASSUME NEW w \in Workers, Merging(w), k.job = Key(w).job PROVE Spent(k)'
    BY <2>2, SpentStable DEF Completion, MergingIsSpent
  <2> QED BY <1>2, <2>1, <2>2, NewlyCompleted
<1> QED BY <1>1, <1>2

(* Who merges. *)
LEMMA NewlyMerging ==
    ASSUME Typed, [Next]_vars, NEW w \in Workers, Merging(w)'
    PROVE  /\ worker'[w].key = Key(w)
           /\ Merging(w) \/ CompleteSub(w)
           /\ CompleteSub(w) => /\ \A p \in Parts : hash'[Sub(Key(w).job, p)].status = "completed"
                                /\ worker[w].pc = "complete" /\ Key(w).part \in Parts
                                /\ \A v \in Workers : v # w => worker'[v] = worker[v]
<1> USE DEF Typed
<1>0. worker[w] \in Worker
  BY DEF TypeOK
<1>1. CASE worker'[w] = worker[w]
  <2>1. ~CompleteSub(w)
    BY <1>1 DEF CompleteSub, Merging
  <2> QED BY <1>1, <2>1 DEF Merging, Key
<1>2. ASSUME worker'[w] # worker[w] PROVE WorkerStep(w) \/ WorkerFault(w)
  <2>1. worker' # worker
    BY <1>2
  <2>2. ~\E j \in Jobs : Submit(j) \/ ClientStep(j) \/ ClientFault(j)
    BY <2>1 DEF Submit, SubmitError, ClientStep, ClientFault, Push, PushError, Undo, Poll,
                PollTimeout, Fetch, Drain, DrainSub, ClientError, ApiCrash
  <2>3. ~(FailStale \/ \E x \in Keys : ReadStale(x) \/ Expire(x))
    BY <2>1 DEF FailStale, ReadStale, Expire
  <2>4. PICK v \in Workers : WorkerStep(v) \/ WorkerFault(v)
    BY <2>1, <2>2, <2>3 DEF Next, vars
  <2>5. \A u \in Workers : u # v => worker'[u] = worker[u]
    BY <2>4 DEF WorkerStep, WorkerFault, Claim, Check, CompleteSub, DirectWrite, FailJob, SetTTL,
                Merge, ReadSub, Publish, ClaimError, CompleteSubError, MergeError, ReadSubError,
                WriteLost, Crash, Pop, WorkerTo, WorkerIdle, Merged, TypeOK
  <2> QED BY <1>2, <2>4, <2>5
<1>3. CASE CompleteSub(w)
  <2>1. ~WorkerIdle(w)
    BY <1>0 DEF Merging, WorkerIdle, IdleWorker, TypeOK
  <2>2. /\ AllDone(FinishedTTL(Key(w), worker[w].results), Key(w).job)
        /\ worker' = [worker EXCEPT ![w].pc = "merge", ![w].results = <<>>]
        /\ hash' = FinishedTTL(Key(w), worker[w].results)
    BY <1>3, <2>1 DEF CompleteSub
  <2>3. /\ worker'[w].key = Key(w)
        /\ \A v \in Workers : v # w => worker'[v] = worker[v]
    BY <1>0, <2>2 DEF TypeOK, Worker, Key
  <2> QED BY <1>3, <2>2, <2>3 DEF CompleteSub, AllDone
<1>4. CASE ~CompleteSub(w) /\ worker'[w] # worker[w]
  <2>1. CASE Merge(w) \/ MergeError(w)
    <3>1. worker[w].pc = "merge" /\ (worker'[w].pc = "idle" \/ worker'[w].key = Key(w))
      BY <1>0, <2>1 DEF Merge, MergeError, WorkerIdle, IdleWorker, TypeOK, Worker, Key
    <3> QED BY <1>4, <3>1 DEF Merging
  <2>2. CASE ReadSub(w) \/ ReadSubError(w)
    <3>1. worker[w].pc = "read" /\ worker'[w].key = Key(w)
      BY <1>0, <2>2 DEF ReadSub, ReadSubError, Merged, TypeOK, Worker, Key
    <3> QED BY <1>4, <3>1 DEF Merging
  <2>3. CASE ~(Merge(w) \/ MergeError(w) \/ ReadSub(w) \/ ReadSubError(w))
    <3>1. CASE WorkerIdle(w)
      BY <3>1 DEF WorkerIdle, IdleWorker, Merging, TypeOK
    <3>2. CASE \E pc \in {"check", "fail", "expire", "write"} : WorkerTo(w, pc)
      BY <1>0, <3>2 DEF WorkerTo, Merging, TypeOK, Worker
    <3>3. CASE Check(w)
      BY <1>0, <3>3 DEF Check, Merging, TypeOK, Worker
    <3>4. CASE Pop(w)
      BY <1>0, <3>4 DEF Pop, IdleWorker, Merging, TypeOK, Worker
    <3> QED BY <1>2, <1>4, <2>3, <3>1, <3>2, <3>3, <3>4
            DEF WorkerStep, WorkerFault, Claim, DirectWrite, FailJob, SetTTL, Publish, ClaimError,
                CompleteSubError, WriteLost, Crash
  <2> QED BY <2>1, <2>2, <2>3
<1> QED BY <1>1, <1>3, <1>4

(* A sub-job that is delivered has a parent that never is. *)
LEMMA ParentSpent ==
    ASSUME Typed, Delivery, NEW w \in Workers, worker[w].pc # "idle", Key(w).part \in Parts
    PROVE  Spent(Parent(Key(w).job))
<1> DEFINE j == Key(w).job
<1>0. Key(w) \in Keys /\ j \in Jobs
  BY DEF Typed, Shape, Key, Keys
<1>1. Parent(j) \in Keys /\ Parent(j).job = j /\ Parent(j).part \notin Parts
  BY <1>0, KeyTypes
<1>2. Held(Key(w))
  BY DEF Held
<1>3. IsSplit(client[j].route) /\ client[j].pc # "idle"
  BY <1>0, <1>2 DEF Delivery, RightKind, PushedOnce, Unpushed
<1>4. ~Unpushed(Parent(j))
  BY <1>0, <1>1, <1>3, KeyTypes DEF Unpushed, PushedKey
<1>5. ~Queued(Parent(j)) /\ ~Held(Parent(j))
  BY <1>1, <1>3 DEF Delivery, RightKind
<1>6. \A v \in Workers : Unfinished(v) => Key(v) # Parent(j)
  BY <1>5 DEF Held, Unfinished
<1> QED BY <1>4, <1>5, <1>6 DEF Spent

LEMMA MergingStep ==
    ASSUME Typed, Delivery, Completion, [Next]_vars, CompletedIsSpent'
    PROVE  MergingIsSpent' /\ SingleMerger'
<1>1. ASSUME NEW w \in Workers, Merging(w)'
      PROVE  worker'[w].key.part \in Parts
             /\ \A k \in Keys : k.job = worker'[w].key.job => Spent(k)'
  <2>1. CASE Merging(w)
    BY <1>1, <2>1, NewlyMerging, SpentStable DEF Completion, MergingIsSpent
  <2>2. CASE CompleteSub(w)
    <3>1. /\ worker'[w].key = Key(w) /\ Key(w).part \in Parts /\ worker[w].pc = "complete"
          /\ \A p \in Parts : hash'[Sub(Key(w).job, p)].status = "completed"
      BY <1>1, <2>2, NewlyMerging
    <3>2. Key(w) \in Keys /\ Key(w).job \in Jobs
      BY <3>1 DEF Typed, Shape, Key, Keys
    <3>3. ASSUME NEW k \in Keys, k.job = Key(w).job PROVE Spent(k)'
      <4>1. k = Parent(Key(w).job) \/ \E p \in Parts : k = Sub(Key(w).job, p)
        BY <3>3 DEF Keys, Parent, Sub
      <4>2. CASE k = Parent(Key(w).job)
        <5>1. Spent(Parent(Key(w).job))
          BY <3>1, ParentSpent
        <5>2. Spent(k)
          BY <4>2, <5>1
        <5> QED BY <5>2, SpentStable
      <4>3. ASSUME NEW p \in Parts, k = Sub(Key(w).job, p) PROVE Spent(k)'
        BY <3>1, <4>3 DEF CompletedIsSpent
      <4> QED BY <4>1, <4>2, <4>3
    <3> QED BY <3>1, <3>3
  <2> QED BY <1>1, <2>1, <2>2, NewlyMerging
<1>2. MergingIsSpent'
  BY <1>1 DEF MergingIsSpent, Key
<1>3. ASSUME NEW v \in Workers, NEW w \in Workers, Merging(v)', Merging(w)', CompleteSub(w),
             worker'[v].key.job = worker'[w].key.job, v # w
      PROVE  FALSE
  <2>1. /\ worker'[w].key = Key(w) /\ worker[w].pc = "complete"
        /\ worker'[v] = worker[v]
    BY <1>3, NewlyMerging
  <2>2. Merging(v) /\ Key(v).job = Key(w).job /\ Key(w) \in Keys
    BY <1>3, <2>1 DEF Merging, Key, Typed, Shape
  <2>3. Spent(Key(w))
    BY <2>2 DEF Completion, MergingIsSpent
  <2> QED BY <2>1, <2>3 DEF Spent, Unfinished
<1>4. SingleMerger'
  <2> SUFFICES ASSUME NEW v \in Workers, NEW w \in Workers, Merging(v)', Merging(w)',
                      worker'[v].key.job = worker'[w].key.job, v # w
               PROVE  FALSE
    BY DEF SingleMerger, Key
  <2>1. ~CompleteSub(v) /\ ~CompleteSub(w)
    BY <1>3
  <2>2. Merging(v) /\ Merging(w) /\ worker'[v].key = Key(v) /\ worker'[w].key = Key(w)
    BY <2>1, NewlyMerging
  <2> QED BY <2>2 DEF Completion, SingleMerger
<1> QED BY <1>2, <1>4

LEMMA NextCompletion == ASSUME Typed, Delivery, Completion, [Next]_vars PROVE Completion'
  BY CompletedStep, MergingStep DEF Completion

LEMMA InitCompletion == Init => Completion
<1> SUFFICES ASSUME Init PROVE Completion
  OBVIOUS
<1>1. (\A k \in Keys : hash[k].status = "absent") /\ \A w \in Workers : worker[w].pc = "idle"
  BY DEF Init, Absent, IdleWorker
<1> QED BY <1>1 DEF Completion, CompletedIsSpent, MergingIsSpent, SingleMerger, Merging

-----------------------------------------------------------------------------
(* The theorems.                                                           *)

(* The inductive invariant holds in every behaviour: what has been completed
   is spent, and a merge starts only when every key of its job is.         *)
THEOREM CoreInvariant == Spec => []CoreInv
<1>1. Init => CoreInv
  BY InitTyped, InitDelivery, InitCompletion DEF CoreInv, Typed
<1>2. CoreInv /\ [Next]_vars => CoreInv'
  <2> SUFFICES ASSUME CoreInv, [Next]_vars PROVE CoreInv'
    OBVIOUS
  <2>1. Typed /\ Delivery /\ Completion
    BY DEF CoreInv, Typed
  <2>2. Typed' /\ Delivery' /\ Completion'
    BY <2>1, NextTyped, NextDelivery, NextCompletion
  <2> QED BY <2>2 DEF CoreInv, Typed
<1> QED BY <1>1, <1>2, PTL DEF Spec

(* BLPOP hands a key to one worker, and nothing delivers it again: neither
   failed pushes, nor crashes, nor a recovery, for any number of workers.  *)
THEOREM DeliveredOnce == Spec => []ExclusiveDelivery
<1>1. CoreInv => ExclusiveDelivery
  BY DEF CoreInv, Delivery
<1> QED BY <1>1, CoreInvariant, PTL

(* completeSubJobLua elects one merger per job, whatever fails. *)
THEOREM OneMerger == Spec => []SingleMerger
<1>1. CoreInv => SingleMerger
  BY DEF CoreInv, Completion
<1> QED BY <1>1, CoreInvariant, PTL

(* mergeSubJobs runs when no worker is still checking, or will ever pop, a
   sub-job of the job.                                                     *)
THEOREM MergeIsQuiescent == Spec => []QuiescentMerge
<1>1. CoreInv => QuiescentMerge
  <2> SUFFICES ASSUME CoreInv, NEW v \in Workers, Merging(v)
               PROVE  /\ \A w \in Workers : Unfinished(w) => Key(w).job # Key(v).job
                      /\ \A l \in Lists, p \in Parts : ~In(Sub(Key(v).job, p), queue[l])
    BY DEF QuiescentMerge
  <2>1. \A k \in Keys : k.job = Key(v).job => Spent(k)
    BY DEF CoreInv, Completion, MergingIsSpent
  <2>2. \A w \in Workers : Unfinished(w) \/ Merging(w) => Key(w) \in Keys /\ Key(w).job \in Jobs
    BY DEF CoreInv, Shape, Unfinished, Merging, Key, Keys
  <2>3. \A p \in Parts : Sub(Key(v).job, p) \in Keys /\ Sub(Key(v).job, p).job = Key(v).job
    BY <2>2, KeyTypes
  <2> QED BY <2>1, <2>2, <2>3 DEF Spent, Queued
<1> QED BY <1>1, CoreInvariant, PTL


-----------------------------------------------------------------------------
(* Result arrays.                                                          *)

(* An array is a sequence of one of the two lengths that holds, at each
   position, that position or a placeholder; it is never empty.            *)
LEMMA ArrayMade ==
    ASSUME NEW n \in {N, SafetyCount}, NEW a, a = [i \in 1..n |-> a[i]],
           \A i \in 1..n : a[i] \in {i, Gap}
    PROVE  a \in Arrays /\ a # <<>>
<1> DEFINE known == {i \in 1..n : a[i] = i}
<1>1. n \in Nat \ {0}
  BY PipelineAssumption
<1>2. \A i \in 1..n : a[i] = IF i \in known THEN i ELSE 0
  BY DEF Gap
<1>3. [i \in 1..n |-> a[i]] = [i \in 1..n |-> IF i \in known THEN i ELSE 0]
  BY <1>2
<1>4. known \in SUBSET (1..n)
  OBVIOUS
<1> HIDE DEF known
<1>5. a \in Arrays
  <2> DEFINE Of(m) == {[i \in 1..m |-> IF i \in kn THEN i ELSE 0] : kn \in SUBSET (1..m)}
  <2>1. a \in Of(n)
    BY <1>3, <1>4
  <2>2. Arrays = UNION {Of(m) : m \in {N, SafetyCount}}
    BY Zenon DEF Arrays, BC!Arrays
  <2> HIDE DEF Of
  <2> QED BY <2>1, <2>2
<1>6. 1 \in DOMAIN a /\ 1 \notin DOMAIN <<>>
  BY <1>1
<1> QED BY <1>5, <1>6

LEMMA ArrayShape ==
    ASSUME NEW a \in Arrays
    PROVE  /\ a # <<>>
           /\ \E n \in {N, SafetyCount} : /\ a = [i \in 1..n |-> a[i]]
                                          /\ \A i \in 1..n : a[i] \in {i, Gap}
<1>1. PICK n \in {N, SafetyCount} : \E known \in SUBSET (1..n) :
        a = [i \in 1..n |-> IF i \in known THEN i ELSE 0]
  BY DEF Arrays, BC!Arrays
<1>2. n \in Nat \ {0}
  BY PipelineAssumption
<1>3. a = [i \in 1..n |-> a[i]] /\ \A i \in 1..n : a[i] \in {i, Gap}
  BY <1>1 DEF Gap
<1>4. 1 \in DOMAIN a /\ 1 \notin DOMAIN <<>>
  BY <1>1, <1>2
<1> QED BY <1>3, <1>4

LEMMA GapsArray == ASSUME NEW n \in {N, SafetyCount} PROVE Gaps(n) \in Arrays
  BY ArrayMade DEF Gaps

LEMMA WholeArray == Whole \in Arrays /\ Whole # <<>>
<1>1. /\ N \in {N, SafetyCount} /\ Whole = [i \in 1..N |-> Whole[i]]
      /\ \A i \in 1..N : Whole[i] \in {i, Gap}
  BY DEF Whole
<1> QED BY <1>1, ArrayMade

(* Writing the results of a sub-job, each at its own index, keeps an array
   an array, adds the sub-job's positions and keeps the others.            *)
LEMMA PlaceOwn ==
    ASSUME NEW a \in Arrays, NEW s \in Seq(Positions)
    PROVE  /\ Place(a, s, s) \in Arrays
           /\ DOMAIN Place(a, s, s) = DOMAIN a
           /\ \A i \in DOMAIN a : Place(a, s, s)[i] = IF In(i, s) THEN i ELSE a[i]
<1> DEFINE b == Place(a, s, s)
<1>1. PICK n \in {N, SafetyCount} : a = [i \in 1..n |-> a[i]] /\ \A i \in 1..n : a[i] \in {i, Gap}
  BY ArrayShape
<1>2. DOMAIN a = 1..n
  BY <1>1
<1>3. ASSUME NEW i \in DOMAIN a PROVE b[i] = IF In(i, s) THEN i ELSE a[i]
  <2>1. b[i] = IF \E x \in DOMAIN s \cap DOMAIN s : s[x] = i
               THEN s[CHOOSE x \in DOMAIN s \cap DOMAIN s : s[x] = i] ELSE a[i]
    BY DEF Place
  <2>2. CASE In(i, s)
    BY <2>1, <2>2 DEF In
  <2>3. CASE ~In(i, s)
    BY <2>1, <2>3 DEF In
  <2> QED BY <2>2, <2>3
<1>4. b = [i \in 1..n |-> b[i]]
  BY <1>2 DEF Place
<1> HIDE DEF b
<1>5. \A i \in 1..n : b[i] \in {i, Gap}
  BY <1>1, <1>2, <1>3
<1>6. b \in Arrays
  BY <1>4, <1>5, ArrayMade
<1>7. DOMAIN b = DOMAIN a
  BY <1>2, <1>4
<1> QED BY <1>3, <1>6, <1>7 DEF b

LEMMA PlaceNone ==
    ASSUME NEW a \in Arrays, NEW s
    PROVE  Place(a, s, <<>>) = a
<1>1. PICK n \in {N, SafetyCount} : a = [i \in 1..n |-> a[i]]
  BY ArrayShape
<1>2. DOMAIN a = 1..n
  BY <1>1
<1>3. DOMAIN <<>> = {}
  OBVIOUS
<1>4. \A i \in DOMAIN a : ~(\E x \in DOMAIN s \cap DOMAIN <<>> : s[x] = i)
  BY <1>3
<1>5. Place(a, s, <<>>) = [i \in DOMAIN a |-> a[i]]
  BY <1>4 DEF Place
<1> QED BY <1>1, <1>2, <1>5

(* Reading a sub-job into an array. *)
LEMMA AddSubArray ==
    ASSUME Typed, StoredArrays, NEW j \in Jobs, NEW p \in Parts, NEW a \in Arrays
    PROVE  /\ AddSub(a, Sub(j, p)) \in Arrays
           /\ hash[Sub(j, p)].status = "completed" /\ hash[Sub(j, p)].made =>
                /\ DOMAIN AddSub(a, Sub(j, p)) = DOMAIN a
                /\ \A i \in DOMAIN a :
                      AddSub(a, Sub(j, p))[i] = IF In(i, client[j].route[p]) THEN i ELSE a[i]
<1> DEFINE k == Sub(j, p)
           s == client[j].route[p]
<1>1. k \in Keys /\ k.job = j /\ k.part = p /\ p # "parent"
  BY KeyTypes DEF Parts
<1>2. s \in Batch /\ s \in Seq(Positions)
  BY BatchType DEF Typed, TypeOK, Client
<1>3. DomainsOf(k) = s
  BY <1>1 DEF DomainsOf
<1>4. hash[k].results \in {<<>>, s} /\ (hash[k].status = "completed" => hash[k].results = s)
  BY DEF StoredArrays
<1> HIDE DEF k, s
<1>5. CASE hash[k].status = "completed" /\ hash[k].made
  <2>1. AddSub(a, k) = Place(a, s, s)
    BY <1>3, <1>4, <1>5 DEF AddSub
  <2> QED BY <1>2, <2>1, PlaceOwn DEF k, s
<1>6. CASE ~(hash[k].status = "completed" /\ hash[k].made)
  <2>1. AddSub(a, k) = a
    BY <1>6 DEF AddSub
  <2> QED BY <1>6, <2>1 DEF k
<1> QED BY <1>5, <1>6

-----------------------------------------------------------------------------
(* What one step does to a hash, a worker, a handler.                      *)

LEMMA KeyCases ==
    ASSUME NEW k \in Keys
    PROVE  /\ k.job \in Jobs /\ k.part \in Parts \cup {"parent"}
           /\ k.part = "parent" => k = Parent(k.job)
           /\ k.part \in Parts => k = Sub(k.job, k.part)
  BY DEF Keys, Parent, Sub

(* A completion of the hash k, by the worker that holds it or by the merge. *)
Completes(w, k) ==
    /\ hash'[k].status = "completed"
    /\ hash'[k].made = hash[k].made
    /\ hash'[k].results = worker[w].results
    /\ client' = client
    /\ \/ Key(w) = k /\ worker[w].pc \in {"complete", "write"}
       \/ k = ParentKey(w) /\ worker[w].pc = "publish" /\ worker'[w].pc = "idle"

LEMMA HashStep ==
    ASSUME Typed, [Next]_vars, NEW k \in Keys
    PROVE  \/ /\ hash'[k].results = hash[k].results /\ hash'[k].made = hash[k].made
              /\ \/ hash'[k].status = hash[k].status
                 \/ /\ hash'[k].status # "completed"
                    /\ \/ \E w \in Workers : Unfinished(w) /\ Key(w) = k
                       \/ stale = k
           \/ hash'[k] = Created /\ client[k.job].pc = "idle" /\ client'[k.job].pc # "idle"
           \/ /\ hash'[k] = Absent
              /\ \/ client[k.job].pc = "undo" /\ client'[k.job].pc = "done"
                 \/ client[k.job].pc \in {"done", "dead"} /\ client' = client
           \/ \E w \in Workers : Completes(w, k)
<1> USE DEF Typed
<1>0. hash \in [Keys -> Hash] /\ hash[k] \in Hash
  BY DEF TypeOK
<1>1. ASSUME hash' = hash
      PROVE  /\ hash'[k].results = hash[k].results /\ hash'[k].made = hash[k].made
             /\ hash'[k].status = hash[k].status
  BY <1>1
<1>2. ASSUME NEW j \in Jobs, Submit(j) \/ ClientStep(j) \/ ClientFault(j)
      PROVE  \/ hash'[k] = hash[k]
             \/ hash'[k] = Created /\ client[k.job].pc = "idle" /\ client'[k.job].pc # "idle"
             \/ hash'[k] = Absent /\ client[k.job].pc = "undo" /\ client'[k.job].pc = "done"
  <2>1. \A sp : k \in NewKeys(j, sp) => k.job = j
    BY KeyTypes DEF NewKeys
  <2>2. CASE Submit(j) \/ SubmitError(j)
    <3>1. client[j].pc = "idle" /\ client'[j].pc \in {"push", "done"}
      BY <2>2 DEF Submit, SubmitError, TypeOK, NewClient
    <3> QED BY <2>1, <2>2, <3>1 DEF Submit, SubmitError, CreateHashes
  <2>3. CASE Undo(j)
    <3>1. client[j].pc = "undo" /\ client'[j].pc = "done"
      BY <2>3 DEF Undo, Answer, TypeOK, Client
    <3> QED BY <2>1, <2>3, <3>1 DEF Undo
  <2>4. CASE hash' = hash
    BY <2>4
  <2> QED BY <1>2, <2>2, <2>3, <2>4
          DEF ClientStep, ClientFault, Push, PushError, Poll, PollTimeout, Fetch, Drain, DrainSub,
              ClientError, ApiCrash
<1>4. ASSUME NEW w \in Workers, WorkerStep(w) \/ WorkerFault(w)
      PROVE  \/ /\ hash'[k].results = hash[k].results /\ hash'[k].made = hash[k].made
                /\ \/ hash'[k].status = hash[k].status
                   \/ /\ hash'[k].status # "completed"
                      /\ \E v \in Workers : Unfinished(v) /\ Key(v) = k
             \/ Completes(w, k)
  <2>0. /\ worker[w] \in Worker
        /\ worker[w].pc # "idle" => Key(w) \in Keys /\ ParentKey(w) \in Keys
    BY KeyTypes DEF TypeOK, Shape, Key, ParentKey, Keys
  <2>1. CASE Claim(w) \/ ClaimError(w) \/ FailJob(w)
    <3>1. Unfinished(w) /\ Key(w) \in Keys
      BY <2>0, <2>1 DEF Claim, ClaimError, FailJob, Unfinished
    <3>2. PICK s \in {"processing", "failed"} : hash' \in {hash, Marked(Key(w), s)}
      BY <2>1 DEF Claim, ClaimError, FailJob
    <3> QED BY <1>0, <3>1, <3>2 DEF Marked, Hash
  <2>2. CASE CompleteSub(w) \/ CompleteSubError(w)
    <3>1. Key(w) \in Keys /\ worker[w].pc = "complete"
      BY <2>0, <2>2 DEF CompleteSub, CompleteSubError
    <3>2. hash' \in {hash, FinishedTTL(Key(w), worker[w].results)} /\ client' = client
      BY <2>2 DEF CompleteSub, CompleteSubError
    <3> QED BY <1>0, <3>1, <3>2 DEF FinishedTTL, Hash, Completes
  <2>3. CASE DirectWrite(w)
    <3>1. Key(w) \in Keys /\ worker[w].pc \in {"complete", "write"}
      BY <2>0, <2>3 DEF DirectWrite, Writing
    <3> QED BY <1>0, <2>3, <3>1 DEF DirectWrite, Finished, Hash, Completes
  <2>4. CASE Publish(w)
    <3>1. ParentKey(w) \in Keys /\ worker[w].pc = "publish" /\ worker'[w].pc = "idle"
      BY <2>0, <2>4 DEF Publish, WorkerIdle, IdleWorker, TypeOK
    <3> QED BY <1>0, <2>4, <3>1 DEF Publish, FinishedTTL, Hash, Completes
  <2>5. CASE SetTTL(w)
    <3>1. Key(w) \in Keys
      BY <2>0, <2>5 DEF SetTTL
    <3> QED BY <1>0, <2>5, <3>1 DEF SetTTL, Hash
  <2>6. CASE hash' = hash
    BY <2>6
  <2> QED BY <1>4, <2>1, <2>2, <2>3, <2>4, <2>5, <2>6
          DEF WorkerStep, WorkerFault, Pop, Check, Merge, ReadSub, MergeError, ReadSubError,
              WriteLost, Crash
<1>5. ASSUME NEW x \in Keys, Expire(x)
      PROVE  hash'[k] = hash[k] \/ (hash'[k] = Absent /\ client[k.job].pc \in {"done", "dead"}
                                       /\ client' = client)
  BY <1>0, <1>5 DEF Expire
<1>6. CASE FailStale
  <2>1. stale \in Keys
    BY <1>6 DEF FailStale, TypeOK
  <2> QED BY <1>0, <1>6, <2>1 DEF FailStale, Hash
<1>7. ASSUME NEW x \in Keys, ReadStale(x) PROVE hash' = hash
  BY <1>7 DEF ReadStale
<1>8. CASE UNCHANGED vars
  BY <1>1, <1>8 DEF vars
<1> QED BY <1>1, <1>2, <1>4, <1>5, <1>6, <1>7, <1>8 DEF Next

(* What one step does to the results a worker holds. *)
LEMMA WorkerStepKinds ==
    ASSUME Typed, [Next]_vars, NEW w \in Workers
    PROVE  \/ worker'[w] = worker[w]
           \/ worker'[w].pc \in {"idle", "claim", "check", "fail", "expire", "merge"}
           \/ /\ worker'[w].pc = "complete" /\ worker[w].pc = "check" /\ worker'[w].key = Key(w)
              /\ worker'[w].results = DomainsOf(Key(w)) /\ client' = client
           \/ /\ worker'[w].pc = "write" /\ worker[w].pc = "complete" /\ worker'[w].key = Key(w)
              /\ worker'[w].results = worker[w].results /\ Key(w).part \in Parts
           \/ /\ worker'[w].pc = "read" /\ worker[w].pc = "merge" /\ worker'[w].key = Key(w)
              /\ worker'[w].todo = SubOrder
              /\ \/ worker'[w].results = Gaps(N)
                 \/ worker'[w].results = Gaps(SafetyCount) /\ used'["worker"] # 0
           \/ /\ worker[w].pc = "read" /\ worker'[w].key = Key(w) /\ client' = client /\ hash' = hash
              /\ \/ /\ worker[w].todo = SubOrder
                    /\ worker'[w].todo = <<"whois">> /\ worker'[w].pc = "read"
                 \/ worker[w].todo = <<"whois">> /\ worker'[w].pc = "publish"
              /\ \/ worker'[w].results =
                        AddSub(worker[w].results, Sub(Key(w).job, Head(worker[w].todo)))
                 \/ worker'[w].results = worker[w].results /\ used'["worker"] # 0
<1> USE DEF Typed
<1>0. worker[w] \in Worker /\ used \in [Faults -> Nat] /\ worker \in [Workers -> Worker]
  BY DEF TypeOK
<1>1. ASSUME Spend("worker") PROVE used'["worker"] # 0
  BY <1>0, <1>1 DEF Spend, Faults
<1>2. CASE worker' = worker
  BY <1>2
<1>3. ASSUME NEW v \in Workers, WorkerStep(v) \/ WorkerFault(v), v # w PROVE worker'[w] = worker[w]
  BY <1>0, <1>3 DEF WorkerStep, WorkerFault, Claim, Check, CompleteSub, DirectWrite, FailJob, SetTTL,
       Merge, ReadSub, Publish, ClaimError, CompleteSubError, MergeError, ReadSubError, WriteLost,
       Crash, Pop, WorkerTo, WorkerIdle, Merged
<1>4. ASSUME ~(worker' = worker) PROVE \E v \in Workers : WorkerStep(v) \/ WorkerFault(v)
  <2>1. ~\E j \in Jobs : Submit(j) \/ ClientStep(j) \/ ClientFault(j)
    BY <1>4 DEF Submit, SubmitError, ClientStep, ClientFault, Push, PushError, Undo, Poll,
                PollTimeout, Fetch, Drain, DrainSub, ClientError, ApiCrash
  <2>2. ~(FailStale \/ \E x \in Keys : ReadStale(x) \/ Expire(x))
    BY <1>4 DEF FailStale, ReadStale, Expire
  <2> QED BY <1>4, <2>1, <2>2 DEF Next, vars
<1>5. CASE WorkerIdle(w) \/ \E pc \in {"check", "fail", "expire"} : WorkerTo(w, pc)
  <2>1. worker'[w].pc \in {"idle", "check", "fail", "expire"}
    BY <1>0, <1>5 DEF WorkerIdle, IdleWorker, WorkerTo, Worker
  <2> QED BY <2>1
<1>6. CASE Pop(w)
  <2>1. worker'[w].pc = "claim"
    BY <1>0, <1>6 DEF Pop, IdleWorker
  <2> QED BY <2>1
<1>7. CASE Check(w)
  <2>1. /\ worker'[w].pc = "complete" /\ worker[w].pc = "check" /\ worker'[w].key = Key(w)
        /\ worker'[w].results = DomainsOf(Key(w)) /\ client' = client
    BY <1>0, <1>7 DEF Check, Worker, Key
  <2> QED BY <2>1
<1>8. CASE CompleteSub(w)
  <2>1. WorkerIdle(w) \/ worker'[w].pc = "merge"
    BY <1>0, <1>8 DEF CompleteSub, Worker
  <2> QED BY <1>5, <2>1
<1>9. CASE CompleteSubError(w)
  <2>1. /\ worker'[w].pc = "write" /\ worker[w].pc = "complete" /\ worker'[w].key = Key(w)
        /\ worker'[w].results = worker[w].results /\ Key(w).part \in Parts
    BY <1>0, <1>9 DEF CompleteSubError, WorkerTo, Worker, Key
  <2> QED BY <2>1
<1>10. CASE Merge(w) \/ MergeError(w)
  <2>1. ASSUME NEW n,
               worker' = [worker EXCEPT ![w].pc = "read", ![w].todo = SubOrder,
                                        ![w].results = Gaps(n)]
        PROVE  /\ worker'[w].pc = "read" /\ worker'[w].todo = SubOrder
               /\ worker'[w].results = Gaps(n) /\ worker'[w].key = Key(w)
    <3> DEFINE r == [worker[w] EXCEPT !.pc = "read", !.todo = SubOrder, !.results = Gaps(n)]
    <3>1. worker'[w] = r
      BY <1>0, <2>1
    <3>2. r.pc = "read" /\ r.todo = SubOrder /\ r.results = Gaps(n) /\ r.key = Key(w)
      BY <1>0 DEF Worker, Key
    <3> QED BY <3>1, <3>2
  <2>2. CASE WorkerIdle(w)
    BY <1>5, <2>2
  <2>3. CASE Merge(w) /\ ~WorkerIdle(w)
    <3>1. /\ worker' = [worker EXCEPT ![w].pc = "read", ![w].todo = SubOrder,
                                        ![w].results = Gaps(N)]
          /\ worker[w].pc = "merge"
      BY <2>3 DEF Merge
    <3> QED BY <2>1, <3>1
  <2>4. CASE MergeError(w) /\ ~WorkerIdle(w)
    <3>1. /\ worker' = [worker EXCEPT ![w].pc = "read", ![w].todo = SubOrder,
                                        ![w].results = Gaps(SafetyCount)]
          /\ worker[w].pc = "merge" /\ used'["worker"] # 0
      BY <1>1, <2>4 DEF MergeError
    <3> QED BY <2>1, <3>1
  <2> QED BY <1>10, <2>2, <2>3, <2>4
<1>11. CASE ReadSub(w) \/ ReadSubError(w)
  <2>1. /\ worker[w].pc = "read" /\ worker[w].todo \in {SubOrder, <<"whois">>}
        /\ client' = client /\ hash' = hash
    BY <1>11 DEF ReadSub, ReadSubError, Shape
  <2>2. ASSUME NEW res, Merged(w, res)
        PROVE  /\ worker'[w].key = Key(w) /\ worker'[w].results = res
               /\ \/ /\ worker[w].todo = SubOrder
                     /\ worker'[w].todo = <<"whois">> /\ worker'[w].pc = "read"
                  \/ worker[w].todo = <<"whois">> /\ worker'[w].pc = "publish"
    <3> DEFINE r == [worker[w] EXCEPT !.todo = Tail(@), !.results = res,
                                      !.pc = IF Len(worker[w].todo) = 1 THEN "publish" ELSE "read"]
    <3>1. worker'[w] = r
      BY <1>0, <2>2 DEF Merged
    <3>2. /\ r.key = Key(w) /\ r.results = res /\ r.todo = Tail(worker[w].todo)
          /\ r.pc = IF Len(worker[w].todo) = 1 THEN "publish" ELSE "read"
      BY <1>0 DEF Worker, Key
    <3> HIDE DEF r
    <3> QED BY <2>1, <3>1, <3>2, Walks
  <2>3. CASE ReadSub(w)
    <3>1. Merged(w, AddSub(worker[w].results, Sub(Key(w).job, Head(worker[w].todo))))
      BY <2>3 DEF ReadSub
    <3> QED BY <2>1, <2>2, <3>1
  <2>4. CASE ReadSubError(w)
    <3>1. Merged(w, worker[w].results) /\ used'["worker"] # 0
      BY <1>1, <2>4 DEF ReadSubError
    <3> QED BY <2>1, <2>2, <3>1
  <2> QED BY <1>11, <2>3, <2>4
<1>12. CASE WorkerStep(w) \/ WorkerFault(w)
  BY <1>12, <1>5, <1>6, <1>7, <1>8, <1>9, <1>10, <1>11
     DEF WorkerStep, WorkerFault, Claim, DirectWrite, FailJob, SetTTL, Publish, ClaimError, WriteLost,
         Crash
<1> QED BY <1>2, <1>3, <1>4, <1>12

(* What one step does to a handler. *)
LEMMA ClientStepKinds ==
    ASSUME Typed, [Next]_vars, NEW j \in Jobs
    PROVE  \/ client'[j] = client[j]
           \/ /\ client[j].pc = "idle" /\ client'[j].route \in Splits
              /\ client'[j].results = <<>>
              /\ \/ client'[j].pc = "push" /\ client'[j].answer = "none"
                    /\ hash' = CreateHashes(j, client'[j].route)
                 \/ client'[j].pc = "done" /\ client'[j].answer = "unavailable"
           \/ /\ client[j].pc \notin {"idle", "done", "dead"} /\ client'[j].route = client[j].route
              /\ \/ /\ client'[j].answer = client[j].answer
                    /\ client'[j].results = client[j].results
                    /\ \/ client[j].pc = "push" /\ client'[j].pc \in {"push", "poll", "undo"}
                       \/ client[j].pc = "poll" /\ client'[j].pc = "drain"
                       \/ /\ client[j].pc = "poll" /\ client'[j].pc = "fetch"
                          /\ hash[Parent(j)].status = "completed" /\ hash' = hash
                 \/ /\ client'[j].pc = "dead" /\ client'[j].results = <<>>
                    /\ client'[j].answer = client[j].answer
                 \/ /\ client'[j].pc = "done" /\ client'[j].results = <<>>
                    /\ client'[j].answer \in {"failed", "timeout", "unavailable", "error"}
                 \/ /\ client[j].pc = "fetch" /\ client'[j].pc = "done" /\ client'[j].answer = "ok"
                    /\ client'[j].results = hash[Parent(j)].results /\ hash' = hash
                 \/ /\ client[j].pc = "drain" /\ client'[j].pc = "drain_subs"
                    /\ client'[j].answer = client[j].answer /\ client'[j].results = Gaps(N)
                 \/ /\ client'[j].pc = "done" /\ client'[j].answer = "partial" /\ hash' = hash
                    /\ client'[j].results = hash[Parent(j)].results
                 \/ /\ client[j].pc = "drain_subs" /\ hash' = hash
                    /\ \E p \in Parts :
                          client'[j].results = AddSub(client[j].results, Sub(j, p))
                    /\ \/ client'[j].pc = "drain_subs" /\ client'[j].answer = client[j].answer
                       \/ client'[j].pc = "done" /\ client'[j].answer = "partial"
<1> USE DEF Typed
<1>0. client \in [Jobs -> Client] /\ client[j] \in Client
  BY DEF TypeOK
<1>1. CASE client' = client
  BY <1>1
<1>2. ASSUME NEW i \in Jobs, Submit(i) \/ ClientStep(i) \/ ClientFault(i), i # j
      PROVE  client'[j] = client[j]
  BY <1>0, <1>2 DEF Submit, SubmitError, ClientStep, ClientFault, Push, PushError, Undo, Poll,
       PollTimeout, GiveUp, Fetch, Drain, DrainSub, ClientError, ApiCrash, Answer, GoTo
<1>3. ASSUME ~(client' = client)
      PROVE  \E i \in Jobs : Submit(i) \/ ClientStep(i) \/ ClientFault(i)
  <2>1. ~\E w \in Workers : WorkerStep(w) \/ WorkerFault(w)
    BY <1>3 DEF WorkerStep, WorkerFault, Claim, Check, CompleteSub, DirectWrite, FailJob, SetTTL,
         Merge, ReadSub, Publish, ClaimError, CompleteSubError, MergeError, ReadSubError, WriteLost,
         Crash, Pop
  <2>2. ~(FailStale \/ \E x \in Keys : ReadStale(x) \/ Expire(x))
    BY <1>3 DEF FailStale, ReadStale, Expire
  <2> QED BY <1>3, <2>1, <2>2 DEF Next, vars
<1>5. CASE Submit(j)
  <2>1. PICK kind \in Kinds, sp \in Splits :
          /\ hash' = CreateHashes(j, sp)
          /\ client' = [client EXCEPT ![j] =
                          [NewClient EXCEPT !.pc = "push", !.kind = kind, !.route = sp,
                                            !.left = PushOrder(sp)]]
    BY <1>5 DEF Submit
  <2> DEFINE c == [NewClient EXCEPT !.pc = "push", !.kind = kind, !.route = sp, !.left = PushOrder(sp)]
  <2>2. c.pc = "push" /\ c.answer = "none" /\ c.route = sp /\ c.results = <<>>
    BY DEF NewClient
  <2>3. client'[j] = c
    BY <1>0, <2>1
  <2> HIDE DEF c
  <2> QED BY <1>5, <2>1, <2>2, <2>3 DEF Submit
<1>6. CASE SubmitError(j)
  <2>1. PICK kind \in Kinds, sp \in Splits :
          client' = [client EXCEPT ![j] =
                          [NewClient EXCEPT !.pc = "done", !.kind = kind, !.route = sp,
                                            !.answer = "unavailable"]]
    BY <1>6 DEF SubmitError
  <2> DEFINE c == [NewClient EXCEPT !.pc = "done", !.kind = kind, !.route = sp,
                                    !.answer = "unavailable"]
  <2>2. c.pc = "done" /\ c.answer = "unavailable" /\ c.route = sp /\ c.results = <<>>
    BY DEF NewClient
  <2>3. client'[j] = c
    BY <1>0, <2>1
  <2> HIDE DEF c
  <2> QED BY <1>6, <2>2, <2>3 DEF SubmitError
<1>7. CASE Push(j) \/ PushError(j)
  <2>1. /\ client[j].pc = "push" /\ client'[j].route = client[j].route
        /\ client'[j].answer = client[j].answer /\ client'[j].results = client[j].results
        /\ client'[j].pc \in {"push", "poll", "undo"}
    BY <1>0, <1>7 DEF Push, PushError, Client
  <2> QED BY <2>1
<1>8. ASSUME NEW a, NEW res, Answer(j, a, res)
      PROVE  /\ client'[j].pc = "done" /\ client'[j].answer = a /\ client'[j].results = res
             /\ client'[j].route = client[j].route
  <2> DEFINE c == [client[j] EXCEPT !.pc = "done", !.left = <<>>, !.answer = a, !.results = res]
  <2>1. client'[j] = c
    BY <1>0, <1>8 DEF Answer
  <2>2. c.pc = "done" /\ c.answer = a /\ c.results = res /\ c.route = client[j].route
    BY <1>0 DEF Client
  <2> QED BY <2>1, <2>2
<1>9. ASSUME NEW pc, GoTo(j, pc)
      PROVE  /\ client'[j].pc = pc /\ client'[j].answer = client[j].answer
             /\ client'[j].results = client[j].results /\ client'[j].route = client[j].route
  BY <1>0, <1>9 DEF GoTo, Client
<1>10. CASE Undo(j)
  <2>1. client[j].pc = "undo" /\ Answer(j, "unavailable", <<>>)
    BY <1>10 DEF Undo
  <2> QED BY <1>8, <2>1
<1>11. CASE Poll(j) \/ PollTimeout(j)
  <2>1. /\ client[j].pc = "poll" /\ hash' = hash
        /\ \/ hash[Parent(j)].status = "completed" /\ GoTo(j, "fetch")
           \/ GoTo(j, "drain")
           \/ \E a \in {"failed", "timeout"} : Answer(j, a, <<>>)
    BY <1>11 DEF Poll, PollTimeout, GiveUp
  <2> QED BY <1>8, <1>9, <2>1
<1>12. CASE Fetch(j)
  <2>1. client[j].pc = "fetch" /\ hash' = hash /\ Answer(j, "ok", hash[Parent(j)].results)
    BY <1>12 DEF Fetch
  <2> QED BY <1>8, <2>1
<1>13. CASE Drain(j)
  <2>1. client[j].pc = "drain" /\ hash' = hash
    BY <1>13 DEF Drain
  <2>2. CASE Answer(j, "partial", hash[Parent(j)].results)
    BY <1>8, <2>1, <2>2
  <2>3. CASE client' = [client EXCEPT ![j].pc = "drain_subs", ![j].left = SubOrder,
                                      ![j].results = Gaps(N)]
    <3> DEFINE c == [client[j] EXCEPT !.pc = "drain_subs", !.left = SubOrder, !.results = Gaps(N)]
    <3>1. client'[j] = c
      BY <1>0, <2>3
    <3>2. /\ c.pc = "drain_subs" /\ c.answer = client[j].answer /\ c.results = Gaps(N)
          /\ c.route = client[j].route
      BY <1>0 DEF Client
    <3> HIDE DEF c
    <3> QED BY <2>1, <3>1, <3>2
  <2> QED BY <1>13, <2>2, <2>3 DEF Drain
<1>14. CASE DrainSub(j)
  <2> DEFINE p == Head(client[j].left)
             res == AddSub(client[j].results, Sub(j, p))
  <2>1. client[j].pc = "drain_subs" /\ hash' = hash
    BY <1>14 DEF DrainSub
  <2>2. p \in Parts
    BY <2>1, Walks DEF Shape, Parts
  <2>3. CASE Answer(j, "partial", res)
    <3> HIDE DEF p
    <3>1. \E q \in Parts : res = AddSub(client[j].results, Sub(j, q))
      BY <2>2
    <3> HIDE DEF res
    <3> QED BY <1>8, <2>1, <2>3, <3>1
  <2>4. CASE client' = [client EXCEPT ![j].left = Tail(@), ![j].results = res]
    <3> DEFINE c == [client[j] EXCEPT !.left = Tail(@), !.results = res]
    <3> HIDE DEF p
    <3>1. client'[j] = c
      BY <1>0, <2>4
    <3>2. /\ c.pc = "drain_subs" /\ c.answer = client[j].answer /\ c.results = res
          /\ c.route = client[j].route
      BY <1>0, <2>1 DEF Client
    <3>3. \E q \in Parts : res = AddSub(client[j].results, Sub(j, q))
      BY <2>2
    <3> HIDE DEF c, res
    <3> QED BY <2>1, <3>1, <3>2, <3>3
  <2> QED BY <1>14, <2>3, <2>4 DEF DrainSub
<1>15. CASE ClientError(j)
  <2>1. /\ client[j].pc \in {"undo", "poll", "fetch", "drain", "drain_subs"}
        /\ \E a \in {"unavailable", "error"} : Answer(j, a, <<>>)
    BY <1>15 DEF ClientError
  <2> QED BY <1>8, <2>1
<1>16. CASE ApiCrash(j)
  <2> DEFINE c == [client[j] EXCEPT !.pc = "dead", !.left = <<>>, !.results = <<>>]
  <2>1. client'[j] = c /\ client[j].pc \notin {"idle", "done", "dead"}
    BY <1>0, <1>16 DEF ApiCrash
  <2>2. /\ c.pc = "dead" /\ c.answer = client[j].answer /\ c.results = <<>>
        /\ c.route = client[j].route
    BY <1>0 DEF Client
  <2> HIDE DEF c
  <2> QED BY <2>1, <2>2
<1>17. CASE Submit(j) \/ ClientStep(j) \/ ClientFault(j)
  BY <1>17, <1>5, <1>6, <1>7, <1>10, <1>11, <1>12, <1>13, <1>14, <1>15, <1>16
     DEF ClientStep, ClientFault
<1> QED BY <1>1, <1>2, <1>3, <1>17

(* What one step does to the recovery and to the fault counters. *)
LEMMA StaleStep ==
    ASSUME Typed, [Next]_vars
    PROVE  /\ \/ stale' \in {stale, NoKey}
              \/ used'["recover"] # 0 /\ stale' \in Keys /\ hash[stale'].status = "processing"
           /\ Clean' => Clean
<1>0. used \in [Faults -> Nat]
  BY DEF Typed, TypeOK
<1>1. \A f \in Faults : Spend(f) => /\ used'[f] # 0
                                    /\ \A g \in Faults : used'[g] = 0 => used[g] = 0
  BY <1>0 DEF Spend
<1>2. ASSUME NEW j \in Jobs, Submit(j) \/ ClientStep(j) \/ ClientFault(j)
      PROVE  stale' = stale /\ (used' = used \/ \E f \in Faults : Spend(f))
  BY <1>2 DEF Submit, SubmitError, ClientStep, ClientFault, Push, PushError, Undo, Poll,
              PollTimeout, Fetch, Drain, DrainSub, ClientError, ApiCrash, Faults
<1>3. ASSUME NEW w \in Workers, WorkerStep(w) \/ WorkerFault(w)
      PROVE  stale' = stale /\ (used' = used \/ \E f \in Faults : Spend(f))
  BY <1>3 DEF WorkerStep, WorkerFault, Claim, Check, CompleteSub, DirectWrite, FailJob, SetTTL,
         Merge, ReadSub, Publish, ClaimError, CompleteSubError, MergeError, ReadSubError, WriteLost,
         Crash, Pop, Faults
<1>4. ASSUME NEW k \in Keys, ReadStale(k) \/ Expire(k)
      PROVE  /\ used' = used \/ Spend("recover")
             /\ \/ stale' = stale
                \/ Spend("recover") /\ stale' \in Keys /\ hash[stale'].status = "processing"
  <2>1. CASE ReadStale(k)
    BY <2>1 DEF ReadStale
  <2>2. CASE Expire(k)
    <3>1. used' = used /\ stale' = stale
      BY <2>2 DEF Expire
    <3> QED BY <3>1
  <2> QED BY <1>4, <2>1, <2>2
<1>5. CASE FailStale
  BY <1>5 DEF FailStale, Clean
<1>6. CASE UNCHANGED vars
  BY <1>6 DEF vars, Clean
<1>7. used' = used \/ (\E f \in Faults : Spend(f)) => (Clean' => Clean)
  BY <1>1 DEF Clean, Faults
<1> QED BY <1>1, <1>2, <1>3, <1>4, <1>5, <1>6, <1>7 DEF Next, Faults

(* A handler's route is fixed once it has sent, and a worker only ever holds
   keys of requests that were sent.                                        *)
LEMMA RouteFixed ==
    ASSUME Typed, [Next]_vars, NEW j \in Jobs, client[j].pc # "idle"
    PROVE  client'[j].route = client[j].route /\ client'[j].pc # "idle"
  BY ClientStepKinds

LEMMA HeldIsSent ==
    ASSUME CoreInv, NEW w \in Workers, worker[w].pc # "idle"
    PROVE  /\ Key(w) \in Keys /\ Key(w).job \in Jobs /\ Key(w).part \in Parts \cup {"parent"}
           /\ Held(Key(w))
           /\ client[Key(w).job].pc # "idle"
<1>1. Key(w) \in Keys /\ Held(Key(w))
  BY DEF CoreInv, Shape, Key, Held
<1> QED BY <1>1, KeyCases DEF CoreInv, Delivery, PushedOnce, Unpushed

LEMMA CoreParts == CoreInv <=> Typed /\ Delivery /\ Completion
  BY DEF CoreInv, Typed

LEMMA CoreStep == ASSUME CoreInv, [Next]_vars PROVE CoreInv'
  BY CoreParts, NextTyped, NextDelivery, NextCompletion DEF CoreInv, Typed

LEMMA DomainsFixed ==
    ASSUME Typed, [Next]_vars, NEW k \in Keys, client[k.job].pc # "idle"
    PROVE  DomainsOf(k)' = DomainsOf(k)
  BY RouteFixed, KeyCases DEF DomainsOf

-----------------------------------------------------------------------------
(* A settled job stays settled; a worker that completes a whole job, or
   publishes a merge, settles it.                                          *)

LEMMA NoNewMerger ==
    ASSUME CoreInv, [Next]_vars, NEW j \in Jobs, \A k \in Keys : k.job = j => Spent(k),
           NEW v \in Workers, Merging(v)', worker'[v].key.job = j
    PROVE  Merging(v) /\ Key(v).job = j
<1>1. /\ worker'[v].key = Key(v)
      /\ Merging(v) \/ (CompleteSub(v) /\ worker[v].pc = "complete")
  BY CoreParts, NewlyMerging
<1>2. CASE worker[v].pc = "complete"
  <2>1. Key(v) \in Keys /\ Unfinished(v)
    BY <1>2, HeldIsSent DEF Unfinished
  <2> QED BY <1>1, <2>1 DEF Spent
<1> QED BY <1>1, <1>2

LEMMA SettledStable ==
    ASSUME CoreInv, [Next]_vars, NEW j \in Jobs, Settled(j)
    PROVE  Settled(j)'
<1>1. \A k \in Keys : k.job = j => Spent(k)'
  BY CoreParts, SpentStable DEF Settled
<1>2. \A v \in Workers : Merging(v)' => worker'[v].key.job # j
  BY NoNewMerger DEF Settled
<1> QED BY <1>1, <1>2 DEF Settled, Key

LEMMA DirectSettles ==
    ASSUME CoreInv, [Next]_vars, NEW w \in Workers, NEW j \in Jobs, worker[w].pc = "complete",
           Key(w) = Parent(j), hash'[Parent(j)].status = "completed"
    PROVE  Settled(j)'
<1>0. Parent(j) \in Keys /\ Held(Parent(j)) /\ Parent(j).job = j /\ Parent(j).part \notin Parts
      /\ Unfinished(w) /\ client[j].pc # "idle"
  BY HeldIsSent, KeyTypes DEF Unfinished
<1>1. Spent(Parent(j))'
  BY <1>0, CoreStep DEF CoreInv, Completion, CompletedIsSpent
<1>2. ~IsSplit(client[j].route)
  BY <1>0 DEF CoreInv, Delivery, RightKind
<1>3. ASSUME NEW p \in Parts PROVE ~Queued(Sub(j, p)) /\ ~Held(Sub(j, p)) /\ ~Unpushed(Sub(j, p))
  <2>1. Sub(j, p) \in Keys /\ Sub(j, p).job = j /\ Sub(j, p).part = p
    BY KeyTypes
  <2>2. ~Queued(Sub(j, p)) /\ ~Held(Sub(j, p))
    BY <1>2, <2>1 DEF CoreInv, Delivery, RightKind
  <2>3. ~Unpushed(Sub(j, p))
    BY <1>0, <1>2, <2>1 DEF Unpushed, PushedKey
  <2> QED BY <2>2, <2>3
<1>4. ASSUME NEW p \in Parts PROVE Spent(Sub(j, p))'
  <2>1. Spent(Sub(j, p)) /\ Sub(j, p) \in Keys
    BY <1>3, KeyTypes DEF Spent, Held, Unfinished
  <2> QED BY <2>1, CoreParts, SpentStable
<1>5. \A k \in Keys : k.job = j => Spent(k)'
  BY <1>1, <1>4, KeyCases
<1>6. ASSUME NEW v \in Workers, Merging(v)', worker'[v].key.job = j PROVE FALSE
  <2>1. Key(v).job = j /\ worker[v].pc # "idle"
        /\ (Merging(v) \/ (CompleteSub(v) /\ Key(v).part \in Parts))
    BY <1>6, CoreParts, NewlyMerging DEF Merging, CompleteSub
  <2>2. Key(v).part \in Parts
    BY <2>1 DEF CoreInv, Completion, MergingIsSpent
  <2>3. Key(v) = Sub(j, Key(v).part) /\ Held(Key(v))
    BY <2>1, <2>2, HeldIsSent, KeyCases
  <2> QED BY <1>3, <2>2, <2>3
<1> QED BY <1>5, <1>6 DEF Settled, Key

LEMMA PublishSettles ==
    ASSUME CoreInv, [Next]_vars, NEW w \in Workers, NEW j \in Jobs, worker[w].pc = "publish",
           worker'[w].pc = "idle", Key(w).job = j
    PROVE  Settled(j)'
<1>1. Merging(w)
  BY DEF Merging
<1>2. \A k \in Keys : k.job = j => Spent(k)
  BY <1>1 DEF CoreInv, Completion, MergingIsSpent
<1>3. \A k \in Keys : k.job = j => Spent(k)'
  BY <1>2, CoreParts, SpentStable
<1>4. ASSUME NEW v \in Workers, Merging(v)', worker'[v].key.job = j PROVE FALSE
  <2>1. Merging(v) /\ Key(v).job = j
    BY <1>2, <1>4, NoNewMerger
  <2>2. v = w
    BY <1>1, <2>1 DEF CoreInv, Completion, SingleMerger
  <2> QED BY <1>4, <2>2 DEF Merging
<1> QED BY <1>3, <1>4 DEF Settled, Key

-----------------------------------------------------------------------------
(* The parts of PipelineInv, one by one.                                   *)

LEMMA CompletesHeld ==
    ASSUME CoreInv, NEW k \in Keys, NEW w \in Workers, Completes(w, k)
    PROVE  worker[w].pc # "idle" /\ Key(w).job = k.job /\ client[k.job].pc # "idle"
<1>1. worker[w].pc # "idle"
  BY DEF Completes
<1>2. Key(w).job = k.job
  BY KeyCases DEF Completes, ParentKey, Parent
<1> QED BY <1>1, <1>2, HeldIsSent

LEMMA UntouchedStep ==
    ASSUME PipelineInv, [Next]_vars
    PROVE  Untouched'
<1> SUFFICES ASSUME NEW k \in Keys, client'[k.job].pc = "idle"
             PROVE  hash'[k].status = "absent" /\ hash'[k].results = <<>> /\ stale' # k
  BY DEF Untouched
<1> USE DEF PipelineInv
<1>0. Typed /\ k.job \in Jobs /\ k # NoKey
  BY CoreParts, KeyCases, PipelineAssumption DEF NoKey
<1>1. client[k.job].pc = "idle"
  BY <1>0, ClientStepKinds
<1>2. hash[k].status = "absent" /\ hash[k].results = <<>> /\ stale # k
  BY <1>1 DEF Untouched
<1>3. ~\E w \in Workers : Unfinished(w) /\ Key(w) = k
  BY <1>1, HeldIsSent DEF Unfinished
<1>4. ~\E w \in Workers : Completes(w, k)
  BY <1>1, CompletesHeld
<1>5. hash'[k].status = "absent" /\ hash'[k].results = <<>>
  BY <1>0, <1>1, <1>2, <1>3, <1>4, HashStep DEF Absent
<1>6. stale' # k
  BY <1>0, <1>2, StaleStep
<1> QED BY <1>5, <1>6

LEMMA StoredArraysStep ==
    ASSUME PipelineInv, [Next]_vars
    PROVE  StoredArrays'
<1> USE DEF PipelineInv
<1>0. Typed
  BY CoreParts
<1>1. ASSUME NEW j \in Jobs, NEW p \in Parts
      PROVE  /\ hash'[Sub(j, p)].results \in {<<>>, client'[j].route[p]}
             /\ hash'[Sub(j, p)].status = "completed" =>
                    hash'[Sub(j, p)].results = client'[j].route[p]
  <2> DEFINE k == Sub(j, p)
  <2>1. k \in Keys /\ k.job = j /\ k.part = p /\ p # "parent"
    BY KeyTypes DEF Parts
  <2>2. /\ hash[k].results \in {<<>>, client[j].route[p]}
        /\ hash[k].status = "completed" => hash[k].results = client[j].route[p]
    BY DEF StoredArrays
  <2>3. client[j].pc = "idle" => hash[k].status = "absent" /\ hash[k].results = <<>>
    BY <2>1 DEF Untouched
  <2>4. client[j].pc # "idle" => client'[j].route = client[j].route
    BY <1>0, RouteFixed
  <2>5. ASSUME NEW w \in Workers, Completes(w, k)
        PROVE  hash'[k].results = client'[j].route[p]
    <3>1. worker[w].pc # "idle" /\ client[j].pc # "idle"
      BY <2>1, <2>5, CompletesHeld
    <3>2. k # ParentKey(w)
      BY <2>1 DEF ParentKey, Parent
    <3>3. Key(w) = k /\ worker[w].results = DomainsOf(k)
      BY <2>5, <3>2 DEF Completes, WorkerArrays
    <3>4. DomainsOf(k) = client[j].route[p]
      BY <2>1 DEF DomainsOf
    <3> QED BY <2>4, <2>5, <3>1, <3>3, <3>4 DEF Completes
  <2> HIDE DEF k
  <2>6. CASE \E w \in Workers : Completes(w, k)
    BY <2>5, <2>6 DEF k
  <2>7. CASE hash'[k] \in {Created, Absent}
    BY <2>7 DEF k, Created, Absent
  <2>8. CASE /\ hash'[k].results = hash[k].results
             /\ hash'[k].status = hash[k].status \/ hash'[k].status # "completed"
    BY <2>2, <2>3, <2>4, <2>8 DEF k
  <2> QED BY <1>0, <2>1, <2>6, <2>7, <2>8, HashStep
<1>2. ASSUME NEW j \in Jobs
      PROVE  /\ hash'[Parent(j)].results \in ArrayOrNone
             /\ hash'[Parent(j)].status = "completed" => hash'[Parent(j)].results # <<>>
             /\ hash'[Parent(j)].results # <<>> => Settled(j)'
  <2> DEFINE k == Parent(j)
  <2>1. k \in Keys /\ k.job = j /\ k.part = "parent" /\ "parent" \notin Parts
    BY KeyTypes
  <2>2. /\ hash[k].results \in ArrayOrNone
        /\ hash[k].status = "completed" => hash[k].results # <<>>
        /\ hash[k].results # <<>> => Settled(j)'
    BY SettledStable DEF StoredArrays
  <2>3. ASSUME NEW w \in Workers, Completes(w, k)
        PROVE  hash'[k].results \in Arrays /\ hash'[k].results # <<>> /\ Settled(j)'
    <3>0. hash'[k].results = worker[w].results /\ hash'[k].status = "completed"
          /\ Key(w).job = j
      BY <2>1, <2>3, CompletesHeld DEF Completes
    <3>1. CASE worker[w].pc = "publish"
      <4>1. worker'[w].pc = "idle" /\ worker[w].results \in Arrays
        BY <2>3, <3>1 DEF Completes, WorkerArrays
      <4>2. Settled(j)'
        BY <3>0, <3>1, <4>1, PublishSettles
      <4> QED BY <3>0, <4>1, <4>2, ArrayShape
    <3>2. CASE worker[w].pc # "publish"
      <4>1. Key(w) = k /\ worker[w].pc = "complete" /\ worker[w].results = DomainsOf(k)
        BY <2>1, <2>3, <3>2 DEF Completes, WorkerArrays
      <4>2. DomainsOf(k) = Whole
        BY <2>1 DEF DomainsOf, Whole
      <4>3. Settled(j)'
        BY <3>0, <4>1, DirectSettles
      <4> QED BY <3>0, <4>1, <4>2, <4>3, WholeArray
    <3> QED BY <3>1, <3>2
  <2> HIDE DEF k
  <2>4. CASE \E w \in Workers : Completes(w, k)
    BY <2>3, <2>4 DEF k, ArrayOrNone
  <2>5. CASE hash'[k] \in {Created, Absent}
    BY <2>5 DEF k, Created, Absent, ArrayOrNone
  <2>6. CASE /\ hash'[k].results = hash[k].results
             /\ hash'[k].status = hash[k].status \/ hash'[k].status # "completed"
    BY <2>2, <2>6 DEF k
  <2> QED BY <1>0, <2>1, <2>4, <2>5, <2>6, HashStep
<1> QED BY <1>1, <1>2 DEF StoredArrays, ArrayOrNone, Arrays, BC!Arrays

LEMMA WorkerArraysStep ==
    ASSUME PipelineInv, [Next]_vars
    PROVE  WorkerArrays'
<1> USE DEF PipelineInv
<1>0. Typed
  BY CoreParts
<1> SUFFICES ASSUME NEW w \in Workers
             PROVE  /\ worker'[w].pc \in {"complete", "write"} =>
                            \A k : k = worker'[w].key => worker'[w].results = DomainsOf(k)'
                    /\ worker'[w].pc = "write" => worker'[w].key.part \in Parts
                    /\ worker'[w].pc \in {"read", "publish"} => worker'[w].results \in Arrays
  BY DEF WorkerArrays, Key, Arrays, BC!Arrays, DomainsOf
<1>1. /\ worker[w].pc \in {"complete", "write"} => worker[w].results = DomainsOf(Key(w))
      /\ worker[w].pc = "write" => Key(w).part \in Parts
      /\ worker[w].pc \in {"read", "publish"} => worker[w].results \in Arrays
  BY DEF WorkerArrays
<1>2. worker[w].pc # "idle" => Key(w) \in Keys /\ Key(w).job \in Jobs
  BY HeldIsSent
<1>3. ASSUME worker[w].pc # "idle", worker'[w].key = Key(w), NEW k, k = worker'[w].key
      PROVE  DomainsOf(k)' = DomainsOf(Key(w))
  <2>1. k \in Keys /\ client[k.job].pc # "idle" /\ k = Key(w)
    BY <1>3, HeldIsSent
  <2> QED BY <1>0, <2>1, DomainsFixed
<1>4. CASE worker'[w] = worker[w]
  BY <1>1, <1>3, <1>4 DEF Key
<1>5. CASE worker'[w].pc = "complete" /\ worker[w].pc = "check" /\ worker'[w].key = Key(w)
           /\ worker'[w].results = DomainsOf(Key(w))
  BY <1>3, <1>5
<1>6. CASE worker'[w].pc = "write" /\ worker[w].pc = "complete" /\ worker'[w].key = Key(w)
           /\ worker'[w].results = worker[w].results /\ Key(w).part \in Parts
  BY <1>1, <1>3, <1>6
<1>7. CASE worker'[w].pc = "read"
           /\ worker'[w].results \in {Gaps(N), Gaps(SafetyCount)}
  BY <1>7, GapsArray
<1>8. CASE /\ worker[w].pc = "read" /\ worker'[w].pc \in {"read", "publish"}
           /\ worker[w].todo \in {SubOrder, <<"whois">>}
           /\ worker'[w].results \in
                {worker[w].results, AddSub(worker[w].results, Sub(Key(w).job, Head(worker[w].todo)))}
  <2>1. Head(worker[w].todo) \in Parts
    BY <1>8, Walks DEF Parts
  <2>2. AddSub(worker[w].results, Sub(Key(w).job, Head(worker[w].todo))) \in Arrays
    BY <1>0, <1>1, <1>2, <1>8, <2>1, AddSubArray
  <2> QED BY <1>1, <1>8, <2>2
<1> QED BY <1>0, <1>4, <1>5, <1>6, <1>7, <1>8, WorkerStepKinds

LEMMA ClientArraysStep ==
    ASSUME PipelineInv, [Next]_vars
    PROVE  ClientArrays'
<1> USE DEF PipelineInv
<1>0. Typed
  BY CoreParts
<1> DEFINE Sound(c) ==
      /\ c.pc # "idle" => c.route \in Splits
      /\ c.pc = "done" <=> c.answer # "none"
      /\ c.pc \notin {"drain_subs", "done"} => c.results = <<>>
      /\ c.pc = "drain_subs" => c.results \in Arrays
      /\ c.answer = "ok" => c.results \in Arrays
      /\ c.answer = "partial" => c.results \in ArrayOrNone
      /\ c.answer \notin {"ok", "partial"} /\ c.pc = "done" => c.results = <<>>
<1> SUFFICES ASSUME NEW j \in Jobs
             PROVE  /\ Sound(client'[j])
                    /\ client'[j].pc = "fetch" => hash'[Parent(j)].results # <<>>
  BY DEF ClientArrays, Arrays, ArrayOrNone, BC!Arrays, Splits
<1>1. Sound(client[j]) /\ (client[j].pc = "fetch" => hash[Parent(j)].results # <<>>)
  BY DEF ClientArrays
<1>2. Parent(j) \in Keys /\ Parent(j).job = j
  BY KeyTypes
<1>3. /\ hash[Parent(j)].results \in ArrayOrNone
      /\ hash[Parent(j)].status = "completed" => hash[Parent(j)].results # <<>>
  BY DEF StoredArrays
<1>4. Gaps(N) \in Arrays
  BY GapsArray
<1>5. client[j].pc = "drain_subs" =>
        \A p \in Parts : AddSub(client[j].results, Sub(j, p)) \in Arrays
  BY <1>0, <1>1, AddSubArray
<1>6. Arrays \subseteq ArrayOrNone /\ <<>> \in ArrayOrNone
      /\ (hash[Parent(j)].results # <<>> => hash[Parent(j)].results \in Arrays)
  BY <1>3 DEF ArrayOrNone
<1>7. Sound(client'[j])
  <2>1. CASE client'[j] = client[j]
    BY <1>1, <2>1
  <2>2. CASE client[j].pc = "idle"
    BY <1>0, <1>1, <2>2, ClientStepKinds
  <2>3. CASE client[j].pc # "idle" /\ client'[j] # client[j]
    BY <1>0, <1>1, <1>3, <1>4, <1>5, <1>6, <2>3, ClientStepKinds
  <2> QED BY <2>1, <2>2, <2>3
<1>8. ASSUME client'[j].pc = "fetch" PROVE hash'[Parent(j)].results # <<>>
  <2>1. CASE client[j].pc = "fetch"
    <3>1. ASSUME NEW w \in Workers, Completes(w, Parent(j))
          PROVE  hash'[Parent(j)].results # <<>>
      <4>1. hash'[Parent(j)].status = "completed"
        BY <3>1 DEF Completes
      <4> QED BY <4>1, StoredArraysStep DEF StoredArrays
    <3> QED BY <1>0, <1>1, <1>2, <2>1, <3>1, HashStep
  <2>2. CASE client[j].pc # "fetch"
    <3>1. hash[Parent(j)].status = "completed" /\ hash' = hash
      BY <1>0, <1>8, <2>2, ClientStepKinds
    <3> QED BY <1>3, <3>1
  <2> QED BY <2>1, <2>2
<1> HIDE DEF Sound
<1> QED BY <1>7, <1>8

LEMMA WaitingBefore ==
    ASSUME Typed, [Next]_vars, NEW j \in Jobs, Waiting(j)', client[j].pc # "idle"
    PROVE  Waiting(j)
  BY ClientStepKinds DEF Waiting

LEMMA KeptStep ==
    ASSUME PipelineInv, [Next]_vars
    PROVE  Kept'
<1> USE DEF PipelineInv
<1>0. Typed
  BY CoreParts
<1> SUFFICES ASSUME NEW j \in Jobs, Waiting(j)', NEW k, k \in NewKeys(j, client'[j].route)
             PROVE  hash'[k].made
  BY DEF Kept
<1>1. k \in Keys /\ k.job = j
  BY KeyTypes DEF NewKeys
<1>2. CASE client[j].pc = "idle"
  <2>1. hash' = CreateHashes(j, client'[j].route)
    BY <1>0, <1>2, ClientStepKinds DEF Waiting
  <2> QED BY <1>1, <2>1 DEF CreateHashes, Created
<1>3. CASE client[j].pc # "idle"
  <2>1. Waiting(j) /\ client'[j].route = client[j].route
    BY <1>0, <1>3, WaitingBefore, RouteFixed
  <2>2. hash[k].made /\ client[j].pc \notin {"idle", "undo", "done", "dead"}
    BY <2>1 DEF Kept, Waiting
  <2>3. hash'[k].made = hash[k].made
    BY <1>0, <1>1, <2>2, HashStep DEF Completes
  <2> QED BY <2>2, <2>3
<1> QED BY <1>2, <1>3

(* A merge that has read both sub-jobs of a split holds the whole array. *)
LEMMA BothIsWhole ==
    ASSUME NEW a \in Arrays, DOMAIN a = 1..N, NEW sp \in Splits,
           \A i \in 1..N : In(i, sp["rdap"]) \/ In(i, sp["whois"]) => a[i] = i
    PROVE  a = Whole
<1>1. \A i \in 1..N : In(i, sp["rdap"]) \/ In(i, sp["whois"])
  BY DEF Splits, Positions
<1>2. \E n \in {N, SafetyCount} : a = [i \in 1..n |-> a[i]]
  BY ArrayShape
<1>3. a = [i \in DOMAIN a |-> a[i]]
  BY <1>2
<1> QED BY <1>1, <1>3 DEF Whole

LEMMA WholeArraysStep ==
    ASSUME PipelineInv, [Next]_vars
    PROVE  WholeArrays'
<1> USE DEF PipelineInv
<1>0. Typed
  BY CoreParts
<1> SUFFICES ASSUME Clean'
             PROVE  /\ stale' = NoKey
                    /\ \A j \in Jobs :
                          /\ Waiting(j)' => hash'[Parent(j)].results \in {<<>>, Whole}
                          /\ client'[j].answer = "ok" => client'[j].results = Whole
                    /\ \A w \in Workers, j \in Jobs :
                          Merging(w)' /\ worker'[w].key.job = j /\ Waiting(j)' =>
                            /\ \A p \in Parts : hash'[Sub(j, p)].status = "completed"
                            /\ worker'[w].pc = "read" => DOMAIN worker'[w].results = 1..N
                            /\ worker'[w].pc = "read" /\ worker'[w].todo # SubOrder =>
                                 \A i \in 1..N :
                                    In(i, client'[j].route["rdap"]) => worker'[w].results[i] = i
                            /\ worker'[w].pc = "publish" => worker'[w].results = Whole
  <2>1. ASSUME NEW w \in Workers, Merging(w)' PROVE worker'[w].key.job \in Jobs
    <3>1. CoreInv'
      BY CoreStep
    <3>2. worker'[w].key \in Keys
      BY <2>1, <3>1 DEF CoreInv, Shape, Merging
    <3> QED BY <3>2, KeyCases
  <2> QED BY <2>1 DEF WholeArrays, Key, Whole
<1>1. Clean /\ used'["worker"] = 0 /\ used'["recover"] = 0
  BY <1>0, StaleStep DEF Clean
<1>2. stale = NoKey /\ stale' = NoKey
  BY <1>0, <1>1, StaleStep DEF WholeArrays
<1>3. ASSUME NEW j \in Jobs, Waiting(j)' PROVE hash'[Parent(j)].results \in {<<>>, Whole}
  <2> DEFINE k == Parent(j)
  <2>0. k \in Keys /\ k.job = j /\ k.part = "parent" /\ "parent" \notin Parts
    BY KeyTypes
  <2>1. CASE client[j].pc = "idle"
    <3>1. hash' = CreateHashes(j, client'[j].route)
      BY <1>0, <1>3, <2>1, ClientStepKinds DEF Waiting
    <3> QED BY <2>0, <3>1 DEF CreateHashes, Created, NewKeys
  <2>2. CASE client[j].pc # "idle"
    <3>1. Waiting(j) /\ client[j].pc \notin {"idle", "undo", "done", "dead"}
      BY <1>0, <1>3, <2>2, WaitingBefore DEF Waiting
    <3>2. hash[k].results \in {<<>>, Whole}
      BY <1>1, <3>1 DEF WholeArrays
    <3>3. ASSUME NEW w \in Workers, Completes(w, k) PROVE hash'[k].results = Whole
      <4>0. hash'[k].results = worker[w].results /\ Key(w).job = j
        BY <2>0, <3>3, CompletesHeld DEF Completes
      <4>1. CASE worker[w].pc = "publish"
        BY <1>1, <3>1, <4>0, <4>1 DEF WholeArrays, Merging
      <4>2. CASE worker[w].pc # "publish"
        <5>1. Key(w) = k /\ worker[w].results = DomainsOf(k)
          BY <3>3, <4>2 DEF Completes, WorkerArrays
        <5> QED BY <2>0, <4>0, <5>1 DEF DomainsOf, Whole
      <4> QED BY <4>1, <4>2
    <3> QED BY <1>0, <2>0, <3>1, <3>2, <3>3, HashStep
  <2> QED BY <2>1, <2>2
<1>4. ASSUME NEW j \in Jobs, client'[j].answer = "ok" PROVE client'[j].results = Whole
  <2>1. client[j].answer = "ok" => client[j].results = Whole
    BY <1>1 DEF WholeArrays
  <2>2. client[j].pc = "fetch" => hash[Parent(j)].results = Whole
    BY <1>1 DEF WholeArrays, ClientArrays, Waiting
  <2>3. client[j].pc # "done" => client[j].answer = "none"
    BY DEF ClientArrays
  <2> QED BY <1>0, <1>4, <2>1, <2>2, <2>3, ClientStepKinds
<1>5. ASSUME NEW w \in Workers, NEW j \in Jobs, Merging(w)', worker'[w].key.job = j, Waiting(j)'
      PROVE  /\ \A p \in Parts : hash'[Sub(j, p)].status = "completed"
             /\ worker'[w].pc = "read" => DOMAIN worker'[w].results = 1..N
             /\ worker'[w].pc = "read" /\ worker'[w].todo # SubOrder =>
                    \A i \in 1..N : In(i, client'[j].route["rdap"]) => worker'[w].results[i] = i
             /\ worker'[w].pc = "publish" => worker'[w].results = Whole
  <2>0. /\ worker'[w].key = Key(w) /\ Key(w).job = j /\ worker[w].pc # "idle"
        /\ Merging(w) \/ (CompleteSub(w) /\ worker[w].pc = "complete")
        /\ CompleteSub(w) => \A p \in Parts : hash'[Sub(j, p)].status = "completed"
    BY <1>0, <1>5, NewlyMerging DEF Merging
  <2>1. client[j].pc # "idle" /\ Waiting(j) /\ client'[j].route = client[j].route
        /\ client[j].pc \notin {"idle", "undo", "done", "dead"}
        /\ client[j].route \in Splits
    BY <1>0, <1>5, <2>0, HeldIsSent, WaitingBefore, RouteFixed DEF Waiting, ClientArrays
  <2>2. CASE ~Merging(w)
    <3>1. worker[w].pc = "complete"
      BY <2>0, <2>2
    <3>2. worker'[w].pc \notin {"read", "publish"}
      BY <1>0, <3>1, WorkerStepKinds
    <3> QED BY <2>0, <2>2, <3>2
  <2>3. CASE Merging(w)
    <3>1. /\ \A p \in Parts : hash[Sub(j, p)].status = "completed"
          /\ worker[w].pc = "read" => DOMAIN worker[w].results = 1..N
          /\ worker[w].pc = "read" /\ worker[w].todo # SubOrder =>
                \A i \in 1..N : In(i, client[j].route["rdap"]) => worker[w].results[i] = i
          /\ worker[w].pc = "publish" => worker[w].results = Whole
      BY <1>1, <2>0, <2>1, <2>3 DEF WholeArrays
    <3>2. ASSUME NEW p \in Parts PROVE hash'[Sub(j, p)].status = "completed"
      <4>1. Sub(j, p) \in Keys /\ Sub(j, p).job = j
        BY KeyTypes
      <4>2. Spent(Sub(j, p)) /\ Sub(j, p) # NoKey
        BY <2>0, <2>3, <4>1, PipelineAssumption DEF CoreInv, Completion, MergingIsSpent, NoKey
      <4>3. ~\E v \in Workers : Unfinished(v) /\ Key(v) = Sub(j, p)
        BY <4>2 DEF Spent
      <4> QED BY <1>0, <1>2, <2>1, <3>1, <4>1, <4>2, <4>3, HashStep DEF Completes
    <3>3. ASSUME NEW p \in Parts PROVE hash[Sub(j, p)].status = "completed" /\ hash[Sub(j, p)].made
      <4>1. IsSplit(client[j].route)
        BY <2>0, <2>3, HeldIsSent DEF CoreInv, Completion, MergingIsSpent, Delivery, RightKind
      <4>2. Sub(j, p) \in NewKeys(j, client[j].route)
        BY <4>1 DEF NewKeys
      <4> QED BY <2>1, <3>1, <4>2 DEF Kept
    <3>4. ASSUME worker[w].pc = "read", NEW p \in Parts
          PROVE  LET b == AddSub(worker[w].results, Sub(j, p))
                 IN  /\ b \in Arrays /\ DOMAIN b = 1..N
                     /\ \A i \in 1..N : b[i] = IF In(i, client[j].route[p]) THEN i
                                               ELSE worker[w].results[i]
      <4>1. worker[w].results \in Arrays
        BY <3>4 DEF WorkerArrays
      <4>2. DOMAIN worker[w].results = 1..N
        BY <3>1, <3>4
      <4> DEFINE a == worker[w].results
      <4> HIDE DEF a
      <4>3. /\ AddSub(a, Sub(j, p)) \in Arrays
            /\ DOMAIN AddSub(a, Sub(j, p)) = DOMAIN a
            /\ \A i \in DOMAIN a :
                  AddSub(a, Sub(j, p))[i] = IF In(i, client[j].route[p]) THEN i ELSE a[i]
        <5>1. a \in Arrays
          BY <4>1 DEF a
        <5> QED BY <1>0, <3>3, <5>1, AddSubArray
      <4> QED BY <4>2, <4>3 DEF a
    <3>5. CASE worker'[w] = worker[w]
      BY <2>1, <3>1, <3>2, <3>5
    <3>6. CASE worker'[w].pc = "merge"
      BY <3>2, <3>6
    <3>7. CASE /\ worker'[w].pc = "read" /\ worker'[w].todo = SubOrder
               /\ worker'[w].results = Gaps(N)
      BY <3>2, <3>7 DEF Gaps
    <3>8. CASE /\ worker[w].pc = "read" /\ worker[w].todo = SubOrder /\ worker'[w].pc = "read"
               /\ worker'[w].results = AddSub(worker[w].results, Sub(j, Head(worker[w].todo)))
      <4>1. Head(worker[w].todo) = "rdap" /\ "rdap" \in Parts
        BY <3>8, Walks DEF Parts
      <4> QED BY <2>1, <3>2, <3>4, <3>8, <4>1
    <3>9. CASE /\ worker[w].pc = "read" /\ worker[w].todo = <<"whois">>
               /\ worker'[w].pc = "publish"
               /\ worker'[w].results = AddSub(worker[w].results, Sub(j, Head(worker[w].todo)))
      <4>1. Head(worker[w].todo) = "whois" /\ "whois" \in Parts /\ worker[w].todo # SubOrder
        BY <3>9, Walks DEF Parts
      <4>2. \A i \in 1..N : In(i, client[j].route["rdap"]) => worker[w].results[i] = i
        BY <3>1, <3>9, <4>1
      <4>3. worker'[w].results = Whole
        <5> DEFINE b == AddSub(worker[w].results, Sub(j, "whois"))
        <5>1. /\ b \in Arrays /\ DOMAIN b = 1..N
              /\ \A i \in 1..N : b[i] = IF In(i, client[j].route["whois"]) THEN i
                                        ELSE worker[w].results[i]
          BY <3>4, <3>9, <4>1
        <5> HIDE DEF b
        <5>2. \A i \in 1..N : In(i, client[j].route["rdap"]) \/ In(i, client[j].route["whois"])
                                => b[i] = i
          BY <4>2, <5>1
        <5>3. b = Whole
          BY <2>1, <5>1, <5>2, BothIsWhole
        <5> QED BY <3>9, <4>1, <5>3 DEF b
      <4> QED BY <3>2, <3>9, <4>3
    <3> QED BY <1>0, <1>1, <1>5, <2>0, <2>3, <3>5, <3>6, <3>7, <3>8, <3>9, WorkerStepKinds
            DEF Merging
  <2> QED BY <2>2, <2>3
<1> QED BY <1>2, <1>3, <1>4, <1>5

LEMMA InitArrays == Init => Untouched /\ StoredArrays /\ WorkerArrays /\ ClientArrays /\ Kept /\ WholeArrays
<1> SUFFICES ASSUME Init
             PROVE  Untouched /\ StoredArrays /\ WorkerArrays /\ ClientArrays /\ Kept /\ WholeArrays
  OBVIOUS
<1>1. \A k \in Keys : hash[k].status = "absent" /\ hash[k].results = <<>>
  BY DEF Init, Absent
<1>2. \A w \in Workers : worker[w].pc = "idle"
  BY DEF Init, IdleWorker
<1>3. \A j \in Jobs : client[j].pc = "idle" /\ client[j].answer = "none" /\ client[j].results = <<>>
  BY DEF Init, NewClient
<1>4. stale = NoKey /\ NoKey \notin Keys
  BY PipelineAssumption DEF Init, NoKey, Keys
<1>5. \A j \in Jobs : Parent(j) \in Keys /\ \A p \in Parts : Sub(j, p) \in Keys
  BY KeyTypes
<1>6. Untouched
  BY <1>1, <1>4 DEF Untouched
<1>7. StoredArrays
  BY <1>1, <1>5 DEF StoredArrays, ArrayOrNone
<1>8. WorkerArrays
  BY <1>2 DEF WorkerArrays
<1>9. ClientArrays
  BY <1>3 DEF ClientArrays
<1>10. Kept
  BY <1>3 DEF Kept, Waiting
<1>11. WholeArrays
  BY <1>2, <1>3, <1>4 DEF WholeArrays, Waiting, Merging
<1> QED BY <1>6, <1>7, <1>8, <1>9, <1>10, <1>11

-----------------------------------------------------------------------------
(* The theorems.                                                           *)

(* The inductive invariant of the whole pipeline: delivery, completion, and
   where every array that is stored, merged or sent comes from.            *)
THEOREM PipelineInvariant == Spec => []PipelineInv
<1>1. Init => PipelineInv
  BY InitTyped, InitDelivery, InitCompletion, InitArrays, CoreParts DEF PipelineInv
<1>2. PipelineInv /\ [Next]_vars => PipelineInv'
  <2> SUFFICES ASSUME PipelineInv, [Next]_vars PROVE PipelineInv'
    OBVIOUS
  <2>1. CoreInv'
    BY CoreStep DEF PipelineInv
  <2> QED BY <2>1, UntouchedStep, StoredArraysStep, WorkerArraysStep, ClientArraysStep, KeptStep,
             WholeArraysStep DEF PipelineInv
<1> QED BY <1>1, <1>2, PTL DEF Spec

(* Whatever fails, a published or sent array holds at each position the
   result of that position's domain or a placeholder.                      *)
THEOREM ArraysInPlace == Spec => []ResultsInPlace
<1>1. \A a \in ArrayOrNone : InPlace(a)
  <2> SUFFICES ASSUME NEW a \in ArrayOrNone PROVE InPlace(a)
    OBVIOUS
  <2>1. CASE a = <<>>
    BY <2>1 DEF InPlace
  <2>2. CASE a \in Arrays
    <3>1. PICK n \in {N, SafetyCount} :
            a = [i \in 1..n |-> a[i]] /\ \A i \in 1..n : a[i] \in {i, Gap}
      BY <2>2, ArrayShape
    <3>2. DOMAIN a = 1..n
      BY <3>1
    <3> QED BY <3>1, <3>2 DEF InPlace
  <2> QED BY <2>1, <2>2 DEF ArrayOrNone
<1>2. PipelineInv => ResultsInPlace
  <2> SUFFICES ASSUME PipelineInv, NEW j \in Jobs
               PROVE  hash[Parent(j)].results \in ArrayOrNone /\ client[j].results \in ArrayOrNone
    BY <1>1 DEF ResultsInPlace
  <2>1. client[j] \in Client
    BY DEF PipelineInv, CoreInv, TypeOK
  <2> QED BY <2>1 DEF PipelineInv, StoredArrays, ClientArrays, ArrayOrNone, Client, Answers
<1> QED BY <1>2, PipelineInvariant, PTL

(* Without worker-side errors and recoveries, a 200 answer is complete:
   crashes, failed pushes and the order of the sub-jobs leave no gap.      *)
THEOREM AnswersAreWhole == Spec => []AnswerWhole
<1>1. PipelineInv => AnswerWhole
  BY DEF PipelineInv, WholeArrays, Clean, AnswerWhole, Whole
<1> QED BY <1>1, PipelineInvariant, PTL

(* A completed hash is the last word: nobody rewrites its status or its
   results, except a recovery that read an older status; the fallback write
   of a failed script call repeats what the script wrote.                  *)
LEMMA FinalStep ==
    ASSUME PipelineInv, [Next]_vars, NEW k \in Keys, hash[k].status = "completed", stale # k
    PROVE  \/ hash'[k].status = "absent"
           \/ hash'[k].status = "completed" /\ hash'[k].results = hash[k].results
<1> USE DEF PipelineInv
<1>0. Typed
  BY CoreParts
<1>1. Spent(k)
  BY DEF CoreInv, Completion, CompletedIsSpent
<1>2. ~\E w \in Workers : Unfinished(w) /\ Key(w) = k
  BY <1>1 DEF Spent
<1>3. client[k.job].pc # "idle"
  BY DEF Untouched
<1>4. ASSUME NEW w \in Workers, Completes(w, k)
      PROVE  hash'[k].results = hash[k].results
  <2>1. CASE worker[w].pc = "publish"
    <3>1. k = Parent(k.job) /\ Key(w).job = k.job /\ Merging(w) /\ k.job \in Jobs
      BY <1>4, <2>1, CompletesHeld, KeyCases DEF Completes, ParentKey, Merging
    <3>2. Settled(k.job)
      BY <3>1 DEF StoredArrays
    <3> QED BY <3>1, <3>2 DEF Settled
  <2>2. CASE worker[w].pc # "publish"
    <3>1. Key(w) = k /\ worker[w].pc = "write"
      BY <1>2, <1>4, <2>2 DEF Completes, Unfinished
    <3>2. k.part \in Parts /\ "parent" \notin Parts /\ worker[w].results = DomainsOf(k)
      BY <3>1 DEF WorkerArrays, Parts
    <3>3. k = Sub(k.job, k.part) /\ k.job \in Jobs
      BY <3>2, KeyCases
    <3>4. hash[k].results = client[k.job].route[k.part]
      BY <3>2, <3>3 DEF StoredArrays
    <3> QED BY <1>4, <3>2, <3>4 DEF Completes, DomainsOf
  <2> QED BY <2>1, <2>2
<1> QED BY <1>0, <1>2, <1>3, <1>4, HashStep DEF Absent, Completes

THEOREM CompletedStaysSo == Spec => CompletedIsFinal
<1>1. PipelineInv /\ [Next]_vars =>
        [\A k \in Keys :
            hash[k].status = "completed" /\ stale # k =>
                \/ hash'[k].status = "absent"
                \/ hash'[k].status = "completed" /\ hash'[k].results = hash[k].results]_vars
  BY FinalStep
<1> QED BY <1>1, PipelineInvariant, PTL DEF Spec, CompletedIsFinal

-----------------------------------------------------------------------------
(* The refinement.  A step changes the array and the reply of one request at
   most, and for that request it is a step of BulkCheck or a stutter.      *)

ReplyOf(j) == [code |-> IF client[j].pc = "dead" THEN "lost" ELSE client[j].answer,
               results |-> IF client[j].pc = "done" THEN client[j].results ELSE <<>>]

LEMMA OneJob ==
    ASSUME Typed, [Next]_vars
    PROVE  \/ \A x \in Jobs : hash'[Parent(x)] = hash[Parent(x)] /\ client'[x] = client[x]
           \/ \E j \in Jobs : \A x \in Jobs \ {j} :
                 hash'[Parent(x)] = hash[Parent(x)] /\ client'[x] = client[x]
<1>0. hash \in [Keys -> Hash] /\ client \in [Jobs -> Client]
      /\ \A x \in Jobs : Parent(x) \in Keys /\ Parent(x).job = x
  BY KeyTypes DEF Typed, TypeOK
<1>1. ASSUME NEW j \in Jobs, Submit(j) \/ ClientStep(j) \/ ClientFault(j), NEW x \in Jobs \ {j}
      PROVE  hash'[Parent(x)] = hash[Parent(x)] /\ client'[x] = client[x]
  <2>1. \A sp : Parent(x) \notin NewKeys(j, sp)
    BY <1>0, KeyTypes DEF NewKeys
  <2>2. hash'[Parent(x)] = hash[Parent(x)]
    BY <1>0, <1>1, <2>1 DEF Submit, SubmitError, CreateHashes, ClientStep, ClientFault, Push, PushError,
       Undo, Poll, PollTimeout, Fetch, Drain, DrainSub, ClientError, ApiCrash
  <2>3. client'[x] = client[x]
    BY <1>0, <1>1 DEF Submit, SubmitError, ClientStep, ClientFault, Push, PushError, Undo, Poll,
       PollTimeout, GiveUp, Fetch, Drain, DrainSub, ClientError, ApiCrash, Answer, GoTo
  <2> QED BY <2>2, <2>3
<1>2. ASSUME NEW k \in Keys,
             \A x \in Keys : x.job # k.job => hash'[x] = hash[x],
             client' = client
      PROVE  \E j \in Jobs : \A x \in Jobs \ {j} :
                 hash'[Parent(x)] = hash[Parent(x)] /\ client'[x] = client[x]
  <2>1. k.job \in Jobs
    BY KeyCases
  <2> QED BY <1>0, <1>2, <2>1
<1>3. ASSUME NEW w \in Workers, WorkerStep(w) \/ WorkerFault(w)
      PROVE  client' = client /\ (hash' = hash \/ (worker[w].pc # "idle"
                /\ \A x \in Keys : x.job # Key(w).job => hash'[x] = hash[x]))
  <2>1. client' = client
    BY <1>3 DEF WorkerStep, WorkerFault, Claim, Check, CompleteSub, DirectWrite, FailJob, SetTTL,
         Merge, ReadSub, Publish, ClaimError, CompleteSubError, MergeError, ReadSubError, WriteLost,
         Crash, Pop
  <2>2. ParentKey(w).job = Key(w).job
    BY DEF ParentKey, Parent
  <2>3. CASE Claim(w) \/ ClaimError(w) \/ FailJob(w)
    BY <1>0, <2>1, <2>3 DEF Claim, ClaimError, FailJob, Marked
  <2>4. CASE CompleteSub(w) \/ CompleteSubError(w) \/ Publish(w)
    BY <1>0, <2>1, <2>2, <2>4 DEF CompleteSub, CompleteSubError, Publish, FinishedTTL
  <2>5. CASE DirectWrite(w)
    BY <1>0, <2>1, <2>5 DEF DirectWrite, Writing, Finished
  <2>6. CASE SetTTL(w)
    BY <1>0, <2>1, <2>6 DEF SetTTL
  <2>7. CASE hash' = hash
    BY <2>1, <2>7
  <2> QED BY <1>3, <2>3, <2>4, <2>5, <2>6, <2>7
          DEF WorkerStep, WorkerFault, Pop, Check, Merge, ReadSub, MergeError, ReadSubError,
              WriteLost, Crash
<1>4. ASSUME NEW w \in Workers, worker[w].pc # "idle" PROVE Key(w) \in Keys
  BY <1>4 DEF Typed, Shape, Key
<1>5. ASSUME NEW k \in Keys, Expire(k) \/ ReadStale(k)
      PROVE  client' = client /\ \A x \in Keys : x.job # k.job => hash'[x] = hash[x]
  BY <1>0, <1>5 DEF Expire, ReadStale
<1>6. CASE FailStale
  <2>1. stale \in Keys
    BY <1>6 DEF FailStale, Typed, TypeOK
  <2>2. client' = client /\ \A x \in Keys : x.job # stale.job => hash'[x] = hash[x]
    BY <1>0, <1>6 DEF FailStale
  <2>3. \E k \in Keys : \A x \in Keys : x.job # k.job => hash'[x] = hash[x]
    BY <2>1, <2>2
  <2> QED BY <1>2, <2>2, <2>3
<1>7. CASE hash' = hash /\ client' = client
  BY <1>7
<1>8. ASSUME NEW w \in Workers, WorkerStep(w) \/ WorkerFault(w), hash' # hash
      PROVE  \E k \in Keys : client' = client /\ \A x \in Keys : x.job # k.job => hash'[x] = hash[x]
  BY <1>3, <1>4, <1>8
<1>9. ASSUME NEW w \in Workers, WorkerStep(w) \/ WorkerFault(w)
      PROVE  \/ hash' = hash /\ client' = client
             \/ \E j \in Jobs : \A x \in Jobs \ {j} :
                   hash'[Parent(x)] = hash[Parent(x)] /\ client'[x] = client[x]
  BY <1>2, <1>3, <1>8, <1>9
<1> QED BY <1>1, <1>2, <1>5, <1>6, <1>7, <1>9 DEF Next, vars

(* The six things that may happen to the array P and the reply R of a job. *)
JobStep(P, R, Q, S) ==
    \/ Q = P /\ S = R
    \/ P = <<>> /\ Q \in Arrays /\ S = R
    \/ P # <<>> /\ R.code = "none" /\ Q = P /\ S = [code |-> "ok", results |-> P]
    \/ /\ R.code = "none" /\ Q = P
       /\ \E r \in ArrayOrNone : S = [code |-> "partial", results |-> r]
    \/ /\ R.code = "none" /\ Q \in {P, <<>>}
       /\ \E code \in {"failed", "timeout", "unavailable", "error", "lost"} :
              S = [code |-> code, results |-> <<>>]
    \/ R.code # "none" /\ Q = <<>> /\ S = R

LEMMA JobSteps ==
    ASSUME PipelineInv, [Next]_vars, NEW j \in Jobs
    PROVE  JobStep(hash[Parent(j)].results, ReplyOf(j), hash'[Parent(j)].results, ReplyOf(j)')
<1> USE DEF PipelineInv
<1> DEFINE k == Parent(j)
           P == hash[k].results
           Q == hash'[k].results
<1>0. Typed /\ k \in Keys /\ k.job = j
  BY CoreParts, KeyTypes
<1>1. /\ P \in ArrayOrNone
      /\ P # <<>> => Settled(j)
      /\ hash'[k].status = "completed" => Q \in Arrays
  BY <1>0, StoredArraysStep DEF StoredArrays, ArrayOrNone, Arrays, BC!Arrays
<1>2. /\ client[j].pc = "done" <=> client[j].answer # "none"
      /\ client[j].pc = "fetch" => P # <<>>
      /\ client[j].pc = "drain_subs" => client[j].results \in Arrays
  BY DEF ClientArrays
<1>3. ASSUME NEW w \in Workers, Completes(w, k)
      PROVE  client' = client /\ P = <<>> /\ Q \in Arrays
  <2>1. client' = client /\ Q \in Arrays
    BY <1>1, <1>3 DEF Completes
  <2>2. ASSUME Settled(j) PROVE FALSE
    <3>1. CASE worker[w].pc = "publish"
      BY <1>0, <1>3, <2>2, <3>1, CompletesHeld DEF Settled, Merging
    <3>2. CASE worker[w].pc # "publish"
      <4>1. Key(w) = k /\ worker[w].pc = "complete"
        BY <1>0, <1>3, <3>2, KeyTypes DEF Completes, WorkerArrays
      <4> QED BY <1>0, <2>2, <4>1 DEF Settled, Spent, Unfinished
    <3> QED BY <3>1, <3>2
  <2> QED BY <1>1, <2>1, <2>2
(* The array, from the point of view of its handler. *)
<1>4. \/ Q = P
      \/ client'[j] = client[j] /\ P = <<>> /\ Q \in Arrays
      \/ Q = <<>> /\ client[j].pc = "undo" /\ client'[j].pc = "done"
      \/ Q = <<>> /\ client[j].pc \in {"done", "dead"} /\ client'[j] = client[j]
  <2>1. client[j].pc = "idle" => P = <<>>
    BY <1>0 DEF Untouched
  <2>2. CASE \E w \in Workers : Completes(w, k)
    BY <1>3, <2>2
  <2>3. CASE ~\E w \in Workers : Completes(w, k)
    BY <1>0, <2>1, <2>3, HashStep DEF Created, Absent
  <2> QED BY <2>2, <2>3
<1>5. Arrays \subseteq ArrayOrNone /\ <<>> \in ArrayOrNone
  BY DEF ArrayOrNone
<1>6. CASE client'[j] = client[j]
  <2>1. ReplyOf(j)' = ReplyOf(j)
    BY <1>6 DEF ReplyOf
  <2>2. client[j].pc \in {"done", "dead"} => ReplyOf(j).code # "none"
    BY <1>2 DEF ReplyOf
  <2> HIDE DEF P, Q, k
  <2>3. \/ Q = P
        \/ P = <<>> /\ Q \in Arrays
        \/ ReplyOf(j).code # "none" /\ Q = <<>>
    BY <1>4, <1>6, <2>2, Zenon
  <2>4. ASSUME NEW R, NEW S, S = R, Q = P \/ (P = <<>> /\ Q \in Arrays) \/ (R.code # "none" /\ Q = <<>>)
        PROVE  JobStep(P, R, Q, S)
    BY <2>4 DEF JobStep
  <2>5. JobStep(P, ReplyOf(j), Q, ReplyOf(j)')
    BY <2>1, <2>3, <2>4
  <2> QED BY <2>5 DEF P, Q, k
<1>7. CASE client'[j] # client[j]
  <2>1. client[j].pc \notin {"done", "dead"}
    BY <1>0, <1>7, ClientStepKinds
  <2>2. ReplyOf(j) = [code |-> "none", results |-> <<>>]
    BY <1>2, <2>1 DEF ReplyOf
  <2>3. Q = P \/ (Q = <<>> /\ client[j].pc = "undo" /\ client'[j].pc = "done")
    BY <1>4, <1>7, <2>1
  <2>4. client[j].pc = "drain_subs" =>
          \A p \in Parts : AddSub(client[j].results, Sub(j, p)) \in Arrays
    BY <1>0, <1>2, AddSubArray
  <2>5. hash' = hash => Q = P
    OBVIOUS
  <2> HIDE DEF P, Q, k
  <2>6. CASE client'[j].pc \notin {"done", "dead"} /\ client'[j].answer = "none"
    <3>1. ReplyOf(j)' = [code |-> "none", results |-> <<>>]
      BY <2>6 DEF ReplyOf
    <3>2. JobStep(P, ReplyOf(j), Q, ReplyOf(j)')
      BY <2>2, <2>3, <2>6, <3>1 DEF JobStep
    <3> QED BY <3>2 DEF P, Q, k
  <2>7. CASE /\ client'[j].pc = "done" /\ client'[j].results = <<>>
             /\ client'[j].answer \in {"failed", "timeout", "unavailable", "error"}
    <3>1. ReplyOf(j)' = [code |-> client'[j].answer, results |-> <<>>]
      BY <2>7 DEF ReplyOf
    <3>2. JobStep(P, ReplyOf(j), Q, ReplyOf(j)')
      BY <2>2, <2>3, <2>7, <3>1 DEF JobStep
    <3> QED BY <3>2 DEF P, Q, k
  <2>8. CASE client'[j].pc = "dead"
    <3>1. ReplyOf(j)' = [code |-> "lost", results |-> <<>>]
      BY <2>8 DEF ReplyOf
    <3>2. JobStep(P, ReplyOf(j), Q, ReplyOf(j)')
      BY <2>2, <2>3, <2>8, <3>1 DEF JobStep
    <3> QED BY <3>2 DEF P, Q, k
  <2>9. CASE /\ client[j].pc = "fetch" /\ client'[j].pc = "done" /\ client'[j].answer = "ok"
             /\ client'[j].results = P /\ hash' = hash
    <3>1. ReplyOf(j)' = [code |-> "ok", results |-> P]
      BY <2>9 DEF ReplyOf
    <3>2. JobStep(P, ReplyOf(j), Q, ReplyOf(j)')
      BY <1>2, <2>2, <2>5, <2>9, <3>1 DEF JobStep
    <3> QED BY <3>2 DEF P, Q, k
  <2>10. CASE /\ client'[j].pc = "done" /\ client'[j].answer = "partial"
              /\ client'[j].results \in ArrayOrNone /\ hash' = hash
    <3>1. ReplyOf(j)' = [code |-> "partial", results |-> client'[j].results]
      BY <2>10 DEF ReplyOf
    <3>2. JobStep(P, ReplyOf(j), Q, ReplyOf(j)')
      BY <2>2, <2>5, <2>10, <3>1 DEF JobStep
    <3> QED BY <3>2 DEF P, Q, k
  <2>11. P = hash[Parent(j)].results
    BY DEF P, k
  <2>12. CASE client[j].pc = "idle"
    BY <1>0, <1>7, <2>6, <2>7, <2>12, ClientStepKinds
  <2>13. CASE client[j].pc # "idle"
    <3>1. client[j].answer = "none"
      BY <1>2, <2>1
    <3> QED BY <1>0, <1>1, <1>5, <1>7, <2>1, <2>4, <2>6, <2>7, <2>8, <2>9, <2>10, <2>11, <2>13, <3>1,
               ClientStepKinds
  <2> QED BY <2>12, <2>13
<1> QED BY <1>6, <1>7

(* The same step, as a step of BulkCheck on the whole arrays and replies. *)
LEMMA RefinedStep ==
    ASSUME PipelineInv, [Next]_vars
    PROVE  [BC!BCNext]_BC!bvars
<1> DEFINE P == [j \in Jobs |-> hash[Parent(j)].results]
           Q == [j \in Jobs |-> hash'[Parent(j)].results]
           R == [j \in Jobs |-> [code |-> IF client[j].pc = "dead" THEN "lost" ELSE client[j].answer,
                                 results |-> IF client[j].pc = "done" THEN client[j].results ELSE <<>>]]
           S == [j \in Jobs |-> [code |-> IF client'[j].pc = "dead" THEN "lost" ELSE client'[j].answer,
                                 results |-> IF client'[j].pc = "done" THEN client'[j].results
                                             ELSE <<>>]]
<1>1. \A j \in Jobs : JobStep(P[j], R[j], Q[j], S[j])
  BY JobSteps DEF ReplyOf
<1>2. \/ P = Q /\ R = S
      \/ \E j \in Jobs : Q = [P EXCEPT ![j] = Q[j]] /\ S = [R EXCEPT ![j] = S[j]]
  <2>0. Typed
    BY CoreParts DEF PipelineInv
  <2>1. CASE \A x \in Jobs : hash'[Parent(x)] = hash[Parent(x)] /\ client'[x] = client[x]
    BY <2>1
  <2>2. ASSUME NEW j \in Jobs,
               \A x \in Jobs \ {j} : hash'[Parent(x)] = hash[Parent(x)] /\ client'[x] = client[x]
        PROVE  Q = [P EXCEPT ![j] = Q[j]] /\ S = [R EXCEPT ![j] = S[j]]
    BY <2>2
  <2> QED BY <2>0, <2>1, <2>2, OneJob
<1> HIDE DEF P, Q, R, S
<1>3. CASE P = Q /\ R = S
  BY <1>3 DEF BC!bvars, P, Q, R, S
<1>4. ASSUME NEW j \in Jobs, Q = [P EXCEPT ![j] = Q[j]], S = [R EXCEPT ![j] = S[j]]
      PROVE  [BC!BCNext]_BC!bvars
  <2>1. JobStep(P[j], R[j], Q[j], S[j])
    BY <1>1
  <2>a. P = [P EXCEPT ![j] = P[j]] /\ R = [R EXCEPT ![j] = R[j]]
    BY DEF P, R
  <2>2. CASE Q[j] = P[j] /\ S[j] = R[j]
    <3>1. P = Q /\ R = S
      BY <1>4, <2>2, <2>a
    <3> QED BY <1>3, <3>1
  <2>3. CASE P[j] = <<>> /\ Q[j] \in Arrays /\ S[j] = R[j]
    <3>1. P[j] = <<>> /\ (\E r \in BC!Arrays : Q = [P EXCEPT ![j] = r]) /\ S = R
      BY <1>4, <2>3, <2>a DEF Arrays
    <3>2. BC!PublishArray(j)
      BY <3>1 DEF BC!PublishArray, P, Q, R, S
    <3> QED BY <3>2 DEF BC!BCNext
  <2>4. CASE P[j] # <<>> /\ R[j].code = "none" /\ Q[j] = P[j] /\ S[j] = [code |-> "ok", results |-> P[j]]
    <3>1. P[j] # <<>> /\ R[j].code = "none" /\ Q = P
          /\ S = [R EXCEPT ![j] = [code |-> "ok", results |-> P[j]]]
      BY <1>4, <2>4, <2>a
    <3>2. BC!ReplyOk(j)
      BY <3>1 DEF BC!ReplyOk, BC!Send, BC!Open, P, Q, R, S
    <3> QED BY <3>2 DEF BC!BCNext
  <2>5. CASE /\ R[j].code = "none" /\ Q[j] = P[j]
             /\ \E r \in ArrayOrNone : S[j] = [code |-> "partial", results |-> r]
    <3>1. /\ R[j].code = "none" /\ Q = P
          /\ \E r \in BC!Arrays \cup {<<>>} :
                S = [R EXCEPT ![j] = [code |-> "partial", results |-> r]]
      BY <1>4, <2>5, <2>a DEF ArrayOrNone, Arrays
    <3>2. BC!ReplyPartial(j)
      BY <3>1 DEF BC!ReplyPartial, BC!Send, BC!Open, P, Q, R, S
    <3> QED BY <3>2 DEF BC!BCNext
  <2>6. CASE /\ R[j].code = "none" /\ Q[j] \in {P[j], <<>>}
             /\ \E code \in {"failed", "timeout", "unavailable", "error", "lost"} :
                    S[j] = [code |-> code, results |-> <<>>]
    <3>1. /\ R[j].code = "none"
          /\ Q = P \/ Q = [P EXCEPT ![j] = <<>>]
          /\ \E code \in {"failed", "timeout", "unavailable", "error", "lost"} :
                S = [R EXCEPT ![j] = [code |-> code, results |-> <<>>]]
      BY <1>4, <2>6, <2>a
    <3>2. BC!Refuse(j)
      BY <3>1 DEF BC!Refuse, BC!Send, BC!Open, P, Q, R, S
    <3> QED BY <3>2 DEF BC!BCNext
  <2>7. CASE R[j].code # "none" /\ Q[j] = <<>> /\ S[j] = R[j]
    <3>1. R[j].code # "none" /\ Q = [P EXCEPT ![j] = <<>>] /\ S = R
      BY <1>4, <2>7, <2>a
    <3>2. BC!Retire(j)
      BY <3>1 DEF BC!Retire, BC!Open, P, Q, R, S
    <3> QED BY <3>2 DEF BC!BCNext
  <2> QED BY <2>1, <2>2, <2>3, <2>4, <2>5, <2>6, <2>7 DEF JobStep
<1> QED BY <1>2, <1>3, <1>4

LEMMA RefinedInit == Init => BC!BCInit
<1> SUFFICES ASSUME Init PROVE BC!BCInit
  OBVIOUS
<1>1. \A j \in Jobs : hash[Parent(j)].results = <<>>
  BY KeyTypes DEF Init, Absent
<1>2. \A j \in Jobs : client[j].pc = "idle" /\ client[j].answer = "none"
  BY DEF Init, NewClient
<1> QED BY <1>1, <1>2 DEF BC!BCInit

(* The pipeline implements BulkCheck, for any set of requests and workers
   and any faults: at most one array is ever published for an open request,
   and a 200 reply is that array.                                          *)
THEOREM PipelineImplementsBulkCheck == Spec => ImplementsBulkCheck
<1>1. PipelineInv /\ [Next]_vars => [BC!BCNext]_BC!bvars
  BY RefinedStep
<1> QED BY <1>1, RefinedInit, PipelineInvariant, PTL DEF Spec, ImplementsBulkCheck, BC!BCSpec

=============================================================================
