------------------------------ MODULE QuotaGate ------------------------------
(***************************************************************************)
(* The gate in front of a bulk check, for one consumer: the per-minute     *)
(* request counter in Valkey, the monthly and per-minute lookup quotas in  *)
(* PostgreSQL, and the charge (backend/app.py, backend/queries.py).        *)
(* do_bulk_check runs from the first check to the enqueue without an       *)
(* await, so an API process is in one request's gate at a time; processes  *)
(* interleave at every store round trip, and so does the clock.            *)
(***************************************************************************)
EXTENDS Integers, FiniteSets

CONSTANTS
    Procs,         \* API processes
    LastMinute,    \* bound: the minutes of a behaviour
    MonthOf,       \* the month each minute belongs to
    MinuteLimit,   \* plan's minute_limit, 0 = unlimited
    MonthlyLimit,  \* plan's monthly_limit, 0 = unlimited
    DomainCap,     \* plan's domain_cap
    MaxAborts,     \* bound on the requests that end with an exception
    MaxCounted     \* bound on the requests that start in a minute (none starts
                   \* when its rate key has counted that many)

Minutes == 0..LastMinute
Months == 0..LastMinute

ASSUME QuotaAssumption ==
    /\ IsFiniteSet(Procs)
    /\ LastMinute \in Nat
    /\ MonthOf \in [Minutes -> Months]
    /\ \A m \in Minutes : m + 1 \in Minutes => MonthOf[m] <= MonthOf[m + 1]
    /\ MinuteLimit \in Nat /\ MonthlyLimit \in Nat /\ DomainCap \in Nat
    /\ MaxAborts \in Nat /\ MaxCounted \in Nat

VARIABLES
    now,       \* the current minute
    rate,      \* ratelimit:{consumer}:{minute}: its count and whether it has a TTL
    monthly,   \* usage_log_daily, summed by month
    minutely,  \* usage_log_minute
    proc,      \* what each process is doing
    passed,    \* requests the rate limiter let through, by the minute of their key
    enqueued,  \* domains handed to the job pipeline
    aborts     \* requests that ended with an exception

vars == <<now, rate, monthly, minutely, proc, passed, enqueued, aborts>>

PCs == {"idle", "incr", "expire", "month", "minute", "rec_month", "rec_minute", "enqueue"}
IdleProc == [pc |-> "idle", size |-> 0, key |-> 0]

Go(p, pc) == proc' = [proc EXCEPT ![p].pc = pc]
Leave(p) == proc' = [proc EXCEPT ![p] = IdleProc]

-----------------------------------------------------------------------------
(* A request of n domains within the plan's cap; the minute of its rate key
   is fixed before the round trip that counts it.                          *)
Start(p) ==
    /\ proc[p].pc = "idle"
    /\ rate[now].count < MaxCounted
    /\ \E n \in 1..DomainCap :
          proc' = [proc EXCEPT ![p] = [pc |-> IF MinuteLimit > 0 THEN "incr" ELSE "month",
                                       size |-> n, key |-> now]]
    /\ UNCHANGED <<now, rate, monthly, minutely, passed, enqueued, aborts>>

(* count > limit is refused, and counted all the same. *)
Decide(p, count) ==
    IF count > MinuteLimit
    THEN Leave(p) /\ UNCHANGED passed
    ELSE Go(p, "month") /\ passed' = [passed EXCEPT ![proc[p].key] = @ + 1]

(* Variant: the key gets its time to live on the second request. *)
FirstOfMinuteLate(count) == count = 2

(* The request that makes the key also has to give it a time to live. *)
FirstOfMinute(count) == count = 1

(* Variant: the count before the INCR decides. *)
IncrStale(p) ==
    LET k == proc[p].key
        count == rate[k].count
    IN  /\ proc[p].pc = "incr"
        /\ rate' = [rate EXCEPT ![k].count = count + 1]
        /\ IF FirstOfMinute(count + 1) THEN Go(p, "expire") /\ UNCHANGED passed
           ELSE Decide(p, count)
        /\ UNCHANGED <<now, monthly, minutely, enqueued, aborts>>

Incr(p) ==
    LET k == proc[p].key
        count == rate[k].count + 1
    IN  /\ proc[p].pc = "incr"
        /\ rate' = [rate EXCEPT ![k].count = count]
        /\ IF FirstOfMinute(count) THEN Go(p, "expire") /\ UNCHANGED passed ELSE Decide(p, count)
        /\ UNCHANGED <<now, monthly, minutely, enqueued, aborts>>

SetExpiry(p) ==
    /\ proc[p].pc = "expire"
    /\ rate' = IF rate[proc[p].key].count > 0
               THEN [rate EXCEPT ![proc[p].key].ttl = TRUE] ELSE rate
    /\ Decide(p, 1)
    /\ UNCHANGED <<now, monthly, minutely, enqueued, aborts>>

(* Variant: a consumer that is exactly at the limit is let through. *)
WithinOffByOne(used, limit) == limit = 0 \/ used <= limit

(* used >= limit is refused, whatever the size of the request. *)
Within(used, limit) == limit = 0 \/ used < limit

ReadMonth(p) ==
    /\ proc[p].pc = "month"
    /\ IF Within(monthly[MonthOf[now]], MonthlyLimit) THEN Go(p, "minute") ELSE Leave(p)
    /\ UNCHANGED <<now, rate, monthly, minutely, passed, enqueued, aborts>>

ReadMinute(p) ==
    /\ proc[p].pc = "minute"
    /\ IF Within(minutely[now], MinuteLimit) THEN Go(p, "rec_month") ELSE Leave(p)
    /\ UNCHANGED <<now, rate, monthly, minutely, passed, enqueued, aborts>>

(* Upserts: the database adds, so no concurrent charge is lost. *)
RecordUsage(p) ==
    /\ proc[p].pc = "rec_month"
    /\ monthly' = [monthly EXCEPT ![MonthOf[now]] = @ + proc[p].size]
    /\ Go(p, "rec_minute")
    /\ UNCHANGED <<now, rate, minutely, passed, enqueued, aborts>>

(* Variant: only the work that was done is charged, after the enqueue. *)
RecordMinuteLate(p) ==
    /\ proc[p].pc = "rec_minute"
    /\ Go(p, "enqueue")
    /\ UNCHANGED <<now, rate, monthly, minutely, passed, enqueued, aborts>>

RecordMinuteUsage(p) ==
    /\ proc[p].pc = "rec_minute"
    /\ minutely' = [minutely EXCEPT ![now] = @ + proc[p].size]
    /\ Go(p, "enqueue")
    /\ UNCHANGED <<now, rate, monthly, passed, enqueued, aborts>>

(* create_split_job; from here on the request only waits. *)
Enqueue(p) ==
    /\ proc[p].pc = "enqueue"
    /\ enqueued' = enqueued + proc[p].size
    /\ Leave(p)
    /\ UNCHANGED <<now, rate, monthly, minutely, passed, aborts>>

(* A store call raises, before or after it took effect, the enqueue fails
   (503), or the process dies: what was counted and charged stays.         *)
Abort(p) ==
    /\ proc[p].pc # "idle"
    /\ aborts < MaxAborts
    /\ aborts' = aborts + 1
    /\ Leave(p)
    /\ UNCHANGED <<now, rate, monthly, minutely, passed, enqueued>>

Tick ==
    /\ now < LastMinute
    /\ now' = now + 1
    /\ UNCHANGED <<rate, monthly, minutely, proc, passed, enqueued, aborts>>

(* 60 s after the EXPIRE, so in a later minute than the key's. *)
KeyExpires(m) ==
    /\ rate[m].ttl /\ m < now
    /\ rate' = [rate EXCEPT ![m] = [count |-> 0, ttl |-> FALSE]]
    /\ UNCHANGED <<now, monthly, minutely, proc, passed, enqueued, aborts>>

Init ==
    /\ now = 0
    /\ rate = [m \in Minutes |-> [count |-> 0, ttl |-> FALSE]]
    /\ monthly = [m \in Months |-> 0]
    /\ minutely = [m \in Minutes |-> 0]
    /\ proc = [p \in Procs |-> IdleProc]
    /\ passed = [m \in Minutes |-> 0]
    /\ enqueued = 0
    /\ aborts = 0

ProcStep(p) ==
    \/ Incr(p) \/ SetExpiry(p) \/ ReadMonth(p) \/ ReadMinute(p)
    \/ RecordUsage(p) \/ RecordMinuteUsage(p) \/ Enqueue(p)

Next ==
    \/ \E p \in Procs : Start(p) \/ ProcStep(p) \/ Abort(p)
    \/ Tick
    \/ \E m \in Minutes : KeyExpires(m)

(* A request that has started goes on, the clock ticks, and Valkey removes
   keys whose time is over.                                                *)
Fairness ==
    /\ \A p \in Procs : WF_vars(ProcStep(p))
    /\ WF_vars(Tick)
    /\ \A m \in Minutes : WF_vars(KeyExpires(m))

Spec == Init /\ [][Next]_vars
FairSpec == Spec /\ Fairness

-----------------------------------------------------------------------------
(* Properties.                                                             *)

(* Types of the variables. *)
TypeOK ==
    /\ now \in Minutes
    /\ rate \in [Minutes -> [count : Nat, ttl : BOOLEAN]]
    /\ monthly \in [Months -> Nat]
    /\ minutely \in [Minutes -> Nat]
    /\ proc \in [Procs -> [pc : PCs, size : 0..DomainCap, key : Minutes]]
    /\ passed \in [Minutes -> Nat]
    /\ enqueued \in Nat
    /\ aborts \in Nat

Ceiling(limit) == limit - 1 + Cardinality(Procs) * DomainCap

(* The check looks at the usage before the request and not at its size, and
   other processes may charge between the check and the charge, so a quota
   is overshot, but by no more than one full request of every process:
   also when the charge falls into a later minute than the check.          *)
MinuteOvershoot ==
    MinuteLimit > 0 => \A m \in Minutes : minutely[m] <= Ceiling(MinuteLimit)
MonthlyOvershoot ==
    MonthlyLimit > 0 => \A m \in Months : monthly[m] <= Ceiling(MonthlyLimit)

(* The INCR of each request is its own check: the limiter lets through
   minute_limit requests per key while the minute lasts, and at most one
   more per process afterwards, that of a request which took its key before
   the minute ended and counted after the key had expired.                 *)
RateOvershoot ==
    MinuteLimit > 0 =>
        \A m \in Minutes :
            passed[m] <= MinuteLimit + (IF m = now THEN 0 ELSE Cardinality(Procs))

(* The sum of a charge table: f[0] + ... + f[n]. *)
Sums(f, n) == LET sum[i \in 0..n] == IF i = 0 THEN f[0] ELSE sum[i - 1] + f[i] IN sum
SumTo(f, n) == Sums(f, n)[n]
Total(f) == SumTo(f, LastMinute)

(* No domain is checked without having been charged to a minute, and none is
   charged to a minute without having been charged to a month, whichever
   request failed in between.                                              *)
WorkIsCharged == enqueued <= Total(minutely) /\ Total(minutely) <= Total(monthly)

(* README.md, the Valkey table: the rate keys have a TTL of 60 s, so each
   goes away again, when no request ends between its INCR and its EXPIRE.  *)
RateKeysExpire ==
    [](aborts = 0) =>
        \A m \in Minutes : m < LastMinute => (rate[m].count > 0 ~> rate[m].count = 0)

-----------------------------------------------------------------------------
(* The inductive invariant of the proofs (QuotaGateProofs).                *)

(* Processes that have passed a check and have not charged yet. *)
OwesMonth == {p \in Procs : proc[p].pc \in {"minute", "rec_month"}}
OwesMinute == {p \in Procs : proc[p].pc \in {"rec_month", "rec_minute"}}

(* Below the limit anybody may pass; from the limit on only those who owe
   can still charge.                                                       *)
Covered(used, owing, limit) ==
    used < limit \/ used + DomainCap * Cardinality(owing) <= Ceiling(limit)

MonthInv ==
    MonthlyLimit > 0 =>
        /\ Covered(monthly[MonthOf[now]], OwesMonth, MonthlyLimit)
        /\ \A m \in Months : m > MonthOf[now] => monthly[m] = 0
        /\ MonthlyOvershoot
MinuteInv ==
    MinuteLimit > 0 =>
        /\ Covered(minutely[now], OwesMinute, MinuteLimit)
        /\ \A m \in Minutes : m > now => minutely[m] = 0
        /\ MinuteOvershoot

(* Requests of minute m that the rate limiter has not let through yet; those
   in Pending have been counted.                                           *)
Entering(m) == {p \in Procs : proc[p].pc \in {"incr", "expire"} /\ proc[p].key = m}
Pending(m) == {p \in Entering(m) : proc[p].pc = "expire"}

(* While a minute lasts its key counts who passed and who is about to; later
   the key may be gone, but nobody else takes it.                          *)
RateInvAt(m) ==
    /\ m > now => passed[m] = 0 /\ Entering(m) = {}
    /\ m = now => LET through == passed[m] + Cardinality(Pending(m))
                  IN  through <= rate[m].count /\ through <= MinuteLimit
    /\ m < now => passed[m] + Cardinality(Entering(m)) <= MinuteLimit + Cardinality(Procs)
RateInv == MinuteLimit > 0 => \A m \in Minutes : RateInvAt(m)

(* The processes in some order, and the domains of those that are at pc. *)
Order == CHOOSE f \in [1..Cardinality(Procs) -> Procs] :
             \A p \in Procs : \E i \in DOMAIN f : f[i] = p
At(pc) == [i \in 0..Cardinality(Procs) |->
             IF i > 0 /\ proc[Order[i]].pc = pc THEN proc[Order[i]].size ELSE 0]
InHand(pc) == SumTo(At(pc), Cardinality(Procs))

(* What a request has charged to a month is on its way to a minute, and from
   there to the pipeline.                                                  *)
WorkInv ==
    /\ enqueued + InHand("enqueue") <= Total(minutely)
    /\ Total(minutely) + InHand("rec_minute") <= Total(monthly)

QuotaInv == TypeOK /\ MonthInv /\ MinuteInv /\ RateInv /\ WorkInv
=============================================================================
