---------------------------- MODULE HostedBreaker ----------------------------
(***************************************************************************)
(* generate_bases (backend/hosted_llm.py): the calls to the hosted model   *)
(* behind a circuit breaker and a semaphore, both kept in the memory of    *)
(* each API process.  The coroutines of a process interleave at two awaits *)
(* only, the acquire and the call; what lies between them is one step.     *)
(***************************************************************************)
EXTENDS Integers, FiniteSets

CONSTANTS
    Procs,        \* API processes
    Calls,        \* coroutines of generate_bases in a process, run again when over
    Concurrency,  \* HOME_LLM_CONCURRENCY
    Threshold,    \* HOME_LLM_BREAKER_THRESHOLD
    Cooldown      \* HOME_LLM_BREAKER_COOLDOWN, in ticks

ASSUME BreakerAssumption ==
    /\ IsFiniteSet(Calls)
    /\ Concurrency \in Nat \ {0}
    /\ Threshold \in Nat \ {0}
    /\ Cooldown \in Nat \ {0}

VARIABLES
    waiting,   \* calls in sem.acquire(), by process
    calling,   \* calls in _call(), by process
    free,      \* the semaphore's value
    failures,  \* _breaker_consecutive_failures, up to the threshold
    tripped,   \* _breaker_open_until # 0
    cool,      \* the ticks left until _breaker_open_until
    up,        \* whether the model answers, and with an array
    doomed     \* calls that were under way when it did not, by process

vars == <<waiting, calling, free, failures, tripped, cool, up, doomed>>

InFlight(p) == waiting[p] \cup calling[p]

(* _breaker_is_open *)
Open(p) == tripped[p] /\ cool[p] > 0

-----------------------------------------------------------------------------
(* asyncio.Semaphore: a released slot goes to a waiter if there is one.  The
   waiters queue in order of arrival; here any of them may be next, since
   the order shows in nothing but who times out.  Either way the call that
   begins may fail if the model is down.                                   *)
Begin(p, c) ==
    /\ calling' = [calling EXCEPT ![p] = @ \cup {c}]
    /\ doomed' = [doomed EXCEPT ![p] = IF up THEN @ ELSE @ \cup {c}]

Release(p, c) ==
    \/ /\ waiting[p] = {}
       /\ free' = [free EXCEPT ![p] = @ + 1]
       /\ calling' = [calling EXCEPT ![p] = @ \ {c}]
       /\ doomed' = [doomed EXCEPT ![p] = @ \ {c}]
       /\ UNCHANGED waiting
    \/ \E w \in waiting[p] :
          /\ waiting' = [waiting EXCEPT ![p] = @ \ {w}]
          /\ calling' = [calling EXCEPT ![p] = (@ \ {c}) \cup {w}]
          /\ doomed' = [doomed EXCEPT ![p] = (@ \ {c}) \cup (IF up THEN {} ELSE {w})]
          /\ UNCHANGED free

(* generate_bases up to its first await.  A call that finds the breaker open
   raises HostedUnavailableError and changes nothing.                      *)
Enter(p, c) ==
    /\ c \notin InFlight(p) /\ ~Open(p)
    /\ IF free[p] > 0
       THEN Begin(p, c) /\ free' = [free EXCEPT ![p] = @ - 1] /\ UNCHANGED waiting
       ELSE /\ waiting' = [waiting EXCEPT ![p] = @ \cup {c}]
            /\ UNCHANGED <<calling, free, doomed>>
    /\ UNCHANGED <<failures, tripped, cool, up>>

(* HostedQueueFullError: the call leaves without a slot and counts neither as
   a success nor as a failure.                                             *)
QueueTimeout(p, c) ==
    /\ c \in waiting[p]
    /\ waiting' = [waiting EXCEPT ![p] = @ \ {c}]
    /\ UNCHANGED <<calling, free, failures, tripped, cool, up, doomed>>

(* Variant: the count starts again, the breaker is left as it is. *)
OnSuccessKeepsOpen(p) ==
    /\ failures' = [failures EXCEPT ![p] = 0]
    /\ UNCHANGED <<tripped, cool>>

OnSuccess(p) ==
    /\ failures' = [failures EXCEPT ![p] = 0]
    /\ tripped' = [tripped EXCEPT ![p] = FALSE]
    /\ cool' = [cool EXCEPT ![p] = 0]

(* At the threshold and beyond it each failure starts the cooldown anew. *)
OnFailure(p) ==
    IF failures[p] + 1 >= Threshold
    THEN /\ failures' = [failures EXCEPT ![p] = Threshold]
         /\ tripped' = [tripped EXCEPT ![p] = TRUE]
         /\ cool' = [cool EXCEPT ![p] = Cooldown]
    ELSE /\ failures' = [failures EXCEPT ![p] = @ + 1]
         /\ UNCHANGED <<tripped, cool>>

Succeed(p, c) ==
    /\ c \in calling[p] /\ up
    /\ OnSuccess(p) /\ Release(p, c)
    /\ UNCHANGED up

(* Variant: the slot is given back on success only. *)
FailKeepsSlot(p, c) ==
    /\ c \in calling[p] /\ (~up \/ c \in doomed[p])
    /\ OnFailure(p)
    /\ calling' = [calling EXCEPT ![p] = @ \ {c}]
    /\ doomed' = [doomed EXCEPT ![p] = @ \ {c}]
    /\ UNCHANGED <<waiting, free, up>>

(* A request that timed out, an HTTP error or an answer that is no array;
   also after the model has come back, for a call that had met it down.    *)
Fail(p, c) ==
    /\ c \in calling[p] /\ (~up \/ c \in doomed[p])
    /\ OnFailure(p) /\ Release(p, c)
    /\ UNCHANGED up

CoolTick(p) ==
    /\ Open(p)
    /\ cool' = [cool EXCEPT ![p] = @ - 1]
    /\ UNCHANGED <<waiting, calling, free, failures, tripped, up, doomed>>

(* External: the home machine and the tunnel to it. *)
GoDown ==
    /\ up
    /\ up' = FALSE
    /\ doomed' = calling
    /\ UNCHANGED <<waiting, calling, free, failures, tripped, cool>>

GoUp ==
    /\ ~up
    /\ up' = TRUE
    /\ UNCHANGED <<waiting, calling, free, failures, tripped, cool, doomed>>

Init ==
    /\ waiting = [p \in Procs |-> {}]
    /\ calling = [p \in Procs |-> {}]
    /\ free = [p \in Procs |-> Concurrency]
    /\ failures = [p \in Procs |-> 0]
    /\ tripped = [p \in Procs |-> FALSE]
    /\ cool = [p \in Procs |-> 0]
    /\ up = TRUE
    /\ doomed = [p \in Procs |-> {}]

Next ==
    \/ \E p \in Procs, c \in Calls :
          Enter(p, c) \/ QueueTimeout(p, c) \/ Succeed(p, c) \/ Fail(p, c)
    \/ \E p \in Procs : CoolTick(p)
    \/ GoDown \/ GoUp

Spec == Init /\ [][Next]_vars

(* HOME_LLM_QUEUE_TIMEOUT and the client's timeout end every call, time
   passes, and visitors keep asking for names.  Nothing makes the model come
   back.                                                                   *)
Fairness ==
    \A p \in Procs :
        /\ WF_vars(CoolTick(p))
        /\ WF_vars(\E c \in Calls : Enter(p, c))
        /\ \A c \in Calls :
              WF_vars(QueueTimeout(p, c)) /\ WF_vars(Succeed(p, c) \/ Fail(p, c))

FairSpec == Spec /\ Fairness

-----------------------------------------------------------------------------
(* Properties.                                                             *)

(* Types of the variables. *)
TypeOK ==
    /\ waiting \in [Procs -> SUBSET Calls]
    /\ calling \in [Procs -> SUBSET Calls]
    /\ free \in [Procs -> 0..Concurrency]
    /\ failures \in [Procs -> 0..Threshold]
    /\ tripped \in [Procs -> BOOLEAN]
    /\ cool \in [Procs -> 0..Cooldown]
    /\ up \in BOOLEAN
    /\ doomed \in [Procs -> SUBSET Calls]

(* No path out of generate_bases, success, failure or queue timeout, loses a
   slot or gives one back twice, and no slot idles while a call waits.     *)
SlotsAccounted ==
    \A p \in Procs :
        /\ free[p] + Cardinality(calling[p]) = Concurrency
        /\ waiting[p] # {} => free[p] = 0

(* The two globals of the breaker never disagree: it is armed exactly while
   the failures since the last success have reached the threshold, whichever
   late outcomes come in, and so a failed probe arms it again at once.     *)
BreakerMatchesCount ==
    \A p \in Procs :
        /\ tripped[p] <=> failures[p] = Threshold
        /\ cool[p] > 0 => tripped[p]

(* Once the model answers for good, every breaker closes for good: the
   failures of the calls it interrupted do not re-arm it for ever.         *)
Recovers == <>[]up => <>[](\A p \in Procs : ~tripped[p])

-----------------------------------------------------------------------------
(* The inductive invariant of the proofs (HostedBreakerProofs): a call is in
   one place at a time.                                                    *)
OnePlace == \A p \in Procs : waiting[p] \cap calling[p] = {}

BreakerInv == TypeOK /\ OnePlace /\ SlotsAccounted /\ BreakerMatchesCount
=============================================================================
