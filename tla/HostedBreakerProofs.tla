------------------------- MODULE HostedBreakerProofs -------------------------
(* Proofs about HostedBreaker: slots, breaker and drain, for any number of
   processes and calls, any concurrency, threshold and cooldown.           *)
EXTENDS HostedBreaker, FiniteSetTheorems, TLAPS

(* Handing a slot over, from a call that ends or from the free ones, changes
   the number of calls under way by what it changes the semaphore.         *)
LEMMA SwapCardinality ==
    ASSUME NEW S \in SUBSET Calls, NEW c \in Calls, NEW w \in Calls, w \notin S
    PROVE  /\ Cardinality(S) \in Nat
           /\ Cardinality(S \cup {w}) = Cardinality(S) + 1
           /\ c \in S => Cardinality(S \ {c}) = Cardinality(S) - 1
           /\ c \in S => Cardinality((S \ {c}) \cup {w}) = Cardinality(S)
<1>1. IsFiniteSet(S) /\ IsFiniteSet(S \ {c})
  BY BreakerAssumption, FS_Subset
<1>2. Cardinality(S) \in Nat /\ Cardinality(S \ {c}) \in Nat
  BY <1>1, FS_CardinalityType
<1>3. Cardinality(S \cup {w}) = Cardinality(S) + 1
  BY <1>1, FS_AddElement
<1>4. c \in S => Cardinality(S \ {c}) = Cardinality(S) - 1
  BY <1>1, FS_RemoveElement
<1>5. Cardinality((S \ {c}) \cup {w}) = Cardinality(S \ {c}) + 1
  BY <1>1, FS_AddElement
<1>6. QED
  BY <1>2, <1>3, <1>4, <1>5

LEMMA RemoveCardinality ==
    ASSUME NEW S \in SUBSET Calls, NEW c \in S
    PROVE  Cardinality(S) \in Nat /\ Cardinality(S \ {c}) = Cardinality(S) - 1
<1>1. IsFiniteSet(S)
  BY BreakerAssumption, FS_Subset
<1>2. QED
  BY <1>1, FS_CardinalityType, FS_RemoveElement

LEMMA SwapKeeps ==
    ASSUME NEW S \in SUBSET Calls, NEW c \in S, NEW w \in Calls, w \notin S
    PROVE  Cardinality((S \ {c}) \cup {w}) = Cardinality(S)
  BY SwapCardinality

-----------------------------------------------------------------------------
LEMMA InitInv == Init => BreakerInv
<1>1. Cardinality({}) = 0
  BY FS_EmptySet
<1>2. QED
  BY <1>1, BreakerAssumption
  DEF Init, BreakerInv, TypeOK, OnePlace, SlotsAccounted, BreakerMatchesCount

(* What every way out of a call does to the slots and the places. *)
LEMMA ReleaseKeeps ==
    ASSUME BreakerInv, NEW p \in Procs, NEW c \in calling[p], Release(p, c)
    PROVE  /\ waiting' \in [Procs -> SUBSET Calls]
           /\ calling' \in [Procs -> SUBSET Calls]
           /\ doomed' \in [Procs -> SUBSET Calls]
           /\ free' \in [Procs -> 0..Concurrency]
           /\ OnePlace' /\ SlotsAccounted'
<1>0. Concurrency \in Nat /\ Cardinality(calling[p]) \in Nat /\ Cardinality(calling[p]) > 0
  <2>1. calling[p] \in SUBSET Calls /\ IsFiniteSet(calling[p])
    BY BreakerAssumption, FS_Subset DEF BreakerInv, TypeOK
  <2>2. QED
    BY <2>1, BreakerAssumption, FS_CardinalityType, FS_EmptySet
<1>1. CASE /\ waiting[p] = {}
           /\ free' = [free EXCEPT ![p] = @ + 1]
           /\ calling' = [calling EXCEPT ![p] = @ \ {c}]
           /\ doomed' = [doomed EXCEPT ![p] = @ \ {c}]
           /\ UNCHANGED waiting
  <2>1. Cardinality(calling[p] \ {c}) = Cardinality(calling[p]) - 1
    BY RemoveCardinality DEF BreakerInv, TypeOK
  <2>2. free[p] + Cardinality(calling[p]) = Concurrency /\ free[p] \in Nat
    BY BreakerAssumption DEF BreakerInv, TypeOK, SlotsAccounted
  <2>3. free[p] + 1 \in 0..Concurrency
    BY <1>0, <2>2
  <2>4. SlotsAccounted'
    BY <1>0, <1>1, <2>1, <2>2 DEF BreakerInv, TypeOK, SlotsAccounted
  <2>5. QED
    BY <1>1, <2>3, <2>4 DEF BreakerInv, TypeOK, OnePlace
<1>2. ASSUME NEW w \in waiting[p],
             waiting' = [waiting EXCEPT ![p] = @ \ {w}],
             calling' = [calling EXCEPT ![p] = (@ \ {c}) \cup {w}],
             doomed' = [doomed EXCEPT ![p] = (@ \ {c}) \cup (IF up THEN {} ELSE {w})],
             UNCHANGED free
      PROVE  /\ waiting' \in [Procs -> SUBSET Calls]
             /\ calling' \in [Procs -> SUBSET Calls]
             /\ doomed' \in [Procs -> SUBSET Calls]
             /\ free' \in [Procs -> 0..Concurrency]
             /\ OnePlace' /\ SlotsAccounted'
  <2>1. w \in Calls /\ w \notin calling[p]
    BY DEF BreakerInv, TypeOK, OnePlace
  <2>2. Cardinality((calling[p] \ {c}) \cup {w}) = Cardinality(calling[p])
    BY <2>1, SwapKeeps DEF BreakerInv, TypeOK
  <2>3. SlotsAccounted'
    <3> SUFFICES ASSUME NEW q \in Procs
                 PROVE  /\ free'[q] + Cardinality(calling'[q]) = Concurrency
                        /\ waiting'[q] # {} => free'[q] = 0
      BY DEF SlotsAccounted
    <3>1. Cardinality(calling'[q]) = Cardinality(calling[q])
      BY <1>2, <2>2 DEF BreakerInv, TypeOK
    <3>2. waiting'[q] # {} => waiting[q] # {}
      BY <1>2 DEF BreakerInv, TypeOK
    <3>3. QED
      BY <1>2, <3>1, <3>2 DEF BreakerInv, SlotsAccounted
  <2>4. OnePlace'
    BY <1>2, <2>1 DEF BreakerInv, TypeOK, OnePlace
  <2>5. QED
    BY <1>2, <2>1, <2>3, <2>4 DEF BreakerInv, TypeOK
<1>3. QED
  BY <1>1, <1>2 DEF Release

(* The two globals of the breaker after a success and after a failure. *)
LEMMA OutcomeKeeps ==
    ASSUME BreakerInv, NEW p \in Procs, OnSuccess(p) \/ OnFailure(p)
    PROVE  /\ failures' \in [Procs -> 0..Threshold]
           /\ tripped' \in [Procs -> BOOLEAN]
           /\ cool' \in [Procs -> 0..Cooldown]
           /\ BreakerMatchesCount'
<1>0. /\ Threshold \in Nat \ {0} /\ Cooldown \in Nat \ {0}
      /\ failures \in [Procs -> 0..Threshold]
      /\ tripped \in [Procs -> BOOLEAN]
      /\ cool \in [Procs -> 0..Cooldown]
      /\ BreakerMatchesCount
  BY BreakerAssumption DEF BreakerInv, TypeOK
<1>1. CASE OnSuccess(p)
  <2>1. /\ failures' = [failures EXCEPT ![p] = 0]
        /\ tripped' = [tripped EXCEPT ![p] = FALSE]
        /\ cool' = [cool EXCEPT ![p] = 0]
    BY <1>1 DEF OnSuccess
  <2>2. BreakerMatchesCount'
    BY <1>0, <2>1 DEF BreakerMatchesCount
  <2>3. QED
    BY <1>0, <2>1, <2>2
<1>2. CASE OnFailure(p) /\ failures[p] + 1 >= Threshold
  <2>1. /\ failures' = [failures EXCEPT ![p] = Threshold]
        /\ tripped' = [tripped EXCEPT ![p] = TRUE]
        /\ cool' = [cool EXCEPT ![p] = Cooldown]
    BY <1>2 DEF OnFailure
  <2>2. BreakerMatchesCount'
    BY <1>0, <2>1 DEF BreakerMatchesCount
  <2>3. QED
    BY <1>0, <2>1, <2>2
<1>3. CASE OnFailure(p) /\ ~(failures[p] + 1 >= Threshold)
  <2>1. /\ failures' = [failures EXCEPT ![p] = @ + 1]
        /\ UNCHANGED <<tripped, cool>>
    BY <1>3 DEF OnFailure
  <2>2. failures[p] + 1 \in 0..Threshold /\ failures[p] + 1 # Threshold /\ failures[p] # Threshold
    BY <1>0, <1>3
  <2>3. BreakerMatchesCount'
    BY <1>0, <2>1, <2>2 DEF BreakerMatchesCount
  <2>4. QED
    BY <1>0, <2>1, <2>2, <2>3
<1>4. QED
  BY <1>1, <1>2, <1>3

LEMMA EndKeeps ==
    ASSUME BreakerInv, NEW p \in Procs, NEW c \in Calls, Succeed(p, c) \/ Fail(p, c)
    PROVE  BreakerInv'
<1>1. c \in calling[p] /\ Release(p, c) /\ (OnSuccess(p) \/ OnFailure(p)) /\ up' = up
  BY DEF Succeed, Fail
<1>2. QED
  BY <1>1, ReleaseKeeps, OutcomeKeeps DEF BreakerInv, TypeOK

LEMMA EnterKeeps ==
    ASSUME BreakerInv, NEW p \in Procs, NEW c \in Calls, Enter(p, c)
    PROVE  BreakerInv'
<1>0. /\ TypeOK /\ OnePlace /\ SlotsAccounted /\ BreakerMatchesCount
      /\ Concurrency \in Nat /\ c \notin waiting[p] /\ c \notin calling[p]
  BY BreakerAssumption DEF BreakerInv, Enter, InFlight
<1>1. BreakerMatchesCount'
  BY <1>0 DEF Enter, BreakerMatchesCount
<1>2. CASE free[p] > 0
  <2>1. /\ calling' = [calling EXCEPT ![p] = @ \cup {c}]
        /\ doomed' = [doomed EXCEPT ![p] = IF up THEN @ ELSE @ \cup {c}]
        /\ free' = [free EXCEPT ![p] = @ - 1]
        /\ UNCHANGED <<waiting, failures, tripped, cool, up>>
    BY <1>2 DEF Enter, Begin
  <2>2. /\ Cardinality(calling[p]) \in Nat
        /\ Cardinality(calling[p] \cup {c}) = Cardinality(calling[p]) + 1
    BY <1>0, SwapCardinality DEF TypeOK
  <2>3. free[p] \in 0..Concurrency /\ free[p] - 1 \in 0..Concurrency
    BY <1>0, <1>2 DEF TypeOK
  <2>4. SlotsAccounted'
    BY <1>0, <1>2, <2>1, <2>2, <2>3 DEF TypeOK, SlotsAccounted
  <2>5. OnePlace'
    BY <1>0, <2>1 DEF TypeOK, OnePlace
  <2>6. TypeOK'
    BY <1>0, <2>1, <2>3 DEF TypeOK
  <2>7. QED
    BY <1>1, <2>4, <2>5, <2>6 DEF BreakerInv
<1>3. CASE ~(free[p] > 0)
  <2>1. /\ waiting' = [waiting EXCEPT ![p] = @ \cup {c}]
        /\ UNCHANGED <<calling, free, doomed, failures, tripped, cool, up>>
    BY <1>3 DEF Enter
  <2>2. free[p] = 0
    BY <1>0, <1>3 DEF TypeOK
  <2>3. SlotsAccounted' /\ OnePlace' /\ TypeOK'
    BY <1>0, <2>1, <2>2 DEF TypeOK, SlotsAccounted, OnePlace
  <2>4. QED
    BY <1>1, <2>3 DEF BreakerInv
<1>4. QED
  BY <1>2, <1>3

(* Every step keeps the invariant. *)
LEMMA NextInv == BreakerInv /\ [Next]_vars => BreakerInv'
<1> SUFFICES ASSUME BreakerInv, [Next]_vars PROVE BreakerInv'
  OBVIOUS
<1> USE DEF BreakerInv, TypeOK, OnePlace, SlotsAccounted, BreakerMatchesCount
<1>1. ASSUME NEW p \in Procs, NEW c \in Calls, Enter(p, c) PROVE BreakerInv'
  BY <1>1, EnterKeeps
<1>2. ASSUME NEW p \in Procs, NEW c \in Calls, QueueTimeout(p, c) PROVE BreakerInv'
  BY <1>2 DEF QueueTimeout
<1>3. ASSUME NEW p \in Procs, NEW c \in Calls, Succeed(p, c) \/ Fail(p, c) PROVE BreakerInv'
  BY <1>3, EndKeeps
<1>4. ASSUME NEW p \in Procs, CoolTick(p) PROVE BreakerInv'
  <2>1. cool[p] - 1 \in 0..Cooldown
    BY <1>4, BreakerAssumption DEF CoolTick, Open
  <2>2. QED
    BY <1>4, <2>1 DEF CoolTick, Open
<1>5. CASE GoDown \/ GoUp
  BY <1>5 DEF GoDown, GoUp
<1>6. CASE UNCHANGED vars
  BY <1>6 DEF vars
<1>7. QED
  BY <1>1, <1>2, <1>3, <1>4, <1>5, <1>6 DEF Next

(* The inductive invariant: types, one place per call, slots and breaker. *)
THEOREM BreakerInvariant == Spec => []BreakerInv
<1>1. QED
  BY InitInv, NextInv, PTL DEF Spec

(* No path out of generate_bases loses a slot or gives one back twice, for
   any concurrency and any number of calls.                                *)
THEOREM SlotsAreAccounted == Spec => []SlotsAccounted
<1>1. BreakerInv => SlotsAccounted
  BY DEF BreakerInv
<1>2. QED
  BY <1>1, BreakerInvariant, PTL

(* The breaker is armed exactly while the failures have reached the
   threshold, for any threshold and cooldown.                              *)
THEOREM BreakerAgrees == Spec => []BreakerMatchesCount
<1>1. BreakerInv => BreakerMatchesCount
  BY DEF BreakerInv
<1>2. QED
  BY <1>1, BreakerInvariant, PTL

=============================================================================
