--------------------------- MODULE QuotaGateProofs ---------------------------
(***************************************************************************)
(* The overshoot bounds of QuotaGate, for any number of API processes, any *)
(* plan and any number of failed requests.                                 *)
(***************************************************************************)
EXTENDS QuotaGate, FiniteSetTheorems, FunctionTheorems, WellFoundedInduction, TLAPS

(* Usage counted against those who still owe. *)
LEMMA Products ==
    ASSUME NEW c \in Nat, NEW a \in Nat, NEW b \in Nat
    PROVE  /\ c * a \in Nat
           /\ a <= b => c * a <= c * b
           /\ a + 1 <= b => c * a + c <= c * b
<1>1. c * a \in Nat /\ c * (a + 1) = c * a + c
  OBVIOUS
<1>2. ASSUME NEW x \in Nat, NEW y \in Nat, x <= y PROVE c * x <= c * y
  <2>1. PICK d \in Nat : y = x + d
    <3>1. y - x \in Nat /\ y = x + (y - x)
      BY <1>2
    <3> QED BY <3>1
  <2>2. c * y = c * x + c * d /\ c * d \in Nat
    BY <2>1
  <2> QED BY <2>2
<1>3. a + 1 \in Nat
  OBVIOUS
<1> QED BY <1>1, <1>2, <1>3

LEMMA Owing ==
    ASSUME NEW O \in SUBSET Procs
    PROVE  IsFiniteSet(O) /\ Cardinality(O) \in Nat /\ Cardinality(O) <= Cardinality(Procs)
           /\ Cardinality(Procs) \in Nat
  BY QuotaAssumption, FS_Subset, FS_CardinalityType

LEMMA CoveredBound ==
    ASSUME NEW used \in Nat, NEW O \in SUBSET Procs, NEW limit \in Nat, Covered(used, O, limit)
    PROVE  used <= Ceiling(limit)
<1>1. DomainCap * Cardinality(O) \in Nat /\ DomainCap * Cardinality(Procs) \in Nat
      /\ Cardinality(Procs) * DomainCap = DomainCap * Cardinality(Procs)
  BY Owing, Products, QuotaAssumption
<1> QED BY <1>1 DEF Covered, Ceiling

LEMMA CoveredShrink ==
    ASSUME NEW used \in Nat, NEW O \in SUBSET Procs, NEW Q \in SUBSET O, NEW limit \in Nat,
           Covered(used, O, limit)
    PROVE  Covered(used, Q, limit)
<1>1. Cardinality(Q) <= Cardinality(O)
  BY Owing, FS_Subset
<1>2. Cardinality(Q) \in Nat /\ Cardinality(O) \in Nat /\ Cardinality(Procs) \in Nat
  BY Owing
<1>3. /\ DomainCap * Cardinality(Q) <= DomainCap * Cardinality(O)
      /\ DomainCap * Cardinality(Q) \in Nat /\ DomainCap * Cardinality(O) \in Nat
      /\ Cardinality(Procs) * DomainCap \in Nat
  BY <1>1, <1>2, Products, QuotaAssumption
<1> QED BY <1>3, QuotaAssumption DEF Covered, Ceiling

(* A process that owes may charge one request. *)
LEMMA CoveredCharge ==
    ASSUME NEW used \in Nat, NEW O \in SUBSET Procs, NEW p \in O, NEW n \in 0..DomainCap,
           NEW limit \in Nat, Covered(used, O, limit)
    PROVE  Covered(used + n, O \ {p}, limit)
<1> DEFINE c == Cardinality(O \ {p})
           d == Cardinality(O)
           e == Cardinality(Procs)
<1>1. d = c + 1 /\ c \in Nat /\ d \in Nat /\ e \in Nat /\ d <= e
  <2>1. IsFiniteSet(O) /\ p \in O
    BY Owing
  <2>2. c = d - 1 /\ O \ {p} \in SUBSET Procs
    BY <2>1, FS_RemoveElement
  <2> QED BY <2>2, Owing
<1> HIDE DEF c, d, e
<1>2. /\ DomainCap * c + DomainCap <= DomainCap * d
      /\ DomainCap * c + DomainCap <= DomainCap * e
      /\ DomainCap * c \in Nat /\ DomainCap * d \in Nat /\ DomainCap * e \in Nat
      /\ e * DomainCap = DomainCap * e /\ DomainCap \in Nat
  <2>1. DomainCap \in Nat
    BY QuotaAssumption
  <2>2. c + 1 <= d /\ c + 1 <= e
    BY <1>1
  <2> QED BY <1>1, <2>1, <2>2, Products
<1>3. Ceiling(limit) = limit - 1 + DomainCap * e
  BY <1>1, <1>2 DEF Ceiling, e
<1>4. Covered(used, O, limit) <=> used < limit \/ used + DomainCap * d <= Ceiling(limit)
  BY DEF Covered, d
<1>5. Covered(used + n, O \ {p}, limit) <=>
          used + n < limit \/ used + n + DomainCap * c <= Ceiling(limit)
  BY DEF Covered, c
<1> QED BY <1>2, <1>3, <1>4, <1>5

-----------------------------------------------------------------------------
LEMMA InitTyped == Init => TypeOK
  BY QuotaAssumption DEF Init, TypeOK, IdleProc, PCs, Minutes, Months

LEMMA NextTyped == TypeOK /\ [Next]_vars => TypeOK'
<1> SUFFICES ASSUME TypeOK, [Next]_vars PROVE TypeOK'
  OBVIOUS
<1> USE QuotaAssumption DEF TypeOK
<1>a. IdleProc \in [pc : PCs, size : 0..DomainCap, key : Minutes]
  BY DEF IdleProc, PCs, Minutes
<1>b. ASSUME NEW p \in Procs, Leave(p)
      PROVE  proc' \in [Procs -> [pc : PCs, size : 0..DomainCap, key : Minutes]]
  BY <1>a, <1>b DEF Leave
<1>c. ASSUME NEW p \in Procs, NEW pc \in PCs, Go(p, pc)
      PROVE  proc' \in [Procs -> [pc : PCs, size : 0..DomainCap, key : Minutes]]
  BY <1>c DEF Go
<1>d. ASSUME NEW p \in Procs, NEW n, Decide(p, n)
      PROVE  /\ proc' \in [Procs -> [pc : PCs, size : 0..DomainCap, key : Minutes]]
             /\ passed' \in [Minutes -> Nat]
  BY <1>b, <1>c, <1>d DEF Decide, PCs
<1>1. CASE UNCHANGED vars
  BY <1>1 DEF vars
<1>2. ASSUME NEW p \in Procs, Start(p) PROVE TypeOK'
  <2>1. PICK n \in 1..DomainCap :
          proc' = [proc EXCEPT ![p] = [pc |-> IF MinuteLimit > 0 THEN "incr" ELSE "month",
                                       size |-> n, key |-> now]]
    BY <1>2 DEF Start
  <2> QED BY <1>2, <2>1 DEF Start, PCs
<1>3. ASSUME NEW p \in Procs, Incr(p) PROVE TypeOK'
  <2>1. /\ proc' \in [Procs -> [pc : PCs, size : 0..DomainCap, key : Minutes]]
        /\ passed' \in [Minutes -> Nat]
    BY <1>3, <1>c, <1>d DEF Incr, PCs
  <2>2. rate' \in [Minutes -> [count : Nat, ttl : BOOLEAN]]
    <3>1. proc[p].key \in Minutes /\ rate[proc[p].key].count \in Nat
      OBVIOUS
    <3>2. PICK n \in Nat : n = rate[proc[p].key].count + 1
      BY <3>1
    <3>3. rate' = [rate EXCEPT ![proc[p].key].count = n]
      BY <1>3, <3>2 DEF Incr
    <3>4. [rate[proc[p].key] EXCEPT !.count = n] \in [count : Nat, ttl : BOOLEAN]
      BY <3>1
    <3> QED BY <3>1, <3>3, <3>4
  <2> QED BY <1>3, <2>1, <2>2 DEF Incr
<1>4. ASSUME NEW p \in Procs, SetExpiry(p) PROVE TypeOK'
  <2>1. rate' \in [Minutes -> [count : Nat, ttl : BOOLEAN]]
    <3>1. proc[p].key \in Minutes
      OBVIOUS
    <3>2. CASE rate[proc[p].key].count > 0
      <4>1. rate' = [rate EXCEPT ![proc[p].key].ttl = TRUE]
        BY <1>4, <3>2 DEF SetExpiry
      <4> QED BY <3>1, <4>1
    <3>3. CASE ~(rate[proc[p].key].count > 0)
      BY <1>4, <3>3 DEF SetExpiry
    <3> QED BY <3>2, <3>3
  <2> QED BY <1>4, <1>d, <2>1 DEF SetExpiry
<1>5. ASSUME NEW p \in Procs, ReadMonth(p) \/ ReadMinute(p) PROVE TypeOK'
  BY <1>5, <1>b, <1>c DEF ReadMonth, ReadMinute, PCs
<1>6. ASSUME NEW p \in Procs, RecordUsage(p) PROVE TypeOK'
  <2>1. monthly' \in [Months -> Nat]
    BY <1>6 DEF RecordUsage
  <2> QED BY <1>6, <1>c, <2>1 DEF RecordUsage, PCs
<1>7. ASSUME NEW p \in Procs, RecordMinuteUsage(p) PROVE TypeOK'
  <2>1. minutely' \in [Minutes -> Nat]
    BY <1>7 DEF RecordMinuteUsage
  <2> QED BY <1>7, <1>c, <2>1 DEF RecordMinuteUsage, PCs
<1>8. ASSUME NEW p \in Procs, Enqueue(p) \/ Abort(p) PROVE TypeOK'
  BY <1>8, <1>b DEF Enqueue, Abort
<1>9. CASE Tick
  <2>1. now' \in Minutes
    BY <1>9 DEF Tick, Minutes
  <2> QED BY <1>9, <2>1 DEF Tick
<1>10. ASSUME NEW m \in Minutes, KeyExpires(m) PROVE TypeOK'
  BY <1>10 DEF KeyExpires
<1> QED BY <1>1, <1>2, <1>3, <1>4, <1>5, <1>6, <1>7, <1>8, <1>9, <1>10 DEF Next, ProcStep

-----------------------------------------------------------------------------
(* What a step does to the charges: it leaves the usage and lets nobody owe
   who did not before, or lets a process owe while the usage is below the
   limit, or charges for one that owes.                                    *)

MonthStep ==
    \/ monthly' = monthly /\ OwesMonth' \subseteq OwesMonth
    \/ monthly' = monthly /\ (MonthlyLimit > 0 => monthly[MonthOf[now]] < MonthlyLimit)
    \/ \E p \in OwesMonth, n \in 0..DomainCap :
          /\ monthly' = [monthly EXCEPT ![MonthOf[now]] = @ + n]
          /\ OwesMonth' = OwesMonth \ {p}
MinuteStep ==
    \/ minutely' = minutely /\ OwesMinute' \subseteq OwesMinute
    \/ minutely' = minutely /\ (MinuteLimit > 0 => minutely[now] < MinuteLimit)
    \/ \E p \in OwesMinute, n \in 0..DomainCap :
          /\ minutely' = [minutely EXCEPT ![now] = @ + n]
          /\ OwesMinute' = OwesMinute \ {p}

(* How the processes that owe change when p moves to c. *)
LEMMA Moves ==
    ASSUME TypeOK, NEW p \in Procs, NEW c, proc' = [proc EXCEPT ![p] = c]
    PROVE  /\ c.pc \notin {"minute", "rec_month"} => OwesMonth' = OwesMonth \ {p}
           /\ proc[p].pc = "minute" /\ c.pc = "rec_month" => OwesMonth' = OwesMonth
           /\ c.pc \notin {"rec_month", "rec_minute"} => OwesMinute' = OwesMinute \ {p}
           /\ proc[p].pc = "rec_month" /\ c.pc = "rec_minute" => OwesMinute' = OwesMinute
  BY DEF TypeOK, OwesMonth, OwesMinute

LEMMA GoMoves ==
    ASSUME TypeOK, NEW p \in Procs, NEW pc, Go(p, pc)
    PROVE  \E c : proc' = [proc EXCEPT ![p] = c] /\ c.pc = pc
<1> DEFINE c == [proc[p] EXCEPT !.pc = pc]
<1>1. proc' = [proc EXCEPT ![p] = c] /\ c.pc = pc
  BY DEF Go, TypeOK
<1> QED BY <1>1

LEMMA ProcSteps ==
    ASSUME TypeOK, NEW p \in Procs, Start(p) \/ ProcStep(p) \/ Abort(p)
    PROVE  now' = now /\ MonthStep /\ MinuteStep
<1>a. ASSUME Leave(p) PROVE OwesMonth' = OwesMonth \ {p} /\ OwesMinute' = OwesMinute \ {p}
  <2>1. IdleProc.pc = "idle"
    BY DEF IdleProc
  <2> QED BY <1>a, <2>1, Moves DEF Leave
<1>b. ASSUME NEW pc, Go(p, pc)
      PROVE  /\ pc \notin {"minute", "rec_month"} => OwesMonth' = OwesMonth \ {p}
             /\ proc[p].pc = "minute" /\ pc = "rec_month" => OwesMonth' = OwesMonth
             /\ pc \notin {"rec_month", "rec_minute"} => OwesMinute' = OwesMinute \ {p}
             /\ proc[p].pc = "rec_month" /\ pc = "rec_minute" => OwesMinute' = OwesMinute
  BY <1>b, GoMoves, Moves
<1>c. ASSUME NEW n, Decide(p, n)
      PROVE  OwesMonth' = OwesMonth \ {p} /\ OwesMinute' = OwesMinute \ {p}
  BY <1>a, <1>b, <1>c DEF Decide
<1>d. proc[p].size \in 0..DomainCap
  BY DEF TypeOK
<1>1. CASE Start(p)
  <2>1. PICK n \in 1..DomainCap :
          proc' = [proc EXCEPT ![p] = [pc |-> IF MinuteLimit > 0 THEN "incr" ELSE "month",
                                       size |-> n, key |-> now]]
    BY <1>1 DEF Start
  <2> DEFINE c == [pc |-> IF MinuteLimit > 0 THEN "incr" ELSE "month", size |-> n, key |-> now]
  <2>3. c.pc \in {"incr", "month"} /\ proc' = [proc EXCEPT ![p] = c]
    BY <2>1
  <2> HIDE DEF c
  <2>2. OwesMonth' = OwesMonth \ {p} /\ OwesMinute' = OwesMinute \ {p}
    BY <2>3, Moves
  <2> QED BY <1>1, <2>2 DEF Start, MonthStep, MinuteStep
<1>2. CASE Incr(p) \/ SetExpiry(p) \/ Enqueue(p) \/ Abort(p)
  <2>1. OwesMonth' = OwesMonth \ {p} /\ OwesMinute' = OwesMinute \ {p}
    BY <1>2, <1>a, <1>b, <1>c DEF Incr, SetExpiry, Enqueue, Abort
  <2>2. UNCHANGED <<now, monthly, minutely>>
    BY <1>2 DEF Incr, SetExpiry, Enqueue, Abort
  <2> QED BY <2>1, <2>2 DEF MonthStep, MinuteStep
<1>3. CASE ReadMonth(p)
  <2>1. UNCHANGED <<now, monthly, minutely>>
    BY <1>3 DEF ReadMonth
  <2>2. \/ OwesMonth' \subseteq OwesMonth
        \/ MonthlyLimit > 0 => monthly[MonthOf[now]] < MonthlyLimit
    BY <1>3, <1>a DEF ReadMonth, Within
  <2>3. OwesMinute' \subseteq OwesMinute
    BY <1>3, <1>a, <1>b DEF ReadMonth
  <2> QED BY <2>1, <2>2, <2>3 DEF MonthStep, MinuteStep
<1>4. CASE ReadMinute(p)
  <2>1. UNCHANGED <<now, monthly, minutely>>
    BY <1>4 DEF ReadMinute
  <2>2. \/ OwesMinute' \subseteq OwesMinute
        \/ MinuteLimit > 0 => minutely[now] < MinuteLimit
    BY <1>4, <1>a DEF ReadMinute, Within
  <2>3. OwesMonth' \subseteq OwesMonth
    BY <1>4, <1>a, <1>b DEF ReadMinute
  <2> QED BY <2>1, <2>2, <2>3 DEF MonthStep, MinuteStep
<1>5. CASE RecordUsage(p)
  <2>1. /\ UNCHANGED <<now, minutely>>
        /\ monthly' = [monthly EXCEPT ![MonthOf[now]] = @ + proc[p].size]
        /\ p \in OwesMonth
    BY <1>5 DEF RecordUsage, OwesMonth
  <2>2. OwesMonth' = OwesMonth \ {p} /\ OwesMinute' = OwesMinute
    BY <1>5, <1>b DEF RecordUsage
  <2> QED BY <1>d, <2>1, <2>2 DEF MonthStep, MinuteStep
<1>6. CASE RecordMinuteUsage(p)
  <2>1. /\ UNCHANGED <<now, monthly>>
        /\ minutely' = [minutely EXCEPT ![now] = @ + proc[p].size]
        /\ p \in OwesMinute
    BY <1>6 DEF RecordMinuteUsage, OwesMinute
  <2>2. OwesMonth' = OwesMonth \ {p} /\ OwesMinute' = OwesMinute \ {p}
    BY <1>6, <1>b DEF RecordMinuteUsage
  <2> QED BY <1>d, <2>1, <2>2 DEF MonthStep, MinuteStep
<1> QED BY <1>1, <1>2, <1>3, <1>4, <1>5, <1>6 DEF ProcStep

LEMMA MonthStepInv ==
    ASSUME TypeOK, MonthInv, now' = now, MonthStep
    PROVE  MonthInv'
<1> SUFFICES ASSUME MonthlyLimit > 0 PROVE MonthInv'
  BY DEF MonthInv
<1> DEFINE t == MonthOf[now]
<1>1. t \in Months /\ monthly \in [Months -> Nat] /\ MonthlyLimit \in Nat
      /\ OwesMonth \in SUBSET Procs /\ OwesMonth' \in SUBSET Procs
  BY QuotaAssumption DEF TypeOK, OwesMonth
<1>2. Covered(monthly[t], OwesMonth, MonthlyLimit)
      /\ \A m \in Months : (m > t => monthly[m] = 0) /\ monthly[m] <= Ceiling(MonthlyLimit)
  BY DEF MonthInv, MonthlyOvershoot
<1>3. /\ Covered(monthly'[t], OwesMonth', MonthlyLimit)
      /\ monthly'[t] \in Nat
      /\ \A m \in Months : m # t => monthly'[m] = monthly[m]
  <2>1. CASE monthly' = monthly /\ OwesMonth' \subseteq OwesMonth
    BY <1>1, <1>2, <2>1, CoveredShrink
  <2>2. CASE monthly' = monthly /\ monthly[t] < MonthlyLimit
    BY <1>1, <2>2 DEF Covered
  <2>3. ASSUME NEW p \in OwesMonth, NEW n \in 0..DomainCap,
               monthly' = [monthly EXCEPT ![t] = @ + n], OwesMonth' = OwesMonth \ {p}
        PROVE  /\ Covered(monthly'[t], OwesMonth', MonthlyLimit)
               /\ monthly'[t] \in Nat
               /\ \A m \in Months : m # t => monthly'[m] = monthly[m]
    BY <1>1, <1>2, <2>3, CoveredCharge, QuotaAssumption
  <2> QED BY <2>1, <2>2, <2>3 DEF MonthStep
<1>4. monthly'[t] <= Ceiling(MonthlyLimit)
  BY <1>1, <1>3, CoveredBound
<1>5. \A m \in Months : m > t => m # t
  BY <1>1 DEF Months
<1> QED BY <1>1, <1>2, <1>3, <1>4, <1>5 DEF MonthInv, MonthlyOvershoot, Ceiling, Covered

LEMMA MinuteStepInv ==
    ASSUME TypeOK, MinuteInv, now' = now, MinuteStep
    PROVE  MinuteInv'
<1> SUFFICES ASSUME MinuteLimit > 0 PROVE MinuteInv'
  BY DEF MinuteInv
<1>1. now \in Minutes /\ minutely \in [Minutes -> Nat] /\ MinuteLimit \in Nat
      /\ OwesMinute \in SUBSET Procs /\ OwesMinute' \in SUBSET Procs
  BY QuotaAssumption DEF TypeOK, OwesMinute
<1>2. Covered(minutely[now], OwesMinute, MinuteLimit)
      /\ \A m \in Minutes : (m > now => minutely[m] = 0) /\ minutely[m] <= Ceiling(MinuteLimit)
  BY DEF MinuteInv, MinuteOvershoot
<1>3. /\ Covered(minutely'[now], OwesMinute', MinuteLimit)
      /\ minutely'[now] \in Nat
      /\ \A m \in Minutes : m # now => minutely'[m] = minutely[m]
  <2>1. CASE minutely' = minutely /\ OwesMinute' \subseteq OwesMinute
    BY <1>1, <1>2, <2>1, CoveredShrink
  <2>2. CASE minutely' = minutely /\ minutely[now] < MinuteLimit
    BY <1>1, <2>2 DEF Covered
  <2>3. ASSUME NEW p \in OwesMinute, NEW n \in 0..DomainCap,
               minutely' = [minutely EXCEPT ![now] = @ + n], OwesMinute' = OwesMinute \ {p}
        PROVE  /\ Covered(minutely'[now], OwesMinute', MinuteLimit)
               /\ minutely'[now] \in Nat
               /\ \A m \in Minutes : m # now => minutely'[m] = minutely[m]
    BY <1>1, <1>2, <2>3, CoveredCharge, QuotaAssumption
  <2> QED BY <2>1, <2>2, <2>3 DEF MinuteStep
<1>4. minutely'[now] <= Ceiling(MinuteLimit)
  BY <1>1, <1>3, CoveredBound
<1>5. \A m \in Minutes : m > now => m # now
  BY <1>1 DEF Minutes
<1> QED BY <1>1, <1>2, <1>3, <1>4, <1>5 DEF MinuteInv, MinuteOvershoot, Ceiling, Covered

LEMMA TickInv ==
    ASSUME TypeOK, MonthInv, MinuteInv, Tick
    PROVE  MonthInv' /\ MinuteInv'
<1>1. now' = now + 1 /\ now \in Minutes /\ now' \in Minutes
      /\ UNCHANGED <<monthly, minutely, OwesMonth, OwesMinute>>
  <2>1. UNCHANGED <<monthly, minutely, proc>> /\ now' = now + 1 /\ now \in Minutes
    BY DEF Tick, TypeOK
  <2>2. now' \in Minutes
    BY QuotaAssumption DEF Tick, TypeOK, Minutes
  <2> QED BY <2>1, <2>2 DEF OwesMonth, OwesMinute
<1>2. MonthOf[now] <= MonthOf[now'] /\ MonthOf[now] \in Months /\ MonthOf[now'] \in Months
  BY <1>1, QuotaAssumption
<1>3. MonthInv'
  <2> SUFFICES ASSUME MonthlyLimit > 0 PROVE MonthInv'
    BY DEF MonthInv
  <2>1. Covered(monthly[MonthOf[now']], OwesMonth, MonthlyLimit)
    <3>1. CASE MonthOf[now'] = MonthOf[now]
      BY <3>1 DEF MonthInv
    <3>2. CASE MonthOf[now'] # MonthOf[now]
      <4>1. MonthOf[now'] > MonthOf[now]
        BY <1>2, <3>2 DEF Months
      <4>2. monthly[MonthOf[now']] = 0
        BY <1>2, <4>1 DEF MonthInv
      <4> QED BY <4>2 DEF Covered
    <3> QED BY <3>1, <3>2
  <2>2. \A m \in Months : m > MonthOf[now'] => m > MonthOf[now]
    BY <1>2 DEF Months
  <2> QED BY <1>1, <2>1, <2>2 DEF MonthInv, MonthlyOvershoot, Covered, Ceiling
<1>4. MinuteInv'
  <2> SUFFICES ASSUME MinuteLimit > 0 PROVE MinuteInv'
    BY DEF MinuteInv
  <2>1. minutely[now'] = 0 /\ \A m \in Minutes : m > now' => m > now
    BY <1>1 DEF MinuteInv, Minutes
  <2> QED BY <1>1, <2>1 DEF MinuteInv, MinuteOvershoot, Covered, Ceiling
<1> QED BY <1>3, <1>4

-----------------------------------------------------------------------------
(* Sums of charge tables.  The induction is on the least place where two
   tables differ, or from which there is none.                             *)

(* Every non-empty set of natural numbers has a least element. *)
LEMMA Least ==
    ASSUME NEW S \in SUBSET Nat, S # {}
    PROVE  \E m \in S : \A k \in S : m <= k
<1> DEFINE T == {0..k : k \in S}
<1>1. PICK X \in T : \A Y \in T : <<Y, X>> \notin StrictSubsetOrdering(Nat)
  <2>1. T \subseteq FiniteSubsetsOf(Nat)
    <3>1. ASSUME NEW k \in S PROVE IsFiniteSet(0..k) /\ 0..k \in SUBSET Nat
      BY FS_Interval
    <3> QED BY <3>1 DEF FiniteSubsetsOf
  <2>2. IsWellFoundedOn(StrictSubsetOrdering(Nat), FiniteSubsetsOf(Nat))
    BY FS_StrictSubsetOrderingWellFounded
  <2>3. T # {}
    OBVIOUS
  <2> HIDE DEF T
  <2> QED BY <2>1, <2>2, <2>3, WFMin
<1>2. PICK m \in S : X = 0..m
  OBVIOUS
<1>3. ASSUME NEW k \in S PROVE m <= k
  <2> SUFFICES ASSUME k < m PROVE FALSE
    OBVIOUS
  <2>1. 0..k \subseteq 0..m /\ 0..k # 0..m
    OBVIOUS
  <2>2. <<0..k, X>> \in StrictSubsetOrdering(Nat)
    BY <1>2, <2>1 DEF StrictSubsetOrdering
  <2> QED BY <1>1, <2>2
<1> QED BY <1>3

(* s is a table of the sums of f. *)
IsSums(f, n, s) == s = [i \in 0..n |-> IF i = 0 THEN f[0] ELSE s[i - 1] + f[i]]

LEMMA SumsUnique ==
    ASSUME NEW n \in Nat, NEW f, NEW s, NEW t, IsSums(f, n, s), IsSums(f, n, t)
    PROVE  s = t
<1>1. s = [i \in 0..n |-> s[i]] /\ t = [i \in 0..n |-> t[i]]
  BY DEF IsSums
<1>2. ASSUME NEW k \in 0..n
      PROVE  /\ s[k] = IF k = 0 THEN f[0] ELSE s[k - 1] + f[k]
             /\ t[k] = IF k = 0 THEN f[0] ELSE t[k - 1] + f[k]
  BY DEF IsSums
<1> DEFINE Bad == {i \in 0..n : s[i] # t[i]}
<1>3. Bad = {}
  <2> SUFFICES ASSUME Bad # {} PROVE FALSE
    OBVIOUS
  <2>1. PICK m \in Bad : \A k \in Bad : m <= k
    <3>1. Bad \in SUBSET Nat
      OBVIOUS
    <3> HIDE DEF Bad
    <3> QED BY <3>1, Least
  <2>2. m # 0
    BY <1>2
  <2>3. m - 1 \in 0..n /\ m - 1 \notin Bad
    BY <2>1, <2>2
  <2> QED BY <1>2, <2>2, <2>3
<1> QED BY <1>1, <1>3

LEMMA SumsExist ==
    ASSUME NEW n \in Nat, NEW f \in [0..n -> Nat]
    PROVE  \E s \in [0..n -> Nat] : IsSums(f, n, s)
<1> DEFINE Good(i) == \E s \in [0..i -> Nat] : IsSums(f, i, s)
           Bad == {i \in 0..n : ~Good(i)}
<1>1. Bad = {}
  <2> SUFFICES ASSUME Bad # {} PROVE FALSE
    OBVIOUS
  <2>1. PICK m \in Bad : \A k \in Bad : m <= k
    <3>1. Bad \in SUBSET Nat
      OBVIOUS
    <3> HIDE DEF Bad
    <3> QED BY <3>1, Least
  <2>2. CASE m = 0
    <3> DEFINE s == [i \in 0..0 |-> f[0]]
    <3>1. s \in [0..m -> Nat] /\ IsSums(f, m, s)
      BY <2>2 DEF IsSums
    <3> HIDE DEF s
    <3> QED BY <3>1
  <2>3. CASE m # 0
    <3>1. m \in 0..n /\ m - 1 \in 0..n /\ ~(m <= m - 1)
      BY <2>3
    <3>0. m - 1 \notin Bad
      BY <2>1, <3>1
    <3>2. PICK s \in [0..(m - 1) -> Nat] : IsSums(f, m - 1, s)
      BY <3>0, <3>1
    <3> DEFINE t == [i \in 0..m |-> IF i = m THEN s[m - 1] + f[m] ELSE s[i]]
    <3>3. t \in [0..m -> Nat]
      BY <2>3, <3>1
    <3>4. \A i \in 0..(m - 1) : s[i] = IF i = 0 THEN f[0] ELSE s[i - 1] + f[i]
      BY <3>2 DEF IsSums
    <3>5. ASSUME NEW i \in 0..m PROVE t[i] = IF i = 0 THEN f[0] ELSE t[i - 1] + f[i]
      <4>1. CASE i = m
        BY <2>3, <3>1, <4>1
      <4>2. CASE i # m
        <5>1. i \in 0..(m - 1) /\ (i # 0 => i - 1 \in 0..m /\ i - 1 # m)
          BY <3>1, <4>2
        <5> QED BY <3>4, <4>2, <5>1
      <4> QED BY <4>1, <4>2
    <3>6. IsSums(f, m, t)
      BY <3>5 DEF IsSums
    <3> HIDE DEF t
    <3> QED BY <3>3, <3>6
  <2> QED BY <2>2, <2>3
<1>2. n \in 0..n
  OBVIOUS
<1>3. n \notin Bad
  BY <1>1
<1>4. Good(n)
  BY <1>2, <1>3
<1> QED BY <1>4

(* The recursion of Sums defines the table. *)
LEMMA SumsTable ==
    ASSUME NEW n \in Nat, NEW f \in [0..n -> Nat]
    PROVE  IsSums(f, n, Sums(f, n)) /\ Sums(f, n) \in [0..n -> Nat]
<1>1. PICK s \in [0..n -> Nat] : IsSums(f, n, s)
  BY SumsExist
<1>2. IsSums(f, n, Sums(f, n))
  <2>1. Sums(f, n) = CHOOSE t : IsSums(f, n, t)
    BY DEF Sums, IsSums
  <2> QED BY <1>1, <2>1
<1> QED BY <1>1, <1>2, SumsUnique

LEMMA SumType ==
    ASSUME NEW n \in Nat, NEW f \in [0..n -> Nat]
    PROVE  SumTo(f, n) \in Nat
  BY SumsTable DEF SumTo

(* A table that changes in one place changes its sum by as much. *)
LEMMA SumChange ==
    ASSUME NEW n \in Nat, NEW f \in [0..n -> Nat], NEW g \in [0..n -> Nat], NEW k \in 0..n,
           \A i \in 0..n : i # k => g[i] = f[i]
    PROVE  SumTo(g, n) + f[k] = SumTo(f, n) + g[k]
<1> DEFINE s == Sums(f, n)
           t == [i \in 0..n |-> IF i < k THEN s[i] ELSE s[i] + (g[k] - f[k])]
<1>1. IsSums(f, n, s) /\ s \in [0..n -> Nat] /\ IsSums(g, n, Sums(g, n))
  BY SumsTable
<1> HIDE DEF s
<1>2. \A i \in 0..n : s[i] = IF i = 0 THEN f[0] ELSE s[i - 1] + f[i]
  BY <1>1 DEF IsSums
<1>3. ASSUME NEW i \in 0..n PROVE t[i] = IF i = 0 THEN g[0] ELSE t[i - 1] + g[i]
  <2>1. f[i] \in Nat /\ g[i] \in Nat /\ f[k] \in Nat /\ g[k] \in Nat /\ s[i] \in Nat
    BY <1>1
  <2>2. CASE i = 0
    BY <1>2, <2>1, <2>2
  <2>3. CASE i # 0
    <3>1. i - 1 \in 0..n /\ s[i - 1] \in Nat /\ s[i] = s[i - 1] + f[i]
      BY <1>1, <1>2, <2>3
    <3>2. CASE i < k
      BY <2>3, <3>1, <3>2
    <3>3. CASE i = k
      BY <2>1, <2>3, <3>1, <3>3
    <3>4. CASE i > k
      <4>1. ~(i < k) /\ ~(i - 1 < k) /\ g[i] = f[i]
        BY <3>4
      <4>2. t[i] = s[i] + (g[k] - f[k]) /\ t[i - 1] = s[i - 1] + (g[k] - f[k])
        BY <3>1, <4>1
      <4> QED BY <2>1, <2>3, <3>1, <4>1, <4>2
    <3> QED BY <3>2, <3>3, <3>4
  <2> QED BY <2>2, <2>3
<1>4. IsSums(g, n, t)
  BY <1>3 DEF IsSums
<1>5. t = Sums(g, n)
  BY <1>1, <1>4, SumsUnique
<1>6. t[n] = s[n] + (g[k] - f[k])
  OBVIOUS
<1>7. SumTo(g, n) = t[n] /\ SumTo(f, n) = s[n]
  BY <1>5 DEF SumTo, s
<1> QED BY <1>1, <1>6, <1>7

LEMMA SumZero ==
    ASSUME NEW n \in Nat
    PROVE  SumTo([i \in 0..n |-> 0], n) = 0
<1> DEFINE f == [i \in 0..n |-> 0]
<1>1. IsSums(f, n, f)
  BY DEF IsSums
<1>2. f \in [0..n -> Nat]
  OBVIOUS
<1>3. IsSums(f, n, Sums(f, n))
  BY <1>2, SumsTable
<1> QED BY <1>1, <1>3, SumsUnique DEF SumTo
-----------------------------------------------------------------------------
(* What a step does to the requests of minute m. *)

(* Nobody enters, passes or is counted. *)
Quiet(m) ==
    /\ passed'[m] = passed[m] /\ rate'[m].count >= rate[m].count
    /\ Entering(m)' \subseteq Entering(m) /\ Pending(m)' \subseteq Pending(m)
Enters(m) ==
    /\ m = now /\ passed'[m] = passed[m] /\ rate'[m].count >= rate[m].count
    /\ Pending(m)' \subseteq Pending(m)
MakesKey(m) ==
    /\ passed'[m] = passed[m] /\ rate[m].count = 0 /\ rate'[m].count = 1
    /\ Entering(m)' \subseteq Entering(m)
    /\ \E p \in Procs : Pending(m)' \subseteq Pending(m) \cup {p}
Passes(m) ==
    /\ passed'[m] = passed[m] + 1
    /\ \E p \in Entering(m) :
          /\ Entering(m)' \subseteq Entering(m) \ {p}
          /\ \/ /\ p \in Pending(m) /\ Pending(m)' \subseteq Pending(m) \ {p}
                /\ rate'[m].count >= rate[m].count
             \/ /\ Pending(m)' \subseteq Pending(m)
                /\ rate'[m].count = rate[m].count + 1 /\ rate'[m].count <= MinuteLimit
RateStep(m) == Quiet(m) \/ Enters(m) \/ MakesKey(m) \/ Passes(m)

LEMMA Smaller ==
    ASSUME NEW A \in SUBSET Procs, NEW B \in SUBSET A
    PROVE  /\ Cardinality(A) \in Nat /\ Cardinality(B) \in Nat
           /\ Cardinality(B) <= Cardinality(A)
           /\ \A p \in A : B \subseteq A \ {p} => Cardinality(B) + 1 <= Cardinality(A)
<1>1. IsFiniteSet(A) /\ IsFiniteSet(B) /\ Cardinality(A) \in Nat /\ Cardinality(B) \in Nat
      /\ Cardinality(B) <= Cardinality(A)
  BY Owing, FS_Subset
<1>2. ASSUME NEW p \in A, B \subseteq A \ {p} PROVE Cardinality(B) + 1 <= Cardinality(A)
  <2>1. IsFiniteSet(A \ {p}) /\ Cardinality(A \ {p}) = Cardinality(A) - 1
    BY <1>1, FS_RemoveElement
  <2>2. Cardinality(B) <= Cardinality(A \ {p})
    BY <1>2, <2>1, FS_Subset
  <2> QED BY <1>1, <2>1, <2>2
<1> QED BY <1>1, <1>2

LEMMA RateStepInv ==
    ASSUME TypeOK, now' = now, MinuteLimit > 0, NEW m \in Minutes, RateInvAt(m), RateStep(m),
           rate'[m].count \in Nat
    PROVE  RateInvAt(m)'
<1> DEFINE e == Cardinality(Entering(m))
           f == Cardinality(Entering(m)')
           g == Cardinality(Pending(m))
           h == Cardinality(Pending(m)')
<1>1. /\ Entering(m) \in SUBSET Procs /\ Pending(m) \in SUBSET Procs
      /\ Entering(m)' \in SUBSET Procs /\ Pending(m)' \in SUBSET Procs
  BY DEF Entering, Pending
<1>2. e \in Nat /\ f \in Nat /\ g \in Nat /\ h \in Nat /\ f <= Cardinality(Procs)
      /\ Cardinality(Procs) \in Nat
  BY <1>1, Owing
<1>3. /\ Entering(m)' \subseteq Entering(m) => f <= e
      /\ Pending(m)' \subseteq Pending(m) => h <= g
  BY <1>1, Smaller
<1>4. /\ passed[m] \in Nat /\ passed'[m] \in Nat /\ rate[m].count \in Nat /\ MinuteLimit \in Nat
      /\ now \in Nat /\ m \in Nat
  <2>1. passed[m] \in Nat /\ rate[m].count \in Nat
    BY DEF TypeOK
  <2>2. passed'[m] \in {passed[m], passed[m] + 1}
    BY DEF RateStep, Quiet, Enters, MakesKey, Passes
  <2> QED BY <2>1, <2>2, QuotaAssumption DEF TypeOK, Minutes
<1>5. RateInvAt(m)' <=>
        /\ m > now => passed'[m] = 0 /\ Entering(m)' = {}
        /\ m = now => passed'[m] + h <= rate'[m].count /\ passed'[m] + h <= MinuteLimit
        /\ m < now => passed'[m] + f <= MinuteLimit + Cardinality(Procs)
  BY DEF RateInvAt
<1>6. /\ m > now => passed[m] = 0 /\ Entering(m) = {}
      /\ m = now => passed[m] + g <= rate[m].count /\ passed[m] + g <= MinuteLimit
      /\ m < now => passed[m] + e <= MinuteLimit + Cardinality(Procs)
  BY DEF RateInvAt
<1>7. CASE Quiet(m)
  <2>1. /\ passed'[m] = passed[m] /\ rate'[m].count >= rate[m].count /\ f <= e /\ h <= g
        /\ Entering(m)' \subseteq Entering(m)
    BY <1>3, <1>7 DEF Quiet
  <2> HIDE DEF e, f, g, h
  <2> QED BY <1>2, <1>4, <1>5, <1>6, <2>1
<1>8. CASE Enters(m)
  <2>1. m = now /\ passed'[m] = passed[m] /\ rate'[m].count >= rate[m].count /\ h <= g
    BY <1>3, <1>8 DEF Enters
  <2> HIDE DEF e, f, g, h
  <2> QED BY <1>2, <1>4, <1>5, <1>6, <2>1
<1>9. CASE MakesKey(m)
  <2>1. /\ passed'[m] = passed[m] /\ rate[m].count = 0 /\ rate'[m].count = 1 /\ f <= e
        /\ Entering(m)' \subseteq Entering(m)
    BY <1>3, <1>9 DEF MakesKey
  <2>2. PICK p \in Procs : Pending(m)' \subseteq Pending(m) \cup {p}
    BY <1>9 DEF MakesKey
  <2>3. h <= g + 1
    <3>1. IsFiniteSet(Pending(m)) /\ IsFiniteSet(Pending(m) \cup {p})
          /\ Cardinality(Pending(m) \cup {p}) \in {g, g + 1}
      BY <1>1, Owing, FS_AddElement
    <3>2. h <= Cardinality(Pending(m) \cup {p})
      BY <2>2, <3>1, FS_Subset
    <3> QED BY <1>2, <3>1, <3>2
  <2> HIDE DEF e, f, g, h
  <2> QED BY <1>2, <1>4, <1>5, <1>6, <2>1, <2>3
<1>10. CASE Passes(m)
  <2>1. PICK p \in Entering(m) :
          /\ Entering(m)' \subseteq Entering(m) \ {p}
          /\ \/ /\ p \in Pending(m) /\ Pending(m)' \subseteq Pending(m) \ {p}
                /\ rate'[m].count >= rate[m].count
             \/ /\ Pending(m)' \subseteq Pending(m)
                /\ rate'[m].count = rate[m].count + 1 /\ rate'[m].count <= MinuteLimit
    BY <1>10 DEF Passes
  <2>2. f + 1 <= e
    BY <1>1, <2>1, Smaller
  <2>3. \/ h + 1 <= g /\ rate'[m].count >= rate[m].count
        \/ h <= g /\ rate'[m].count = rate[m].count + 1 /\ rate'[m].count <= MinuteLimit
    BY <1>1, <2>1, Smaller
  <2>4. passed'[m] = passed[m] + 1 /\ Entering(m) # {}
    BY <1>10, <2>1 DEF Passes
  <2> HIDE DEF e, f, g, h
  <2> QED BY <1>2, <1>4, <1>5, <1>6, <2>2, <2>3, <2>4
<1> QED BY <1>7, <1>8, <1>9, <1>10 DEF RateStep

(* How the requests of minute m change when process p moves to c. *)
LEMMA MinuteMoves ==
    ASSUME TypeOK, NEW p \in Procs, NEW c, proc' = [proc EXCEPT ![p] = c], NEW m \in Minutes
    PROVE  /\ c.pc \notin {"incr", "expire"} =>
                /\ Entering(m)' = Entering(m) \ {p} /\ Pending(m)' = Pending(m) \ {p}
           /\ proc[p].pc = "incr" /\ c.pc = "expire" /\ c.key = proc[p].key =>
                /\ Entering(m)' = Entering(m) /\ Pending(m)' \subseteq Pending(m) \cup {p}
                /\ proc[p].key # m => Pending(m)' = Pending(m)
           /\ c.pc = "incr" => Pending(m)' \subseteq Pending(m)
           /\ c.pc = "incr" /\ c.key # m => Entering(m)' \subseteq Entering(m)
<1>1. \A q \in Procs : proc'[q] = IF q = p THEN c ELSE proc[q]
  BY DEF TypeOK
<1> QED BY <1>1 DEF Entering, Pending

LEMMA RateSteps ==
    ASSUME TypeOK, MinuteLimit > 0, NEW p \in Procs, Start(p) \/ ProcStep(p) \/ Abort(p),
           NEW m \in Minutes
    PROVE  RateStep(m)
<1> DEFINE k == proc[p].key
<1>0. /\ k \in Minutes /\ rate[k].count \in Nat /\ rate[m].count \in Nat /\ MinuteLimit \in Nat
      /\ passed \in [Minutes -> Nat] /\ rate \in [Minutes -> [count : Nat, ttl : BOOLEAN]]
  BY QuotaAssumption DEF TypeOK
<1>a. ASSUME NEW pc, Go(p, pc)
      PROVE  \E c : proc' = [proc EXCEPT ![p] = c] /\ c.pc = pc /\ c.key = k
  <2> DEFINE c == [proc[p] EXCEPT !.pc = pc]
  <2>1. proc' = [proc EXCEPT ![p] = c] /\ c.pc = pc /\ c.key = k
    BY <1>a DEF Go, TypeOK
  <2> HIDE DEF c
  <2> QED BY <2>1
<1>b. ASSUME Leave(p) \/ \E pc \in PCs \ {"incr", "expire"} : Go(p, pc)
      PROVE  Entering(m)' = Entering(m) \ {p} /\ Pending(m)' = Pending(m) \ {p}
  <2>1. CASE Leave(p)
    <3>1. IdleProc.pc = "idle"
      BY DEF IdleProc
    <3> QED BY <2>1, <3>1, MinuteMoves DEF Leave
  <2>2. ASSUME NEW pc \in PCs \ {"incr", "expire"}, Go(p, pc)
        PROVE  Entering(m)' = Entering(m) \ {p} /\ Pending(m)' = Pending(m) \ {p}
    BY <1>a, <2>2, MinuteMoves
  <2> QED BY <1>b, <2>1, <2>2
<1>c. ASSUME Leave(p) \/ \E pc \in PCs \ {"incr", "expire"} : Go(p, pc),
             UNCHANGED <<rate, passed>>
      PROVE  Quiet(m)
  BY <1>0, <1>b, <1>c DEF Quiet
<1>1. CASE Start(p)
  <2>1. PICK n \in 1..DomainCap :
          proc' = [proc EXCEPT ![p] = [pc |-> "incr", size |-> n, key |-> now]]
    BY <1>1 DEF Start
  <2>2. PICK c : /\ proc' = [proc EXCEPT ![p] = c]
                 /\ c.pc = "incr" /\ c.key = now
    <3> DEFINE c == [pc |-> "incr", size |-> n, key |-> now]
    <3>1. proc' = [proc EXCEPT ![p] = c] /\ c.pc = "incr" /\ c.key = now
      BY <2>1
    <3> HIDE DEF c
    <3> QED BY <3>1
  <2>3. /\ Pending(m)' \subseteq Pending(m)
        /\ m # now => Entering(m)' \subseteq Entering(m)
    BY <2>2, MinuteMoves
  <2> QED BY <1>0, <1>1, <2>3 DEF Start, RateStep, Quiet, Enters
<1>2. CASE Incr(p)
  <2> DEFINE n == rate[k].count + 1
  <2>1. /\ proc[p].pc = "incr" /\ n \in Nat
        /\ rate'[k].count = n /\ (m # k => rate'[m] = rate[m])
    BY <1>0, <1>2 DEF Incr
  <2>2. CASE FirstOfMinute(n)
    <3>1. Go(p, "expire") /\ UNCHANGED passed /\ rate[k].count = 0 /\ n = 1
      BY <1>0, <1>2, <2>2 DEF Incr, FirstOfMinute
    <3>2. /\ Entering(m)' = Entering(m) /\ Pending(m)' \subseteq Pending(m) \cup {p}
          /\ k # m => Pending(m)' = Pending(m)
      BY <1>a, <2>1, <3>1, MinuteMoves
    <3>3. CASE m = k
      BY <2>1, <3>1, <3>2, <3>3 DEF RateStep, MakesKey
    <3>4. CASE m # k
      BY <1>0, <2>1, <3>1, <3>2, <3>4 DEF RateStep, Quiet
    <3> QED BY <3>3, <3>4
  <2>3. CASE ~FirstOfMinute(n)
    <3>1. Decide(p, n)
      BY <1>2, <2>3 DEF Incr
    <3>2. Entering(m)' = Entering(m) \ {p} /\ Pending(m)' = Pending(m) \ {p}
      BY <1>b, <3>1 DEF Decide, PCs
    <3>3. rate'[m].count >= rate[m].count
      BY <1>0, <2>1
    <3>4. CASE n > MinuteLimit
      <4>1. UNCHANGED passed
        BY <3>1, <3>4 DEF Decide
      <4> QED BY <3>2, <3>3, <4>1 DEF RateStep, Quiet
    <3>5. CASE ~(n > MinuteLimit)
      <4>1. passed' = [passed EXCEPT ![k] = @ + 1]
        BY <3>1, <3>5 DEF Decide
      <4>2. CASE m = k
        <5>1. p \in Entering(m) /\ passed'[m] = passed[m] + 1
          BY <1>0, <2>1, <4>1, <4>2 DEF Entering
        <5>2. rate'[m].count = rate[m].count + 1 /\ rate'[m].count <= MinuteLimit
          BY <1>0, <2>1, <3>5, <4>2
        <5> QED BY <3>2, <5>1, <5>2 DEF RateStep, Passes
      <4>3. CASE m # k
        <5>1. passed'[m] = passed[m]
          BY <1>0, <4>1, <4>3
        <5> QED BY <3>2, <3>3, <5>1 DEF RateStep, Quiet
      <4> QED BY <4>2, <4>3
    <3> QED BY <3>4, <3>5
  <2> QED BY <2>2, <2>3
<1>3. CASE SetExpiry(p)
  <2>1. proc[p].pc = "expire" /\ Go(p, "month") /\ passed' = [passed EXCEPT ![k] = @ + 1]
    BY <1>0, <1>3 DEF SetExpiry, Decide
  <2>2. rate'[m].count = rate[m].count
    <3>1. rate' = rate \/ rate' = [rate EXCEPT ![k].ttl = TRUE]
      BY <1>3 DEF SetExpiry
    <3> QED BY <1>0, <3>1
  <2>3. Entering(m)' = Entering(m) \ {p} /\ Pending(m)' = Pending(m) \ {p}
    BY <1>b, <2>1 DEF PCs
  <2>4. CASE m = k
    <3>1. p \in Pending(m) /\ p \in Entering(m) /\ passed'[m] = passed[m] + 1
      BY <1>0, <2>1, <2>4 DEF Entering, Pending
    <3> QED BY <1>0, <2>2, <2>3, <3>1 DEF RateStep, Passes
  <2>5. CASE m # k
    <3>1. passed'[m] = passed[m]
      BY <1>0, <2>1, <2>5
    <3> QED BY <1>0, <2>2, <2>3, <3>1 DEF RateStep, Quiet
  <2> QED BY <2>4, <2>5
<1>4. CASE ReadMonth(p) \/ ReadMinute(p) \/ RecordUsage(p) \/ RecordMinuteUsage(p)
  BY <1>4, <1>c DEF ReadMonth, ReadMinute, RecordUsage, RecordMinuteUsage, PCs, RateStep
<1>5. CASE Enqueue(p) \/ Abort(p)
  BY <1>5, <1>c DEF Enqueue, Abort, RateStep
<1> QED BY <1>1, <1>2, <1>3, <1>4, <1>5 DEF ProcStep

LEMMA RateTick ==
    ASSUME TypeOK, MinuteLimit > 0, Tick, NEW m \in Minutes, RateInvAt(m)
    PROVE  RateInvAt(m)'
<1>1. /\ now' = now + 1 /\ now \in Nat /\ m \in Nat /\ passed[m] \in Nat /\ MinuteLimit \in Nat
      /\ UNCHANGED <<rate, passed, proc>>
  BY QuotaAssumption DEF Tick, TypeOK, Minutes
<1>2. Entering(m)' = Entering(m) /\ Pending(m)' = Pending(m) /\ Pending(m) \subseteq Entering(m)
  BY <1>1 DEF Entering, Pending
<1>3. /\ Cardinality(Entering(m)) <= Cardinality(Procs) /\ Cardinality(Entering(m)) \in Nat
      /\ Cardinality(Procs) \in Nat /\ Cardinality(Pending(m)) \in Nat
  <2>1. Entering(m) \in SUBSET Procs /\ Pending(m) \in SUBSET Procs
    BY DEF Entering, Pending
  <2> QED BY <2>1, Owing
<1>4. CASE m > now'
  BY <1>1, <1>2, <1>4 DEF RateInvAt
<1>5. CASE m = now'
  <2>1. passed[m] = 0 /\ Pending(m) = {}
    BY <1>1, <1>2, <1>5 DEF RateInvAt
  <2>2. Cardinality(Pending(m)) = 0 /\ rate[m].count \in Nat
    BY <2>1, FS_EmptySet DEF TypeOK
  <2> QED BY <1>1, <1>2, <1>5, <2>1, <2>2 DEF RateInvAt
<1>6. CASE m = now
  <2>1. passed[m] + Cardinality(Pending(m)) <= MinuteLimit
    BY <1>6 DEF RateInvAt
  <2>2. passed[m] + Cardinality(Entering(m)) <= MinuteLimit + Cardinality(Procs)
    BY <1>1, <1>3, <2>1
  <2> QED BY <1>1, <1>2, <1>6, <2>2 DEF RateInvAt
<1>7. CASE m < now
  BY <1>1, <1>2, <1>7 DEF RateInvAt
<1> QED BY <1>1, <1>4, <1>5, <1>6, <1>7

LEMMA RateKeep ==
    ASSUME NEW m \in Minutes, RateInvAt(m), UNCHANGED <<now, passed, proc>>,
           m >= now => rate'[m].count = rate[m].count, TypeOK
    PROVE  RateInvAt(m)'
<1>1. Entering(m)' = Entering(m) /\ Pending(m)' = Pending(m)
  BY DEF Entering, Pending
<1>2. m \in Nat /\ now \in Nat
  BY QuotaAssumption DEF TypeOK, Minutes
<1> QED BY <1>1, <1>2 DEF RateInvAt

LEMMA RateNext ==
    ASSUME TypeOK, TypeOK', RateInv, [Next]_vars
    PROVE  RateInv'
<1> SUFFICES ASSUME MinuteLimit > 0, NEW m \in Minutes PROVE RateInvAt(m)'
  BY DEF RateInv
<1>0. RateInvAt(m) /\ rate'[m].count \in Nat
  BY DEF RateInv, TypeOK
<1>1. ASSUME NEW p \in Procs, Start(p) \/ ProcStep(p) \/ Abort(p) PROVE RateInvAt(m)'
  <2>1. now' = now
    BY <1>1, ProcSteps
  <2> QED BY <1>0, <1>1, <2>1, RateSteps, RateStepInv
<1>2. CASE Tick
  BY <1>0, <1>2, RateTick
<1>3. ASSUME NEW k \in Minutes, KeyExpires(k) PROVE RateInvAt(m)'
  <2>1. UNCHANGED <<now, passed, proc>>
    BY <1>3 DEF KeyExpires
  <2>2. m >= now => rate'[m].count = rate[m].count
    BY <1>3, QuotaAssumption DEF KeyExpires, TypeOK, Minutes
  <2> QED BY <1>0, <2>1, <2>2, RateKeep
<1>4. CASE UNCHANGED vars
  BY <1>0, <1>4, RateKeep DEF vars
<1> QED BY <1>1, <1>2, <1>3, <1>4 DEF Next

LEMMA InitRate == Init => RateInv
<1> SUFFICES ASSUME Init, MinuteLimit > 0, NEW m \in Minutes PROVE RateInvAt(m)
  BY DEF RateInv
<1>1. Entering(m) = {} /\ Pending(m) = {}
  BY DEF Init, Entering, Pending, IdleProc
<1>2. passed[m] = 0 /\ rate[m].count = 0 /\ Cardinality(Procs) \in Nat /\ MinuteLimit \in Nat
  BY Owing, QuotaAssumption DEF Init
<1> QED BY <1>1, <1>2, FS_EmptySet DEF RateInvAt

-----------------------------------------------------------------------------
(* Domains on their way from one charge to the next. *)

LEMMA OrderType ==
    /\ Order \in [1..Cardinality(Procs) -> Procs]
    /\ \A p \in Procs : \E i \in 1..Cardinality(Procs) : Order[i] = p
    /\ \A i, j \in 1..Cardinality(Procs) : Order[i] = Order[j] => i = j
<1> DEFINE N == Cardinality(Procs)
<1>1. N \in Nat /\ ExistsBijection(1..N, Procs)
  BY QuotaAssumption, FS_CardinalityType
<1>2. PICK b \in Bijection(1..N, Procs) : TRUE
  BY <1>1 DEF ExistsBijection
<1>3. b \in [1..N -> Procs] /\ \A p \in Procs : \E i \in 1..N : b[i] = p
  <2>1. b \in Surjection(1..N, Procs)
    BY <1>2 DEF Bijection
  <2> QED BY <2>1 DEF Surjection
<1>4. Order \in [1..N -> Procs] /\ \A p \in Procs : \E i \in 1..N : Order[i] = p
  BY <1>3 DEF Order
<1>5. Order \in Surjection(1..N, Procs)
  BY <1>4, Fun_IsSurj
<1>6. IsFiniteSet(1..N) /\ Cardinality(1..N) = N
  BY <1>1, FS_Interval
<1>7. Order \in Injection(1..N, Procs)
  BY <1>5, <1>6, FS_Surjection
<1>8. \A i, j \in 1..N : Order[i] = Order[j] => i = j
  BY <1>7, Fun_InjectionProperties
<1> QED BY <1>4, <1>8

(* What a process that is like q contributes. *)
Holding(q, pc) == IF q.pc = pc THEN q.size ELSE 0

LEMMA AtType ==
    ASSUME TypeOK, NEW pc
    PROVE  /\ At(pc) \in [0..Cardinality(Procs) -> Nat]
           /\ At(pc)[0] = 0
           /\ \A i \in 1..Cardinality(Procs) : At(pc)[i] = Holding(proc[Order[i]], pc)
<1>1. Cardinality(Procs) \in Nat
  BY Owing
<1>2. ASSUME NEW i \in 1..Cardinality(Procs) PROVE proc[Order[i]].size \in Nat
  <2>1. Order[i] \in Procs
    BY OrderType
  <2>2. \A p \in Procs : proc[p].size \in 0..DomainCap
    BY DEF TypeOK
  <2> QED BY <2>1, <2>2, QuotaAssumption
<1> QED BY <1>1, <1>2 DEF At, Holding

LEMMA InHandType ==
    ASSUME TypeOK, NEW pc
    PROVE  InHand(pc) \in Nat
<1>1. Cardinality(Procs) \in Nat /\ At(pc) \in [0..Cardinality(Procs) -> Nat]
  BY AtType, Owing
<1> QED BY <1>1, SumType DEF InHand

InHandNat == InHand("enqueue") \in Nat /\ InHand("rec_minute") \in Nat

LEMMA InHandTyped == (TypeOK => InHandNat) /\ (TypeOK' => InHandNat')
<1>1. TypeOK => InHandNat
  BY InHandType DEF InHandNat
<1> QED BY <1>1, PTL

LEMMA HandChange ==
    ASSUME TypeOK, TypeOK', NEW p \in Procs, NEW c, proc' = [proc EXCEPT ![p] = c], NEW pc
    PROVE  InHand(pc)' + Holding(proc[p], pc) = InHand(pc) + Holding(c, pc)
<1> DEFINE n == Cardinality(Procs)
<1>1. n \in Nat
  BY Owing
<1>2. PICK f : f = At(pc)
  OBVIOUS
<1>3. PICK g : g = At(pc)'
  OBVIOUS
<1>4. /\ f \in [0..n -> Nat] /\ f[0] = 0
      /\ \A i \in 1..n : f[i] = Holding(proc[Order[i]], pc)
  BY <1>2, AtType
<1>5. /\ g \in [0..n -> Nat] /\ g[0] = 0
      /\ \A i \in 1..n : g[i] = Holding(proc'[Order[i]], pc)
  <2>1. At(pc)' \in [0..n -> Nat]
    <3>1. ASSUME NEW i \in 1..n PROVE proc'[Order[i]].size \in Nat
      <4>1. Order[i] \in Procs
        BY OrderType
      <4>2. \A q \in Procs : proc'[q].size \in 0..DomainCap
        BY DEF TypeOK
      <4> QED BY <4>1, <4>2, QuotaAssumption
    <3> QED BY <1>1, <3>1 DEF At
  <2> QED BY <1>1, <1>3, <2>1 DEF At, Holding
<1>6. PICK k \in 1..n : Order[k] = p
  BY OrderType
<1>7. \A q \in Procs : proc'[q] = IF q = p THEN c ELSE proc[q]
  BY DEF TypeOK
<1>8. \A i \in 1..n : i # k => Order[i] # p /\ Order[i] \in Procs
  BY <1>6, OrderType
<1>9. f[k] = Holding(proc[p], pc) /\ g[k] = Holding(c, pc)
  BY <1>4, <1>5, <1>6, <1>7
<1>10. \A i \in 0..n : i # k => g[i] = f[i]
  BY <1>1, <1>4, <1>5, <1>7, <1>8
<1>11. SumTo(g, n) + f[k] = SumTo(f, n) + g[k]
  <2>1. k \in 0..n
    BY <1>1
  <2> QED BY <1>1, <1>4, <1>5, <1>10, <2>1, SumChange
<1>12. InHand(pc) = SumTo(f, n) /\ InHand(pc)' = SumTo(g, n)
  BY <1>2, <1>3 DEF InHand
<1> QED BY <1>9, <1>11, <1>12

LEMMA TotalTypes ==
    ASSUME TypeOK
    PROVE  Total(minutely) \in Nat /\ Total(monthly) \in Nat
  BY SumType, QuotaAssumption DEF TypeOK, Total, Minutes, Months

LEMMA TotalCharge ==
    ASSUME NEW f \in [0..LastMinute -> Nat], NEW k \in 0..LastMinute, NEW n \in Nat
    PROVE  Total([f EXCEPT ![k] = @ + n]) = Total(f) + n
<1> DEFINE g == [f EXCEPT ![k] = @ + n]
<1>1. g \in [0..LastMinute -> Nat] /\ g[k] = f[k] + n
      /\ \A i \in 0..LastMinute : i # k => g[i] = f[i]
  OBVIOUS
<1>2. f[k] \in Nat /\ LastMinute \in Nat
  BY QuotaAssumption
<1> HIDE DEF g
<1>3. SumTo(g, LastMinute) + f[k] = SumTo(f, LastMinute) + g[k]
  BY <1>1, <1>2, SumChange
<1>4. SumTo(g, LastMinute) \in Nat /\ SumTo(f, LastMinute) \in Nat
  BY <1>1, <1>2, SumType
<1>5. SumTo(g, LastMinute) = SumTo(f, LastMinute) + n
  <2>1. ASSUME NEW a \in Nat, NEW b \in Nat, NEW x \in Nat, a + x = b + (x + n)
        PROVE  a = b + n
    BY <2>1
  <2>2. SumTo(g, LastMinute) + f[k] = SumTo(f, LastMinute) + (f[k] + n)
    BY <1>1, <1>3
  <2> QED BY <1>2, <1>4, <2>1, <2>2
<1> QED BY <1>5 DEF Total, g

LEMMA InitWork == Init => WorkInv
<1> SUFFICES ASSUME Init PROVE WorkInv
  OBVIOUS
<1>1. \A pc \in {"enqueue", "rec_minute"} : InHand(pc) = 0
  <2> SUFFICES ASSUME NEW pc \in {"enqueue", "rec_minute"} PROVE InHand(pc) = 0
    OBVIOUS
  <2>1. At(pc) = [i \in 0..Cardinality(Procs) |-> 0]
    BY OrderType, Owing DEF Init, IdleProc, At
  <2> QED BY <2>1, SumZero, Owing DEF InHand
<1>2. Total(minutely) = 0 /\ Total(monthly) = 0
  BY SumZero, QuotaAssumption DEF Init, Total, Minutes, Months
<1> QED BY <1>1, <1>2 DEF Init, WorkInv

(* A step that charges nothing and hands nothing over. *)
LEMMA WorkQuiet ==
    ASSUME TypeOK, TypeOK', WorkInv, UNCHANGED <<enqueued, minutely, monthly>>,
           \A pc \in {"enqueue", "rec_minute"} : InHand(pc)' <= InHand(pc)
    PROVE  WorkInv'
<1>1. /\ InHand("enqueue")' <= InHand("enqueue") /\ InHand("rec_minute")' <= InHand("rec_minute")
      /\ enqueued' = enqueued /\ Total(minutely)' = Total(minutely) /\ Total(monthly)' = Total(monthly)
  OBVIOUS
<1>2. /\ InHand("enqueue") \in Nat /\ InHand("rec_minute") \in Nat
      /\ Total(minutely) \in Nat /\ Total(monthly) \in Nat /\ enqueued \in Nat
  BY InHandType, TotalTypes DEF TypeOK
<1>3. InHand("enqueue")' \in Nat /\ InHand("rec_minute")' \in Nat
  BY InHandTyped DEF InHandNat
<1> QED BY <1>1, <1>2, <1>3 DEF WorkInv

LEMMA WorkStep ==
    ASSUME TypeOK, TypeOK', WorkInv, NEW p \in Procs, Start(p) \/ ProcStep(p) \/ Abort(p)
    PROVE  WorkInv'
<1> DEFINE size == proc[p].size
<1>0. /\ size \in Nat /\ proc[p].key \in Minutes /\ now \in Minutes
      /\ enqueued \in Nat /\ minutely \in [Minutes -> Nat] /\ monthly \in [Months -> Nat]
  BY QuotaAssumption DEF TypeOK
<1>1. /\ InHand("enqueue") \in Nat /\ InHand("rec_minute") \in Nat
      /\ InHand("enqueue")' \in Nat /\ InHand("rec_minute")' \in Nat
      /\ Total(minutely) \in Nat /\ Total(monthly) \in Nat
  BY InHandTyped, TotalTypes DEF InHandNat
(* What moving p to c changes. *)
<1>2. ASSUME NEW c, proc' = [proc EXCEPT ![p] = c]
      PROVE  \A pc \in {"enqueue", "rec_minute"} :
                 InHand(pc)' + Holding(proc[p], pc) = InHand(pc) + Holding(c, pc)
  BY <1>2, HandChange
<1>3. ASSUME NEW c, proc' = [proc EXCEPT ![p] = c], c.pc \notin {"enqueue", "rec_minute"},
             UNCHANGED <<enqueued, minutely, monthly>>
      PROVE  WorkInv'
  <2>1. ASSUME NEW pc \in {"enqueue", "rec_minute"}, InHand(pc) \in Nat, InHand(pc)' \in Nat
        PROVE  InHand(pc)' <= InHand(pc)
    <3>1. Holding(c, pc) = 0 /\ Holding(proc[p], pc) \in Nat
      BY <1>0, <1>3 DEF Holding
    <3>2. InHand(pc)' + Holding(proc[p], pc) = InHand(pc) + Holding(c, pc)
      BY <1>2, <1>3
    <3> QED BY <2>1, <3>1, <3>2
  <2> QED BY <1>1, <1>3, <2>1, WorkQuiet
<1>4. ASSUME NEW pc, Go(p, pc)
      PROVE  \E c : proc' = [proc EXCEPT ![p] = c] /\ c.pc = pc /\ c.size = size
  <2> DEFINE c == [proc[p] EXCEPT !.pc = pc]
  <2>1. proc' = [proc EXCEPT ![p] = c] /\ c.pc = pc /\ c.size = size
    BY <1>4 DEF Go, TypeOK
  <2> HIDE DEF c
  <2> QED BY <2>1
<1>5. Leave(p) => \E c : proc' = [proc EXCEPT ![p] = c] /\ c.pc = "idle"
  <2>1. IdleProc.pc = "idle"
    BY DEF IdleProc
  <2> QED BY <2>1 DEF Leave
<1>6. ASSUME NEW pc \in PCs \ {"enqueue", "rec_minute"}, Leave(p) \/ Go(p, pc),
             UNCHANGED <<enqueued, minutely, monthly>>
      PROVE  WorkInv'
  BY <1>3, <1>4, <1>5, <1>6
<1>7. CASE Start(p)
  <2>1. PICK n \in 1..DomainCap :
          proc' = [proc EXCEPT ![p] = [pc |-> IF MinuteLimit > 0 THEN "incr" ELSE "month",
                                       size |-> n, key |-> now]]
    BY <1>7 DEF Start
  <2> DEFINE c == [pc |-> IF MinuteLimit > 0 THEN "incr" ELSE "month", size |-> n, key |-> now]
  <2>2. c.pc \notin {"enqueue", "rec_minute"} /\ proc' = [proc EXCEPT ![p] = c]
    BY <2>1
  <2>3. UNCHANGED <<enqueued, minutely, monthly>>
    BY <1>7 DEF Start
  <2> HIDE DEF c
  <2> QED BY <1>3, <2>2, <2>3
<1>8. CASE Incr(p) \/ SetExpiry(p) \/ ReadMonth(p) \/ ReadMinute(p) \/ Abort(p)
  <2>1. UNCHANGED <<enqueued, minutely, monthly>>
    BY <1>8 DEF Incr, SetExpiry, ReadMonth, ReadMinute, Abort
  <2>2. Leave(p) \/ Go(p, "expire") \/ Go(p, "month") \/ Go(p, "minute") \/ Go(p, "rec_month")
    BY <1>8 DEF Incr, SetExpiry, ReadMonth, ReadMinute, Abort, Decide
  <2> QED BY <1>6, <2>1, <2>2 DEF PCs
<1>9. CASE RecordUsage(p)
  <2>1. /\ Go(p, "rec_minute") /\ proc[p].pc = "rec_month" /\ UNCHANGED <<enqueued, minutely>>
        /\ monthly' = [monthly EXCEPT ![MonthOf[now]] = @ + size]
    BY <1>9 DEF RecordUsage
  <2>2. Total(monthly') = Total(monthly) + size
    BY <1>0, <2>1, TotalCharge, QuotaAssumption DEF Months
  <2>3. PICK c : proc' = [proc EXCEPT ![p] = c] /\ c.pc = "rec_minute" /\ c.size = size
    BY <1>4, <2>1
  <2>4. /\ InHand("enqueue")' + 0 = InHand("enqueue") + 0
        /\ InHand("rec_minute")' + 0 = InHand("rec_minute") + size
    BY <1>2, <2>1, <2>3 DEF Holding
  <2>5. Total(minutely') = Total(minutely) /\ enqueued' = enqueued
    BY <2>1
  <2> HIDE DEF size
  <2> QED BY <1>0, <1>1, <2>2, <2>4, <2>5 DEF WorkInv
<1>10. CASE RecordMinuteUsage(p)
  <2>1. /\ Go(p, "enqueue") /\ proc[p].pc = "rec_minute" /\ UNCHANGED <<enqueued, monthly>>
        /\ minutely' = [minutely EXCEPT ![now] = @ + size]
    BY <1>10 DEF RecordMinuteUsage
  <2>2. Total(minutely') = Total(minutely) + size
    BY <1>0, <2>1, TotalCharge DEF Minutes
  <2>3. PICK c : proc' = [proc EXCEPT ![p] = c] /\ c.pc = "enqueue" /\ c.size = size
    BY <1>4, <2>1
  <2>6. /\ Holding(c, "enqueue") = size /\ Holding(proc[p], "enqueue") = 0
        /\ Holding(c, "rec_minute") = 0 /\ Holding(proc[p], "rec_minute") = size
    BY <2>1, <2>3 DEF Holding
  <2>4. /\ InHand("enqueue")' + 0 = InHand("enqueue") + size
        /\ InHand("rec_minute")' + size = InHand("rec_minute") + 0
    BY <1>2, <2>3, <2>6
  <2>5. Total(monthly') = Total(monthly) /\ enqueued' = enqueued
    BY <2>1
  <2> HIDE DEF size
  <2> QED BY <1>0, <1>1, <2>2, <2>4, <2>5 DEF WorkInv
<1>11. CASE Enqueue(p)
  <2>1. /\ Leave(p) /\ proc[p].pc = "enqueue" /\ UNCHANGED <<minutely, monthly>>
        /\ enqueued' = enqueued + size
    BY <1>11 DEF Enqueue
  <2>2. PICK c : proc' = [proc EXCEPT ![p] = c] /\ c.pc = "idle"
    BY <1>5, <2>1
  <2>3. /\ InHand("enqueue")' + size = InHand("enqueue") + 0
        /\ InHand("rec_minute")' + 0 = InHand("rec_minute") + 0
    BY <1>2, <2>1, <2>2 DEF Holding
  <2>4. Total(monthly') = Total(monthly) /\ Total(minutely') = Total(minutely)
    BY <2>1
  <2> HIDE DEF size
  <2> QED BY <1>0, <1>1, <2>1, <2>3, <2>4 DEF WorkInv
<1> QED BY <1>7, <1>8, <1>9, <1>10, <1>11 DEF ProcStep

LEMMA WorkNext ==
    ASSUME TypeOK, TypeOK', WorkInv, [Next]_vars
    PROVE  WorkInv'
<1>1. ASSUME UNCHANGED <<proc, enqueued, minutely, monthly>> PROVE WorkInv'
  BY <1>1 DEF WorkInv, InHand, At
<1>2. ASSUME NEW m \in Minutes, KeyExpires(m) PROVE WorkInv'
  BY <1>1, <1>2 DEF KeyExpires
<1> QED BY <1>1, <1>2, WorkStep DEF Next, Tick, vars

-----------------------------------------------------------------------------
(* The quota invariant holds in every behaviour: below a limit any process
   may pass its check, from the limit on only those that passed can charge. *)
THEOREM QuotaInvariant == Spec => []QuotaInv
<1>1. Init => QuotaInv
  <2> SUFFICES ASSUME Init PROVE QuotaInv
    OBVIOUS
  <2>1. TypeOK
    BY InitTyped
  <2>2. /\ \A m \in Months : monthly[m] = 0
        /\ \A m \in Minutes : minutely[m] = 0
        /\ now \in Minutes /\ MonthOf[now] \in Months
    BY <2>1, QuotaAssumption DEF Init, TypeOK
  <2>3. Cardinality(Procs) * DomainCap \in Nat
    BY Owing, Products, QuotaAssumption
  <2>4. MonthlyLimit > 0 => 0 <= Ceiling(MonthlyLimit)
    BY <2>3, QuotaAssumption DEF Ceiling
  <2>5. MinuteLimit > 0 => 0 <= Ceiling(MinuteLimit)
    BY <2>3, QuotaAssumption DEF Ceiling
  <2>6. MonthInv
    BY <2>2, <2>4 DEF MonthInv, MonthlyOvershoot, Covered
  <2>7. MinuteInv
    BY <2>2, <2>5 DEF MinuteInv, MinuteOvershoot, Covered
  <2>8. RateInv
    BY InitRate
  <2> QED BY <2>1, <2>6, <2>7, <2>8, InitWork DEF QuotaInv
<1>2. QuotaInv /\ [Next]_vars => QuotaInv'
  <2> SUFFICES ASSUME TypeOK, TypeOK', MonthInv, MinuteInv, [Next]_vars PROVE MonthInv' /\ MinuteInv'
    BY NextTyped, RateNext, WorkNext DEF QuotaInv
  <2>1. ASSUME NEW p \in Procs, Start(p) \/ ProcStep(p) \/ Abort(p)
        PROVE  MonthInv' /\ MinuteInv'
    BY <2>1, ProcSteps, MonthStepInv, MinuteStepInv
  <2>2. ASSUME UNCHANGED <<now, monthly, minutely, proc>> PROVE MonthInv' /\ MinuteInv'
    <3>1. MonthStep /\ MinuteStep
      BY <2>2 DEF MonthStep, MinuteStep, OwesMonth, OwesMinute
    <3> QED BY <2>2, <3>1, MonthStepInv, MinuteStepInv
  <2>3. CASE UNCHANGED vars
    BY <2>2, <2>3 DEF vars
  <2>4. ASSUME NEW m \in Minutes, KeyExpires(m) PROVE MonthInv' /\ MinuteInv'
    BY <2>2, <2>4 DEF KeyExpires
  <2> QED BY <2>1, <2>3, <2>4, TickInv DEF Next
<1> QED BY <1>1, <1>2, PTL DEF Spec

(* A minute's quota is overshot by less than one full request per process,
   for every number of processes and every plan.                           *)
THEOREM MinuteQuota == Spec => []MinuteOvershoot
<1>1. QuotaInv => MinuteOvershoot
  BY DEF QuotaInv, MinuteInv, MinuteOvershoot
<1> QED BY <1>1, QuotaInvariant, PTL

(* And so is a month's. *)
THEOREM MonthlyQuota == Spec => []MonthlyOvershoot
<1>1. QuotaInv => MonthlyOvershoot
  BY DEF QuotaInv, MonthInv, MonthlyOvershoot
<1> QED BY <1>1, QuotaInvariant, PTL

(* The rate limiter lets minute_limit requests through while a minute lasts,
   and for a minute that is over at most one more per process.             *)
THEOREM RateLimit == Spec => []RateOvershoot
<1>1. QuotaInv => RateOvershoot
  <2> SUFFICES ASSUME QuotaInv, MinuteLimit > 0, NEW m \in Minutes
               PROVE  passed[m] <= MinuteLimit + (IF m = now THEN 0 ELSE Cardinality(Procs))
    BY DEF RateOvershoot
  <2>1. RateInvAt(m) /\ passed[m] \in Nat /\ MinuteLimit \in Nat /\ now \in Nat /\ m \in Nat
    BY QuotaAssumption DEF QuotaInv, RateInv, TypeOK, Minutes
  <2>2. /\ Cardinality(Entering(m)) \in Nat /\ Cardinality(Pending(m)) \in Nat
        /\ Cardinality(Procs) \in Nat
    <3>1. Entering(m) \in SUBSET Procs /\ Pending(m) \in SUBSET Procs
      BY DEF Entering, Pending
    <3> QED BY <3>1, Owing
  <2> QED BY <2>1, <2>2 DEF RateInvAt
<1> QED BY <1>1, QuotaInvariant, PTL

(* Whatever fails in between, the domains handed to the pipeline are charged
   to minutes, and those charged to minutes to months.                     *)
THEOREM WorkCharged == Spec => []WorkIsCharged
<1>1. QuotaInv => WorkIsCharged
  <2> SUFFICES ASSUME QuotaInv PROVE WorkIsCharged
    OBVIOUS
  <2>1. /\ Total(minutely) \in Nat /\ Total(monthly) \in Nat /\ enqueued \in Nat
        /\ InHand("enqueue") \in Nat /\ InHand("rec_minute") \in Nat
    BY TotalTypes, InHandTyped DEF QuotaInv, TypeOK, InHandNat
  <2> QED BY <2>1 DEF QuotaInv, WorkInv, WorkIsCharged
<1> QED BY <1>1, QuotaInvariant, PTL

=============================================================================
