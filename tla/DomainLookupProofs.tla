-------------------------- MODULE DomainLookupProofs --------------------------
(* Proofs about DomainLookup, for any set of lookups, any times to live (Go's
   for 'available' the longer ones, as in the code) and any number of lost
   commands.                                                               *)
EXTENDS DomainLookup, TLAPS

(* The actions that write the hash or the lookups go through three helpers;
   what a lookup looks like afterwards.                                    *)
LEMMA IdleType == IdleLookup \in Lookup
  BY DEF IdleLookup, Lookup, Unasked, Result, AllLangs

LEMMA AnsweredType ==
    ASSUME TypeOK, NEW l \in Lookups, NEW avail \in {"none", "null", "true", "false"},
           NEW conf \in {"none", "low", "medium", "high"}, Answered(l, avail, conf)
    PROVE  /\ lookup' \in [Lookups -> Lookup]
           /\ lookup'[l].pc = "done"
           /\ lookup'[l].result = [avail |-> avail, conf |-> conf]
           /\ \A m \in Lookups : m # l => lookup'[m] = lookup[m]
<1> DEFINE new == [IdleLookup EXCEPT !.pc = "done",
                                     !.result = [avail |-> avail, conf |-> conf]]
<1>1. /\ new \in Lookup /\ new.pc = "done"
      /\ new.result = [avail |-> avail, conf |-> conf]
  BY IdleType DEF IdleLookup, Lookup, Unasked, Result, AllLangs
<1>2. lookup' = [lookup EXCEPT ![l] = new]
  BY DEF Answered
<1> HIDE DEF new
<1> QED BY <1>1, <1>2 DEF TypeOK

LEMMA FoundType ==
    ASSUME TypeOK, NEW l \in Lookups, NEW avail \in {"true", "false"}, NEW ttl \in Nat,
           NEW parked \in BOOLEAN, Found(l, avail, ttl, parked)
    PROVE  /\ lookup' \in [Lookups -> Lookup]
           /\ lookup'[l].pc = "write" /\ lookup'[l].ttl = ttl
           /\ lookup'[l].result = [avail |-> avail, conf |-> "high"]
           /\ lookup'[l].late = lookup[l].late /\ lookup'[l].lang = lookup[l].lang
           /\ \A m \in Lookups : m # l => lookup'[m] = lookup[m]
<1> DEFINE new == [lookup[l] EXCEPT !.pc = "write", !.ttl = ttl, !.parked = parked,
                                    !.result = [avail |-> avail, conf |-> "high"]]
<1>0. lookup[l] \in Lookup
  BY DEF TypeOK
<1>1. /\ new \in Lookup /\ new.pc = "write" /\ new.ttl = ttl
      /\ new.result = [avail |-> avail, conf |-> "high"]
      /\ new.late = lookup[l].late /\ new.lang = lookup[l].lang
  BY <1>0 DEF Lookup, Result, AllLangs
<1>2. lookup' = [lookup EXCEPT ![l] = new]
  BY DEF Found, TypeOK
<1> HIDE DEF new
<1> QED BY <1>1, <1>2 DEF TypeOK

LEMMA MovedType ==
    ASSUME TypeOK, NEW l \in Lookups,
           NEW pc \in {"cache", "bloom", "dns", "tos", "whois", "expire"}, LookupTo(l, pc)
    PROVE  /\ lookup' \in [Lookups -> Lookup]
           /\ lookup'[l].pc = pc /\ lookup'[l].lang = lookup[l].lang
           /\ lookup'[l].ttl = lookup[l].ttl /\ lookup'[l].result = lookup[l].result
           /\ lookup'[l].late = lookup[l].late
           /\ \A m \in Lookups : m # l => lookup'[m] = lookup[m]
<1> DEFINE new == [lookup[l] EXCEPT !.pc = pc]
<1>0. lookup[l] \in Lookup
  BY DEF TypeOK
<1>1. /\ new \in Lookup /\ new.pc = pc /\ new.lang = lookup[l].lang
      /\ new.ttl = lookup[l].ttl /\ new.result = lookup[l].result /\ new.late = lookup[l].late
  BY <1>0 DEF Lookup
<1>2. lookup' = [lookup EXCEPT ![l] = new]
  BY DEF LookupTo, TypeOK
<1> HIDE DEF new
<1> QED BY <1>1, <1>2 DEF TypeOK

(* The parts of the invariant that follow the hash and the pending writes. *)
Kept == AnswersExpire' /\ FreeWasConfirmed' /\ WritesAreConfirmed' /\ PendingIsFresh' /\ LangsInUse'

(* A step that leaves the hash alone and brings one lookup, none that is
   between HSET and EXPIRE, anywhere but to its write.                     *)
LEMMA KeptByOthers ==
    ASSUME LookupInv, NEW l \in Lookups, UNCHANGED <<entry, scan, torn, sinceFree>>,
           lookup' \in [Lookups -> Lookup],
           lookup[l].pc # "expire", lookup'[l].pc \notin {"write", "expire"},
           lookup'[l].pc \notin {"idle", "done"} => lookup'[l].lang \in Langs,
           \A m \in Lookups : m # l => lookup'[m] = lookup[m]
    PROVE  Kept
<1>1. \A m \in Lookups : lookup[m].pc = "expire" => lookup'[m] = lookup[m]
  OBVIOUS
<1>2. AnswersExpire'
  BY <1>1 DEF LookupInv, AnswersExpire, Pending
<1>3. FreeWasConfirmed'
  BY <1>1 DEF LookupInv, FreeWasConfirmed, Confirmed
<1>4. WritesAreConfirmed' /\ LangsInUse'
  BY DEF LookupInv, WritesAreConfirmed, LangsInUse
<1>5. PendingIsFresh'
  BY DEF LookupInv, PendingIsFresh
<1> QED BY <1>2, <1>3, <1>4, <1>5 DEF Kept

(* A step that leaves the hash alone and brings one lookup to its write.   *)
LEMMA KeptByFound ==
    ASSUME LookupAssumption, LookupInv, NEW l \in Lookups, UNCHANGED <<entry, scan, torn>>,
           lookup[l].pc \notin {"idle", "done", "expire"},
           NEW avail \in {"true", "false"}, NEW ttl \in Nat \ {0}, NEW parked \in BOOLEAN,
           Found(l, avail, ttl, parked),
           sinceFree' = sinceFree \/ sinceFree' = 0,
           avail = "true" => sinceFree' = 0 /\ ttl = AvailableTTL[lookup[l].lang],
           avail = "false" /\ lookup[l].lang = "go" => ttl = RegisteredTTL["go"]
    PROVE  lookup' \in [Lookups -> Lookup] /\ Kept
<1>0. /\ lookup' \in [Lookups -> Lookup]
      /\ lookup'[l].pc = "write" /\ lookup'[l].ttl = ttl
      /\ lookup'[l].result = [avail |-> avail, conf |-> "high"]
      /\ lookup'[l].late = lookup[l].late /\ lookup'[l].lang = lookup[l].lang
      /\ \A m \in Lookups : m # l => lookup'[m] = lookup[m]
  <2>1. TypeOK /\ ttl \in Nat
    BY DEF LookupInv
  <2> QED BY <2>1, FoundType
<1>1. sinceFree \in Nat /\ sinceFree' \in Nat /\ sinceFree' <= sinceFree
  BY DEF LookupInv, TypeOK, LookupAssumption
<1>2. \A lang \in Langs : AvailableTTL[lang] \in Nat
  BY DEF LookupAssumption
<1>3. \A t, g \in Nat : Confirmed(t, g) => Confirmed(t, g)'
  BY <1>1, <1>2 DEF Confirmed
<1>4. \A m \in Lookups : lookup[m].pc = "expire" => lookup'[m] = lookup[m]
  BY <1>0
<1>5. AnswersExpire'
  BY <1>4 DEF LookupInv, AnswersExpire, Pending
<1>6. FreeWasConfirmed'
  <2>1. entry.ttl \in Nat
    BY DEF LookupInv, TypeOK, Entry
  <2> QED BY <1>3, <1>4, <2>1 DEF LookupInv, FreeWasConfirmed
<1>7. LangsInUse'
  BY <1>0 DEF LookupInv, LangsInUse
<1>8. PendingIsFresh'
  BY <1>0, <1>1 DEF LookupInv, PendingIsFresh, Grace
<1>9. WritesAreConfirmed'
  <2> SUFFICES ASSUME NEW m \in Lookups, lookup'[m].pc \in {"write", "expire"}
               PROVE  /\ lookup'[m].ttl > 0
                      /\ lookup'[m].result.avail \in {"true", "false"}
                      /\ lookup'[m].result.avail = "true" =>
                            /\ sinceFree' <= Grace(lookup'[m].late)
                            /\ lookup'[m].ttl = AvailableTTL[lookup'[m].lang]
                      /\ lookup'[m].result.avail = "false" /\ lookup'[m].lang = "go" =>
                            lookup'[m].ttl = RegisteredTTL["go"]
                      /\ lookup'[m].pc = "expire" => lookup'[m].lang = "go"
    BY DEF WritesAreConfirmed, Grace
  <2>1. CASE m # l
    <3>1. lookup'[m] = lookup[m]
      BY <1>0, <2>1
    <3> QED BY <3>1, <1>1 DEF LookupInv, WritesAreConfirmed, Grace
  <2>2. CASE m = l
    <3>1. lookup'[l].result.avail = avail
      BY <1>0
    <3> QED BY <3>1, <2>2, <1>0 DEF Grace
  <2> QED BY <2>1, <2>2
<1> QED BY <1>0, <1>5, <1>6, <1>7, <1>8, <1>9 DEF Kept

(* The steps of a lookup, by what they do to it.                           *)
LEMMA AnsweredKeeps ==
    ASSUME LookupInv, NEW l \in Lookups, UNCHANGED <<entry, scan, torn, sinceFree>>,
           lookup[l].pc # "expire",
           NEW avail \in {"none", "null", "true", "false"},
           NEW conf \in {"none", "low", "medium", "high"}, Answered(l, avail, conf)
    PROVE  lookup' \in [Lookups -> Lookup] /\ Kept
<1>1. TypeOK
  BY DEF LookupInv
<1>2. /\ lookup' \in [Lookups -> Lookup]
      /\ lookup'[l].pc = "done"
      /\ \A m \in Lookups : m # l => lookup'[m] = lookup[m]
  BY <1>1, AnsweredType
<1> QED BY <1>2, KeptByOthers

LEMMA MovedKeeps ==
    ASSUME LookupInv, NEW l \in Lookups, UNCHANGED <<entry, scan, torn, sinceFree>>,
           lookup[l].pc \notin {"idle", "done", "expire"},
           NEW pc \in {"cache", "bloom", "dns", "tos", "whois"}, LookupTo(l, pc)
    PROVE  lookup' \in [Lookups -> Lookup] /\ Kept
<1>1. TypeOK /\ pc \in {"cache", "bloom", "dns", "tos", "whois", "expire"}
  BY DEF LookupInv
<1>2. /\ lookup' \in [Lookups -> Lookup]
      /\ lookup'[l].pc = pc /\ lookup'[l].lang = lookup[l].lang
      /\ \A m \in Lookups : m # l => lookup'[m] = lookup[m]
  BY <1>1, MovedType
<1>3. lookup[l].lang \in Langs
  BY DEF LookupInv, LangsInUse
<1> QED BY <1>2, <1>3, KeptByOthers

LEMMA StartKeeps ==
    ASSUME LookupAssumption, LookupInv, NEW l \in Lookups, Start(l)
    PROVE  TypeOK' /\ Kept
<1>1. PICK lang \in Langs :
          lookup' = [lookup EXCEPT ![l] =
                       [IdleLookup EXCEPT !.pc = IF lang = "go" THEN "brand" ELSE "cache",
                                          !.lang = lang]]
  BY DEF Start
<1> DEFINE new == [IdleLookup EXCEPT !.pc = IF lang = "go" THEN "brand" ELSE "cache",
                                     !.lang = lang]
<1>2. new \in Lookup /\ new.pc \in {"brand", "cache"} /\ new.lang = lang
  <2>1. lang \in AllLangs
    BY DEF LookupAssumption
  <2> QED BY <2>1, IdleType DEF IdleLookup, Lookup
<1>3. lookup' = [lookup EXCEPT ![l] = new]
  BY <1>1
<1> HIDE DEF new
<1>4. /\ lookup' \in [Lookups -> Lookup]
      /\ lookup'[l].pc \in {"brand", "cache"} /\ lookup'[l].lang \in Langs
      /\ \A m \in Lookups : m # l => lookup'[m] = lookup[m]
  BY <1>2, <1>3 DEF LookupInv, TypeOK
<1>5. UNCHANGED <<entry, scan, torn, sinceFree>> /\ lookup[l].pc # "expire"
  BY DEF Start
<1>6. Kept
  BY <1>4, <1>5, KeptByOthers
<1> QED BY <1>4, <1>6 DEF Start, LookupInv, TypeOK

LEMMA BrandKeeps ==
    ASSUME LookupAssumption, LookupInv, NEW l \in Lookups, Brand(l)
    PROVE  TypeOK' /\ Kept
<1>1. /\ UNCHANGED <<entry, scan, torn, sinceFree>> /\ lookup[l].pc = "brand"
      /\ Answered(l, "null", "high") \/ LookupTo(l, "cache")
  BY DEF Brand
<1>2. lookup' \in [Lookups -> Lookup] /\ Kept
  BY <1>1, AnsweredKeeps, MovedKeeps
<1> QED BY <1>2 DEF Brand, Works, Fails, LookupInv, TypeOK

LEMMA CacheKeeps ==
    ASSUME LookupAssumption, LookupInv, NEW l \in Lookups, Cache(l)
    PROVE  TypeOK' /\ Kept
<1>1. /\ UNCHANGED <<entry, scan, torn, sinceFree>> /\ lookup[l].pc = "cache"
      /\ Cached(l) \/ LookupTo(l, "bloom")
  BY DEF Cache
<1>2. lookup' \in [Lookups -> Lookup] /\ Kept
  <2>1. CASE Cached(l)
    <3> DEFINE avail == IF entry.avail = "none" THEN "null" ELSE entry.avail
    <3> DEFINE conf == Confidence(lookup[l].lang)
    <3>1. avail \in {"none", "null", "true", "false"}
      BY DEF LookupInv, TypeOK, Entry
    <3>2. conf \in {"none", "low", "medium", "high"}
      BY DEF Confidence
    <3>3. Answered(l, avail, conf)
      BY <2>1 DEF Cached
    <3> HIDE DEF avail, conf
    <3> QED BY <3>1, <3>2, <3>3, <1>1, AnsweredKeeps
  <2> QED BY <2>1, <1>1, MovedKeeps
<1> QED BY <1>2 DEF Cache, Works, Fails, LookupInv, TypeOK

LEMMA BloomKeeps ==
    ASSUME LookupAssumption, LookupInv, NEW l \in Lookups, Bloom(l)
    PROVE  TypeOK' /\ Kept
<1>1. /\ UNCHANGED <<entry, scan, torn, sinceFree>> /\ lookup[l].pc = "bloom"
      /\ \/ \E parked \in BOOLEAN : Found(l, "false", RegisteredTTL["go"], parked)
         \/ LookupTo(l, "dns")
  BY DEF Bloom
<1>2. RegisteredTTL["go"] \in Nat \ {0}
  BY DEF LookupAssumption, AllLangs
<1>3. lookup' \in [Lookups -> Lookup] /\ Kept
  BY <1>1, <1>2, KeptByFound, MovedKeeps
<1> QED BY <1>3 DEF Bloom, Works, Fails, LookupInv, TypeOK

LEMMA DNSKeeps ==
    ASSUME LookupAssumption, LookupInv, NEW l \in Lookups, DNS(l)
    PROVE  TypeOK' /\ Kept
<1>1. /\ UNCHANGED <<entry, scan, torn, sinceFree>> /\ lookup[l].pc = "dns"
      /\ \/ \E parked \in BOOLEAN : Found(l, "false", RegisteredTTL[lookup[l].lang], parked)
         \/ Answered(l, "null", "low")
         \/ \E pc \in {"tos", "whois"} : LookupTo(l, pc)
  BY DEF DNS
<1>2. RegisteredTTL[lookup[l].lang] \in Nat \ {0}
  BY DEF LookupAssumption, LookupInv, TypeOK, Lookup
<1>3. lookup' \in [Lookups -> Lookup] /\ Kept
  <2>1. CASE \E parked \in BOOLEAN : Found(l, "false", RegisteredTTL[lookup[l].lang], parked)
    BY <2>1, <1>1, <1>2, KeptByFound
  <2>2. CASE Answered(l, "null", "low")
    BY <2>2, <1>1, AnsweredKeeps
  <2>3. CASE \E pc \in {"tos", "whois"} : LookupTo(l, pc)
    BY <2>3, <1>1, MovedKeeps
  <2> QED BY <1>1, <2>1, <2>2, <2>3
<1> QED BY <1>3 DEF DNS, LookupInv, TypeOK

LEMMA TOSKeeps ==
    ASSUME LookupAssumption, LookupInv, NEW l \in Lookups, TOS(l)
    PROVE  TypeOK' /\ Kept
<1>1. /\ UNCHANGED <<entry, scan, torn, sinceFree>> /\ lookup[l].pc = "tos"
      /\ Answered(l, "true", "medium") \/ LookupTo(l, "whois")
  BY DEF TOS
<1>2. lookup' \in [Lookups -> Lookup] /\ Kept
  BY <1>1, AnsweredKeeps, MovedKeeps
<1> QED BY <1>2 DEF TOS, Works, Fails, LookupInv, TypeOK

LEMMA WhoisKeeps ==
    ASSUME LookupAssumption, LookupInv, NEW l \in Lookups, Whois(l)
    PROVE  TypeOK' /\ Kept
<1>0. /\ lookup[l].pc = "whois" /\ UNCHANGED <<entry, scan, torn>>
      /\ lookup[l].lang \in AllLangs
      /\ AvailableTTL[lookup[l].lang] \in Nat \ {0} /\ RegisteredTTL["go"] \in Nat \ {0}
  BY DEF Whois, LookupAssumption, LookupInv, TypeOK, Lookup, AllLangs
<1>1. lookup' \in [Lookups -> Lookup] /\ Kept
  <2>1. CASE sinceFree' = 0 /\ Found(l, "true", AvailableTTL[lookup[l].lang], FALSE)
    BY <2>1, <1>0, KeptByFound
  <2>2. CASE /\ sinceFree' = sinceFree
             /\ \E ttl \in Nat \ {0} :
                   /\ lookup[l].lang = "go" => ttl = RegisteredTTL["go"]
                   /\ Found(l, "false", ttl, FALSE)
    BY <2>2, <1>0, KeptByFound
  <2>3. CASE /\ sinceFree' = sinceFree
             /\ \/ Answered(l, "true", "medium") \/ Answered(l, "true", "low")
                \/ Answered(l, "null", "low")
    BY <2>3, <1>0, AnsweredKeeps
  <2>4. (IF lookup[l].lang = "go" THEN {RegisteredTTL["go"]} ELSE 1..ExpiryTTL)
            \subseteq Nat \ {0}
    BY <1>0 DEF LookupAssumption
  <2> QED BY <2>1, <2>2, <2>3, <2>4 DEF Whois
<1>2. sinceFree' \in 0..LongAgo
  <2>1. sinceFree' = 0 \/ sinceFree' = sinceFree
    BY DEF Whois
  <2> QED BY <2>1 DEF LookupInv, TypeOK, LookupAssumption
<1> QED BY <1>1, <1>2 DEF Whois, LookupInv, TypeOK

(* What HSET and EXPIRE make of the hash. *)
LEMMA HashedFacts ==
    ASSUME LookupAssumption, TypeOK, NEW avail \in {"true", "false"}, NEW zone \in BOOLEAN
    PROVE  /\ Hashed(avail, zone) \in Entry
           /\ Hashed(avail, zone).avail = avail /\ Hashed(avail, zone).ttl = entry.ttl
<1>1. 0 \in 0..(Stale + 1)
  BY DEF LookupAssumption
<1> QED BY <1>1 DEF TypeOK, Hashed, Entry

LEMMA ExpiringFacts ==
    ASSUME TypeOK, NEW ttl \in Nat
    PROVE  /\ Expiring(ttl) \in Entry /\ Expiring(ttl).avail = entry.avail
           /\ entry.avail # "none" => Expiring(ttl).ttl = ttl
<1>1. NoEntry.avail = "none"
  BY DEF NoEntry
<1> QED BY <1>1 DEF TypeOK, Expiring, Entry

(* What is known of a lookup with a pending write, and where it returns.   *)
LEMMA PendingFacts ==
    ASSUME LookupAssumption, LookupInv, NEW l \in Lookups, lookup[l].pc \in {"write", "expire"}
    PROVE  /\ TypeOK /\ sinceFree \in Nat /\ lookup[l] \in Lookup
           /\ lookup[l].ttl \in Nat /\ lookup[l].ttl > 0
           /\ lookup[l].lang \in Langs /\ lookup[l].result.avail \in {"true", "false"}
           /\ lookup[l].result.avail = "true" =>
                 sinceFree <= 1 /\ lookup[l].ttl = AvailableTTL[lookup[l].lang]
  BY DEF LookupInv, TypeOK, Lookup, WritesAreConfirmed, LangsInUse, LookupAssumption, Grace

LEMMA ReturnedFacts ==
    ASSUME LookupAssumption, LookupInv, NEW l \in Lookups, Returned(l),
           lookup[l].pc \in {"write", "expire"}
    PROVE  /\ lookup' \in [Lookups -> Lookup] /\ probe' \in [Lookups -> Span]
           /\ lookup'[l].pc = "done"
           /\ \A m \in Lookups : m # l => lookup'[m] = lookup[m]
<1>1. TypeOK /\ lookup[l].result.avail \in {"none", "null", "true", "false"}
  BY PendingFacts
<1>2. Answered(l, lookup[l].result.avail, "high")
  BY DEF Returned
<1>3. /\ lookup' \in [Lookups -> Lookup]
      /\ lookup'[l].pc = "done"
      /\ \A m \in Lookups : m # l => lookup'[m] = lookup[m]
  BY <1>1, <1>2, AnsweredType
<1>4. \E span \in Span : probe' = [probe EXCEPT ![l] = span]
  BY DEF Returned, Span
<1> QED BY <1>1, <1>3, <1>4 DEF TypeOK

(* The end of a lookup's write: the hash is as it was, or it has a confirmed
   time to live, or its pipeline was torn.                                 *)
LEMMA WriteEnds ==
    ASSUME LookupAssumption, LookupInv, NEW l \in Lookups, Returned(l),
           lookup[l].pc \in {"write", "expire"}, UNCHANGED <<scan, sinceFree>>,
           \/ UNCHANGED <<entry, torn>> /\ lookup[l].pc = "write"
           \/ torn' = TRUE
           \/ entry'.ttl > 0 /\ (entry'.avail = "true" => Confirmed(entry'.ttl, 1)),
           entry'.avail = "true" => entry.avail = "true" \/ sinceFree <= 1
    PROVE  Kept
<1>1. /\ lookup'[l].pc = "done"
      /\ \A m \in Lookups : m # l => lookup'[m] = lookup[m]
  BY ReturnedFacts
<1>2. sinceFree \in Nat
  BY PendingFacts
<1>3. AnswersExpire' /\ FreeWasConfirmed'
  <2>1. CASE UNCHANGED <<entry, torn>> /\ lookup[l].pc = "write"
    <3>1. \A m \in Lookups : lookup[m].pc = "expire" => lookup'[m] = lookup[m]
      BY <1>1, <2>1
    <3> QED BY <2>1, <3>1 DEF LookupInv, AnswersExpire, Pending, FreeWasConfirmed, Confirmed
  <2>2. CASE torn' = TRUE
    BY <2>2 DEF AnswersExpire, FreeWasConfirmed
  <2>3. CASE entry'.ttl > 0 /\ (entry'.avail = "true" => Confirmed(entry'.ttl, 1))
    BY <2>3 DEF AnswersExpire, FreeWasConfirmed, Confirmed
  <2> QED BY <2>1, <2>2, <2>3
<1>4. WritesAreConfirmed' /\ LangsInUse'
  BY <1>1 DEF LookupInv, WritesAreConfirmed, LangsInUse
<1>5. PendingIsFresh'
  BY <1>1, <1>2 DEF LookupInv, PendingIsFresh, Grace
<1> QED BY <1>3, <1>4, <1>5 DEF Kept

LEMMA TornType ==
    ASSUME TypeOK, (torn' = torn) \/ (torn' = TRUE) \/ (torn' = FALSE)
    PROVE  torn' \in BOOLEAN
  BY Zenon DEF TypeOK

LEMMA WriteKeeps ==
    ASSUME LookupAssumption, LookupInv, NEW l \in Lookups, Write(l)
    PROVE  TypeOK' /\ Kept
<1>1. /\ lookup[l].pc = "write" /\ Returned(l) /\ UNCHANGED <<scan, reverse, sinceFree>>
      /\ (torn' = torn) \/ (torn' = FALSE)
      /\ errors' \in {errors, errors + 1}
      /\ entry' = Stored(l) \/ UNCHANGED <<entry, torn>>
  BY DEF Write, Works, Fails
<1>2. /\ TypeOK /\ sinceFree \in Nat /\ lookup[l].ttl \in Nat /\ lookup[l].ttl > 0
      /\ lookup[l].lang \in Langs /\ lookup[l].result.avail \in {"true", "false"}
      /\ lookup[l].result.avail = "true" =>
            sinceFree <= 1 /\ lookup[l].ttl = AvailableTTL[lookup[l].lang]
  BY <1>1, PendingFacts
<1>3. CASE entry' = Stored(l)
  <2> DEFINE hash == Hashed(lookup[l].result.avail, FALSE)
  <2>1. hash \in Entry /\ hash.avail = lookup[l].result.avail
    BY <1>2, HashedFacts
  <2>2. entry' = [hash EXCEPT !.ttl = lookup[l].ttl]
    BY <1>3 DEF Stored
  <2> HIDE DEF hash
  <2>3. /\ entry' \in Entry /\ entry'.avail = lookup[l].result.avail
        /\ entry'.ttl = lookup[l].ttl
    BY <1>2, <2>1, <2>2 DEF Entry
  <2>4. entry'.avail = "true" => Confirmed(entry'.ttl, 1)
    BY <1>2, <2>3 DEF Confirmed, LookupAssumption
  <2>5. Kept
    BY <1>1, <1>2, <2>3, <2>4, WriteEnds
  <2>6. torn' \in BOOLEAN
    BY <1>1, <1>2, TornType
  <2> QED BY <1>1, <1>2, <2>3, <2>5, <2>6, ReturnedFacts DEF TypeOK
<1>4. CASE UNCHANGED <<entry, torn>>
  <2>1. Kept
    BY <1>1, <1>4, WriteEnds
  <2> QED BY <1>1, <1>2, <1>4, <2>1, ReturnedFacts DEF TypeOK
<1> QED BY <1>1, <1>3, <1>4

LEMMA HsetKeeps ==
    ASSUME LookupAssumption, LookupInv, NEW l \in Lookups, Hset(l)
    PROVE  TypeOK' /\ Kept
<1>1. /\ lookup[l].pc = "write" /\ lookup[l].lang = "go" /\ UNCHANGED <<scan, reverse, sinceFree>>
      /\ errors' \in {errors, errors + 1}
  BY DEF Hset, Works, Fails, HsetLost
<1>2. /\ TypeOK /\ sinceFree \in Nat /\ lookup[l].ttl \in Nat
      /\ lookup[l].result.avail \in {"true", "false"}
      /\ lookup[l].result.avail = "true" => sinceFree <= 1
  BY <1>1, PendingFacts
<1>3. CASE /\ entry' = Hashed(lookup[l].result.avail, FALSE)
           /\ LookupTo(l, "expire") /\ UNCHANGED <<torn, probe>>
  <2>1. entry' \in Entry /\ entry'.avail = lookup[l].result.avail
    BY <1>2, <1>3, HashedFacts
  <2>2. /\ lookup' \in [Lookups -> Lookup]
        /\ lookup'[l].pc = "expire" /\ lookup'[l].lang = lookup[l].lang
        /\ lookup'[l].ttl = lookup[l].ttl /\ lookup'[l].result = lookup[l].result
        /\ lookup'[l].late = lookup[l].late
        /\ \A m \in Lookups : m # l => lookup'[m] = lookup[m]
    BY <1>2, <1>3, MovedType
  <2>3. AnswersExpire' /\ FreeWasConfirmed'
    BY <2>1, <2>2 DEF AnswersExpire, Pending, FreeWasConfirmed
  <2>4. WritesAreConfirmed' /\ LangsInUse'
    BY <1>1, <2>2 DEF LookupInv, WritesAreConfirmed, LangsInUse
  <2>5. PendingIsFresh'
    BY <1>1, <1>2, <2>1, <2>2 DEF LookupInv, PendingIsFresh, Grace
  <2>6. torn' \in BOOLEAN
    BY <1>2, <1>3, TornType
  <2>7. probe' = probe
    BY <1>3
  <2> QED BY <1>1, <1>2, <2>1, <2>2, <2>3, <2>4, <2>5, <2>6, <2>7 DEF TypeOK, Kept
<1>4. CASE HsetLost(lookup[l].ttl) /\ Returned(l)
  <2>1. \/ UNCHANGED <<entry, torn>>
        \/ entry' = Expiring(lookup[l].ttl) /\ torn' = TRUE
    BY <1>4 DEF HsetLost
  <2>2. entry' \in Entry /\ entry'.avail = entry.avail /\ torn' \in BOOLEAN
    BY <1>2, <2>1, ExpiringFacts DEF TypeOK
  <2>3. Kept
    BY <1>1, <1>4, <2>1, <2>2, WriteEnds
  <2> QED BY <1>1, <1>2, <1>4, <2>2, <2>3, ReturnedFacts DEF TypeOK
<1> QED BY <1>3, <1>4 DEF Hset

(* EXPIRE: what it finds under it is fresh enough for its time to live.    *)
LEMMA ExpireKeeps ==
    ASSUME LookupAssumption, LookupInv, NEW l \in Lookups, Expire(l)
    PROVE  TypeOK' /\ Kept
<1>1. /\ lookup[l].pc = "expire" /\ Returned(l) /\ UNCHANGED <<scan, reverse, sinceFree>>
      /\ \/ entry' = Expiring(lookup[l].ttl) /\ torn' = FALSE
         \/ UNCHANGED entry /\ torn' = TRUE
      /\ errors' \in {errors, errors + 1}
  BY DEF Expire, Expires, Works, Fails
<1>2. /\ TypeOK /\ sinceFree \in Nat /\ lookup[l].ttl \in Nat /\ lookup[l].ttl > 0
      /\ lookup[l].result.avail \in {"true", "false"}
      /\ lookup[l].result.avail = "true" => sinceFree <= 1
  BY <1>1, PendingFacts
<1>3. CASE entry' = Expiring(lookup[l].ttl) /\ torn' = FALSE
  <2>1. /\ entry' \in Entry /\ entry'.avail = entry.avail
        /\ entry'.avail # "none" => entry'.ttl = lookup[l].ttl
    BY <1>2, <1>3, ExpiringFacts
  <2>2. /\ AvailableTTL["go"] \in Nat /\ RegisteredTTL["go"] \in Nat /\ "go" \in Langs
        /\ RegisteredTTL["go"] < AvailableTTL["go"]
    BY DEF LookupAssumption, AllLangs
  <2>3. ASSUME entry'.avail = "true" PROVE Confirmed(entry'.ttl, 1)
    <3>1. sinceFree <= 2 /\ lookup[l].lang = "go" /\ entry'.ttl = lookup[l].ttl
      BY <1>1, <1>2, <2>1, <2>3 DEF LookupInv, PendingIsFresh, WritesAreConfirmed, Grace
    <3>2. \/ sinceFree <= 1 /\ lookup[l].ttl = AvailableTTL["go"]
          \/ lookup[l].ttl = RegisteredTTL["go"]
      BY <1>1, <1>2, <3>1 DEF LookupInv, WritesAreConfirmed, Grace
    <3>3. sinceFree + lookup[l].ttl <= AvailableTTL["go"] + 1
      BY <1>2, <2>2, <3>1, <3>2
    <3> QED BY <3>1, <3>3, <2>2 DEF Confirmed
  <2>4. Kept
    <3>1. CASE entry'.avail = "none"
      <4>1. AnswersExpire' /\ FreeWasConfirmed' /\ PendingIsFresh'
        BY <3>1 DEF AnswersExpire, FreeWasConfirmed, PendingIsFresh
      <4>2. WritesAreConfirmed' /\ LangsInUse'
        BY <1>1, ReturnedFacts DEF LookupInv, WritesAreConfirmed, LangsInUse
      <4> QED BY <4>1, <4>2 DEF Kept
    <3>2. CASE entry'.avail # "none"
      BY <1>1, <1>2, <2>1, <2>3, <3>2, WriteEnds
    <3> QED BY <3>1, <3>2
  <2>5. torn' \in BOOLEAN
    BY <1>2, <1>3, TornType
  <2> QED BY <1>1, <1>2, <2>1, <2>4, <2>5, ReturnedFacts DEF TypeOK
<1>4. CASE UNCHANGED entry /\ torn' = TRUE
  <2>1. Kept
    BY <1>1, <1>4, WriteEnds
  <2> QED BY <1>1, <1>2, <1>4, <2>1, ReturnedFacts DEF TypeOK
<1> QED BY <1>1, <1>3, <1>4

(* HSET of a sale probe or of the reverse scanner. *)
LEMMA ExtraKeeps ==
    ASSUME LookupInv, entry' \in {entry, WithExtra}, UNCHANGED <<lookup, scan, torn, sinceFree>>
    PROVE  entry' \in Entry /\ Kept
<1>1. entry' \in Entry /\ entry'.avail = entry.avail /\ entry'.ttl = entry.ttl
  BY DEF WithExtra, LookupInv, TypeOK, Entry
<1>2. AnswersExpire' /\ FreeWasConfirmed'
  BY <1>1 DEF LookupInv, AnswersExpire, Pending, FreeWasConfirmed, Confirmed
<1>3. WritesAreConfirmed' /\ LangsInUse' /\ PendingIsFresh'
  BY <1>1 DEF LookupInv, WritesAreConfirmed, LangsInUse, PendingIsFresh
<1> QED BY <1>1, <1>2, <1>3 DEF Kept

LEMMA ProbeKeeps ==
    ASSUME LookupInv, NEW l \in Lookups, Probe(l)
    PROVE  TypeOK' /\ Kept
<1>1. entry' \in Entry /\ Kept
  BY ExtraKeeps DEF Probe
<1> QED BY <1>1 DEF Probe, LookupInv, TypeOK, Span

LEMMA ScannersKeep ==
    ASSUME LookupAssumption, LookupInv, ScanZone \/ ScanExpire \/ ReverseRead \/ ReverseWrite
    PROVE  TypeOK' /\ Kept
<1>0. /\ TypeOK /\ sinceFree \in Nat /\ ZoneTTL \in Nat /\ ZoneTTL > 0
      /\ AvailableTTL["go"] \in Nat /\ "go" \in Langs /\ ZoneTTL < AvailableTTL["go"]
  BY DEF LookupInv, TypeOK, LookupAssumption, AllLangs
<1>1. CASE ScanZone
  <2>0. UNCHANGED <<lookup, probe, reverse, sinceFree>> /\ errors' \in {errors, errors + 1}
    BY <1>1 DEF ScanZone, Works, Fails, HsetLost
  <2>1. WritesAreConfirmed' /\ LangsInUse'
    BY <2>0 DEF LookupInv, WritesAreConfirmed, LangsInUse
  <2>2. CASE entry' = Hashed("false", TRUE) /\ scan' = "running" /\ UNCHANGED torn
    <3>1. entry' \in Entry /\ entry'.avail = "false"
      BY <1>0, <2>2, HashedFacts
    <3>2. AnswersExpire' /\ FreeWasConfirmed' /\ PendingIsFresh'
      BY <2>2, <3>1 DEF AnswersExpire, Pending, FreeWasConfirmed, PendingIsFresh
    <3>3. torn' \in BOOLEAN
      BY <1>0, <2>2, TornType
    <3>4. scan' \in Span
      BY <2>2 DEF Span
    <3> QED BY <1>0, <2>0, <2>1, <3>1, <3>2, <3>3, <3>4 DEF TypeOK, Kept
  <2>3. CASE UNCHANGED <<entry, torn, scan>>
    <3>1. AnswersExpire' /\ FreeWasConfirmed' /\ PendingIsFresh'
      BY <2>0, <2>3 DEF LookupInv, AnswersExpire, Pending, FreeWasConfirmed, Confirmed,
                        PendingIsFresh
    <3> QED BY <1>0, <2>0, <2>1, <2>3, <3>1 DEF TypeOK, Kept
  <2>4. CASE entry' = Expiring(ZoneTTL) /\ torn' = TRUE /\ UNCHANGED scan
    <3>1. entry' \in Entry /\ entry'.avail = entry.avail
      BY <1>0, <2>4, ExpiringFacts
    <3>2. AnswersExpire' /\ FreeWasConfirmed' /\ PendingIsFresh'
      BY <2>0, <2>4, <3>1 DEF LookupInv, AnswersExpire, FreeWasConfirmed, PendingIsFresh
    <3> QED BY <1>0, <2>0, <2>1, <2>4, <3>1, <3>2 DEF TypeOK, Kept
  <2> QED BY <1>1, <2>2, <2>3, <2>4 DEF ScanZone, HsetLost
<1>4. CASE ScanExpire
  <2>0. /\ UNCHANGED <<lookup, probe, reverse, sinceFree>> /\ errors' \in {errors, errors + 1}
        /\ scan # "no" /\ scan' = "no"
    BY <1>4 DEF ScanExpire, Expires, Works, Fails
  <2>1. WritesAreConfirmed' /\ LangsInUse'
    BY <2>0 DEF LookupInv, WritesAreConfirmed, LangsInUse
  <2>2. CASE entry' = Expiring(ZoneTTL) /\ torn' = FALSE
    <3>1. /\ entry' \in Entry /\ entry'.avail = entry.avail
          /\ entry'.avail # "none" => entry'.ttl = ZoneTTL
      BY <1>0, <2>2, ExpiringFacts
    <3>2. ASSUME entry'.avail = "true" PROVE Confirmed(entry.ttl, 1)'
      <4>1. sinceFree <= 2 /\ entry'.ttl = ZoneTTL
        BY <1>0, <2>0, <3>1, <3>2 DEF LookupInv, PendingIsFresh, Grace
      <4>2. sinceFree' + entry'.ttl <= AvailableTTL["go"] + 1
        BY <1>0, <2>0, <4>1
      <4> QED BY <1>0, <4>2 DEF Confirmed
    <3>3. AnswersExpire' /\ FreeWasConfirmed'
      BY <1>0, <3>1, <3>2 DEF AnswersExpire, FreeWasConfirmed
    <3>4. PendingIsFresh'
      BY <2>0, <3>1 DEF LookupInv, PendingIsFresh
    <3>5. torn' \in BOOLEAN
      BY <1>0, <2>2, TornType
    <3> QED BY <1>0, <2>0, <2>1, <3>1, <3>3, <3>4, <3>5 DEF TypeOK, Kept, Span
  <2>3. CASE UNCHANGED entry /\ torn' = TRUE
    <3>1. AnswersExpire' /\ FreeWasConfirmed' /\ PendingIsFresh'
      BY <2>0, <2>3 DEF LookupInv, AnswersExpire, FreeWasConfirmed, PendingIsFresh
    <3> QED BY <1>0, <2>0, <2>1, <2>3, <3>1 DEF TypeOK, Kept, Span
  <2> QED BY <1>4, <2>2, <2>3 DEF ScanExpire, Expires
<1>2. CASE ReverseRead
  <2>1. UNCHANGED <<entry, lookup, scan, torn, sinceFree>>
    BY <1>2 DEF ReverseRead
  <2>2. Kept
    BY <2>1, ExtraKeeps
  <2> QED BY <1>2, <2>2 DEF ReverseRead, LookupInv, TypeOK, Span
<1>3. CASE ReverseWrite
  <2>1. entry' \in Entry /\ Kept
    BY <1>3, ExtraKeeps DEF ReverseWrite
  <2> QED BY <1>3, <2>1 DEF ReverseWrite, LookupInv, TypeOK, Span
<1> QED BY <1>1, <1>2, <1>3, <1>4

(* Time passes: what is left shrinks by what sinceFree grows. *)
LEMMA TickKeeps ==
    ASSUME LookupAssumption, LookupInv, Tick
    PROVE  TypeOK' /\ Kept
<1>1. /\ entry \in Entry /\ lookup \in [Lookups -> Lookup] /\ probe \in [Lookups -> Span]
      /\ sinceFree \in 0..LongAgo /\ reverse \in Span /\ scan \in Span
  BY DEF LookupInv, TypeOK
<1>2. /\ sinceFree' \in 0..LongAgo /\ sinceFree' <= sinceFree + 1 /\ sinceFree \in Nat
      /\ sinceFree' \in Nat
  BY <1>1 DEF Tick, LookupAssumption
<1>3. \A lang \in Langs : AvailableTTL[lang] \in Nat
  BY DEF LookupAssumption
<1>5. /\ entry' \in Entry
      /\ entry'.avail # "none" => entry'.avail = entry.avail
      /\ entry'.avail # "none" /\ entry.ttl > 0 => entry'.ttl = entry.ttl - 1 /\ entry'.ttl > 0
      /\ entry'.avail # "none" /\ entry.ttl = 0 => entry'.ttl = 0
  <2>1. CASE entry.ttl = 1
    <3>1. entry' = NoEntry
      BY <2>1 DEF Tick
    <3> QED BY <3>1 DEF NoEntry, Entry, LookupAssumption
  <2>2. CASE entry.ttl # 1
    <3> DEFINE ttl == IF entry.ttl > 0 THEN entry.ttl - 1 ELSE 0
    <3> DEFINE age == IF entry.avail # "none" /\ entry.age <= Stale THEN entry.age + 1
                                                                  ELSE entry.age
    <3>1. entry' = [entry EXCEPT !.ttl = ttl, !.age = age]
      BY <2>2 DEF Tick
    <3>2. entry.ttl \in Nat /\ entry.age \in 0..(Stale + 1)
      BY <1>1 DEF Entry
    <3>3. /\ ttl \in Nat /\ (entry.ttl > 0 => ttl = entry.ttl - 1 /\ ttl > 0)
          /\ entry.ttl = 0 => ttl = 0
      BY <2>2, <3>2
    <3>4. age \in 0..(Stale + 1)
      BY <3>2 DEF LookupAssumption
    <3> HIDE DEF ttl, age
    <3>5. entry' \in Entry /\ entry'.avail = entry.avail /\ entry'.ttl = ttl
      BY <1>1, <3>1, <3>3, <3>4 DEF Entry
    <3> QED BY <3>3, <3>5
  <2> QED BY <2>1, <2>2
<1>7. /\ lookup' \in [Lookups -> Lookup]
      /\ \A l \in Lookups :
            /\ lookup'[l].pc = lookup[l].pc /\ lookup'[l].lang = lookup[l].lang
            /\ lookup'[l].ttl = lookup[l].ttl /\ lookup'[l].result = lookup[l].result
            /\ lookup[l].pc \in {"write", "expire"} => ~lookup[l].late /\ lookup'[l].late
  <2> DEFINE new(l) == IF lookup[l].pc \in {"idle", "done"} THEN lookup[l]
                       ELSE [lookup[l] EXCEPT !.late = TRUE]
  <2>1. lookup' = [l \in Lookups |-> new(l)]
    BY DEF Tick
  <2>2. ASSUME NEW l \in Lookups
        PROVE  /\ new(l) \in Lookup
               /\ new(l).pc = lookup[l].pc /\ new(l).lang = lookup[l].lang
               /\ new(l).ttl = lookup[l].ttl /\ new(l).result = lookup[l].result
               /\ lookup[l].pc \in {"write", "expire"} => new(l).late
    <3>1. lookup[l] \in Lookup
      BY <1>1
    <3> QED BY <3>1 DEF Lookup
  <2>3. \A l \in Lookups : ~lookup[l].late
    BY DEF Tick
  <2> HIDE DEF new
  <2> QED BY <2>1, <2>2, <2>3
<1>8. WritesAreConfirmed' /\ LangsInUse'
  <2>1. LangsInUse'
    BY <1>7 DEF LookupInv, LangsInUse
  <2>2. WritesAreConfirmed'
    BY <1>2, <1>7 DEF LookupInv, WritesAreConfirmed, Grace
  <2> QED BY <2>1, <2>2
<1>9. probe' \in [Lookups -> Span] /\ reverse' \in Span
  BY <1>1 DEF Tick, Later, Span
<1>10. scan' \in Span /\ (scan # "no" => scan # "late" /\ scan' = "late") /\ (scan = "no" => scan' = "no")
  BY <1>1 DEF Tick, Later, Span
<1>11. PendingIsFresh'
  BY <1>2, <1>5, <1>7, <1>10 DEF LookupInv, PendingIsFresh, Grace
<1>12. (Pending => Pending') /\ torn' = (torn /\ entry' # NoEntry)
  BY <1>7, <1>10 DEF Pending, Tick
<1>13. AnswersExpire'
  <2>1. NoEntry.avail = "none"
    BY DEF NoEntry
  <2> QED BY <2>1, <1>5, <1>12 DEF LookupInv, AnswersExpire
<1>14. FreeWasConfirmed'
  <2> SUFFICES ASSUME entry'.avail = "true", ~torn'
               PROVE  \/ Confirmed(entry.ttl, 1)'
                      \/ \E l \in Lookups : lookup'[l].pc = "expire" /\ lookup'[l].result.avail = "true"
    BY DEF FreeWasConfirmed
  <2>1. entry.avail = "true" /\ ~torn /\ entry.ttl \in Nat
    <3>1. NoEntry.avail = "none"
      BY DEF NoEntry
    <3> QED BY <3>1, <1>1, <1>5, <1>12 DEF Entry
  <2>2. CASE \E l \in Lookups : lookup[l].pc = "expire" /\ lookup[l].result.avail = "true"
    BY <2>2, <1>7
  <2>3. CASE Confirmed(entry.ttl, 1) /\ entry.ttl > 0
    <3>1. entry'.ttl = entry.ttl - 1
      BY <1>5, <2>1, <2>3
    <3>2. PICK lang \in Langs : sinceFree + entry.ttl <= AvailableTTL[lang] + 1
      BY <2>3 DEF Confirmed
    <3>3. sinceFree' + entry'.ttl <= AvailableTTL[lang] + 1
      BY <1>2, <1>3, <2>1, <3>1, <3>2
    <3> QED BY <3>3 DEF Confirmed
  <2>4. CASE entry.ttl = 0
    <3>1. Pending' /\ entry'.ttl = 0
      BY <1>5, <1>12, <2>1, <2>4 DEF LookupInv, AnswersExpire
    <3>2. sinceFree' <= 2
      BY <1>2, <1>11, <3>1 DEF PendingIsFresh, Pending, Grace
    <3>3. "go" \in Langs /\ 1 <= RegisteredTTL["go"] /\ RegisteredTTL["go"] < AvailableTTL["go"]
      BY DEF LookupAssumption, AllLangs
    <3>4. sinceFree' + entry'.ttl <= AvailableTTL["go"] + 1
      <4>1. AvailableTTL["go"] \in Nat /\ RegisteredTTL["go"] \in Nat
        BY DEF LookupAssumption, AllLangs
      <4> QED BY <4>1, <1>2, <3>1, <3>2, <3>3
    <3> QED BY <3>3, <3>4 DEF Confirmed
  <2>5. Confirmed(entry.ttl, 1)
        \/ \E l \in Lookups : lookup[l].pc = "expire" /\ lookup[l].result.avail = "true"
    BY <2>1 DEF LookupInv, FreeWasConfirmed
  <2> QED BY <2>1, <2>2, <2>3, <2>4, <2>5
<1> QED BY <1>2, <1>5, <1>7, <1>8, <1>9, <1>10, <1>11, <1>12, <1>13, <1>14
        DEF Kept, Tick, LookupInv, TypeOK

LEMMA StepKeeps ==
    ASSUME LookupAssumption, LookupInv, [Next]_vars
    PROVE  LookupInv'
<1>1. CASE \E l \in Lookups : Start(l) \/ LookupStep(l) \/ Probe(l)
  BY <1>1, StartKeeps, BrandKeeps, CacheKeeps, BloomKeeps, DNSKeeps, TOSKeeps, WhoisKeeps,
     WriteKeeps, HsetKeeps, ExpireKeeps, ProbeKeeps DEF LookupStep, LookupInv, Kept
<1>2. CASE ScanZone \/ ScanExpire \/ ReverseRead \/ ReverseWrite
  BY <1>2, ScannersKeep DEF LookupInv, Kept
<1>3. CASE Tick
  BY <1>3, TickKeeps DEF LookupInv, Kept
<1>4. CASE UNCHANGED vars
  BY <1>4 DEF vars, LookupInv, TypeOK, AnswersExpire, Pending, FreeWasConfirmed,
              WritesAreConfirmed, PendingIsFresh, LangsInUse, Confirmed
<1> QED BY <1>1, <1>2, <1>3, <1>4 DEF Next

LEMMA InitHolds ==
    ASSUME LookupAssumption, Init
    PROVE  LookupInv
<1>1. lookup \in [Lookups -> Lookup] /\ \A l \in Lookups : lookup[l].pc = "idle"
  BY IdleType DEF Init, IdleLookup
<1>2. entry \in Entry /\ entry.avail = "none"
  BY DEF Init, NoEntry, Entry, LookupAssumption
<1>3. torn \in BOOLEAN
  BY Zenon DEF Init
<1> QED BY <1>1, <1>2, <1>3 DEF Init, LookupInv, TypeOK, AnswersExpire, FreeWasConfirmed,
                          WritesAreConfirmed, PendingIsFresh, LangsInUse, Span, LookupAssumption

(* The inductive invariant of cache, lookups, probes and scanners.         *)
THEOREM LookupInvariant == Spec => []LookupInv
<1>1. Init => LookupInv
  BY LookupAssumption, InitHolds
<1>2. LookupInv /\ [Next]_vars => LookupInv'
  BY LookupAssumption, StepKeeps
<1> QED BY <1>1, <1>2, PTL DEF Spec

(* For any number of lookups and any times to live, an entry that holds an
   answer has a time to live whoever of the five writers comes last, unless
   the last pipeline on it was torn or a writer is between HSET and EXPIRE. *)
THEOREM EveryAnswerExpires == Spec => []AnswersExpire
<1>1. LookupInv => AnswersExpire
  BY DEF LookupInv
<1> QED BY <1>1, LookupInvariant, PTL

(* What the cache says of a free domain was said by its registry, at most a
   time to live ago, unless the last pipeline on the entry was torn.       *)
THEOREM EveryFreeAnswerWasConfirmed == Spec => []FreeWasConfirmed
<1>1. LookupInv => FreeWasConfirmed
  BY DEF LookupInv
<1> QED BY <1>1, LookupInvariant, PTL

(* A step that answers 'available' with high confidence is a hit on an entry
   that is not torn, or the end of a write.                                *)
LEMMA ConfidentStep ==
    ASSUME LookupAssumption, LookupInv, [Next]_vars, NEW l \in Lookups, AnswersConfidently(l)
    PROVE  Confirmed(0, 1)'
<1>0. TypeOK /\ sinceFree \in Nat /\ \A lang \in Langs : AvailableTTL[lang] \in Nat
  BY DEF LookupInv, TypeOK, LookupAssumption
<1>1. /\ lookup[l].pc # "done" /\ lookup'[l].pc = "done"
      /\ lookup'[l].result = [avail |-> "true", conf |-> "high"]
      /\ ~(torn /\ lookup[l].pc = "cache")
  BY DEF AnswersConfidently
<1>2. ASSUME NEW m \in Lookups, NEW avail \in {"none", "null", "true", "false"},
             NEW conf \in {"none", "low", "medium", "high"}, Answered(m, avail, conf)
      PROVE  m = l /\ avail = "true" /\ conf = "high"
  <2>1. /\ lookup'[m].result = [avail |-> avail, conf |-> conf]
        /\ \A n \in Lookups : n # m => lookup'[n] = lookup[n]
    BY <1>0, <1>2, AnsweredType
  <2> QED BY <2>1, <1>1
<1>3. ASSUME NEW m \in Lookups, NEW pc \in {"cache", "bloom", "dns", "tos", "whois", "expire"},
             LookupTo(m, pc)
      PROVE  FALSE
  <2>1. lookup'[m].pc = pc /\ \A n \in Lookups : n # m => lookup'[n] = lookup[n]
    BY <1>0, <1>3, MovedType
  <2> QED BY <2>1, <1>1
<1>4. ASSUME NEW m \in Lookups, NEW avail \in {"true", "false"}, NEW ttl \in Nat,
             NEW parked \in BOOLEAN, Found(m, avail, ttl, parked)
      PROVE  FALSE
  <2>1. lookup'[m].pc = "write" /\ \A n \in Lookups : n # m => lookup'[n] = lookup[n]
    BY <1>0, <1>4, FoundType
  <2> QED BY <2>1, <1>1
<1>5. \A lang \in AllLangs : AvailableTTL[lang] \in Nat /\ RegisteredTTL[lang] \in Nat
  BY DEF LookupAssumption
<1>6. ASSUME NEW m \in Lookups, Start(m) \/ Brand(m) \/ Bloom(m) \/ DNS(m) \/ TOS(m) \/ Whois(m)
                                \/ Probe(m)
      PROVE  FALSE
  <2>0. lookup[m].lang \in AllLangs /\ "go" \in AllLangs
    BY <1>0 DEF TypeOK, Lookup, AllLangs
  <2>1. CASE Start(m)
    <3>1. PICK lang \in Langs :
              lookup' = [lookup EXCEPT ![m] =
                           [IdleLookup EXCEPT !.pc = IF lang = "go" THEN "brand" ELSE "cache",
                                              !.lang = lang]]
      BY <2>1 DEF Start
    <3>2. lookup'[l].pc # "done" \/ lookup'[l] = lookup[l]
      BY <3>1, <1>0 DEF IdleLookup, TypeOK
    <3> QED BY <3>2, <1>1
  <2>2. CASE Brand(m)
    BY <2>2, <1>2, <1>3 DEF Brand
  <2>3. CASE Bloom(m)
    BY <2>3, <2>0, <1>3, <1>4, <1>5 DEF Bloom
  <2>4. CASE DNS(m)
    BY <2>4, <2>0, <1>2, <1>3, <1>4, <1>5 DEF DNS
  <2>5. CASE TOS(m)
    BY <2>5, <1>2, <1>3 DEF TOS
  <2>6. CASE Whois(m)
    <3>1. (IF lookup[m].lang = "go" THEN {RegisteredTTL["go"]} ELSE 1..ExpiryTTL) \subseteq Nat
      BY <2>0, <1>5 DEF LookupAssumption
    <3> QED BY <2>6, <3>1, <2>0, <1>2, <1>4, <1>5 DEF Whois
  <2>7. CASE Probe(m)
    BY <2>7, <1>1 DEF Probe
  <2> QED BY <1>6, <2>1, <2>2, <2>3, <2>4, <2>5, <2>6, <2>7
<1>7. ASSUME NEW m \in Lookups, Cache(m)
      PROVE  Confirmed(0, 1)'
  <2>1. Cached(m) /\ sinceFree' = sinceFree
    BY <1>3, <1>7 DEF Cache
  <2>2. entry \in Entry /\ Confidence(lookup[m].lang) \in {"none", "low", "medium", "high"}
    BY <1>0 DEF TypeOK, Confidence
  <2>3. entry.avail = "true"
    <3> DEFINE avail == IF entry.avail = "none" THEN "null" ELSE entry.avail
    <3> DEFINE conf == Confidence(lookup[m].lang)
    <3>1. avail \in {"none", "null", "true", "false"}
      BY <2>2 DEF Entry
    <3>2. conf \in {"none", "low", "medium", "high"}
      BY <2>2
    <3>3. Answered(m, avail, conf)
      BY <2>1 DEF Cached
    <3> HIDE DEF avail, conf
    <3>4. avail = "true"
      BY <3>1, <3>2, <3>3, <1>2
    <3> QED BY <3>4 DEF avail
  <2>4. lookup[m].pc = "cache" /\ m = l
    <3>1. lookup[m].pc = "cache"
      BY <1>7 DEF Cache
    <3>2. \A n \in Lookups : n # m => lookup'[n] = lookup[n]
      <4>1. /\ (IF entry.avail = "none" THEN "null" ELSE entry.avail) \in {"none", "null", "true", "false"}
            /\ TypeOK
        BY <1>0, <2>2 DEF Entry
      <4> QED BY <4>1, <2>1, <2>2, AnsweredType DEF Cached
    <3> QED BY <3>1, <3>2, <1>1
  <2>5. entry.ttl \in Nat /\ ~torn
    BY <2>2, <2>4, <1>1 DEF Entry
  <2>6. CASE Confirmed(entry.ttl, 1)
    BY <2>1, <2>5, <2>6, <1>0 DEF Confirmed
  <2>7. CASE \E n \in Lookups : lookup[n].pc = "expire" /\ lookup[n].result.avail = "true"
    <3>1. sinceFree <= 1 /\ "go" \in Langs
      BY <1>0, <2>7 DEF LookupInv, WritesAreConfirmed, Grace, LookupAssumption
    <3> QED BY <3>1, <2>1, <1>0 DEF Confirmed
  <2> QED BY <2>3, <2>5, <2>6, <2>7 DEF LookupInv, FreeWasConfirmed
<1>8. ASSUME NEW m \in Lookups, Write(m) \/ Hset(m) \/ Expire(m)
      PROVE  Confirmed(0, 1)'
  <2>1. CASE Returned(m) /\ lookup[m].pc \in {"write", "expire"} /\ sinceFree' = sinceFree
    <3>1. /\ lookup[m].result.avail \in {"none", "null", "true", "false"}
          /\ Answered(m, lookup[m].result.avail, "high")
      BY <2>1, PendingFacts DEF Returned
    <3>2. lookup[m].result.avail = "true"
      BY <3>1, <1>2
    <3>3. sinceFree <= 1 /\ "go" \in Langs
      BY <2>1, <3>2, PendingFacts DEF LookupAssumption
    <3> QED BY <2>1, <3>3, <1>0 DEF Confirmed
  <2>2. CASE LookupTo(m, "expire")
    BY <2>2, <1>3
  <2> QED BY <1>8, <2>1, <2>2 DEF Write, Hset, Expire
<1>9. lookup' # lookup
  BY <1>1
<1>10. ~Tick
  <2> SUFFICES ASSUME Tick PROVE FALSE
    OBVIOUS
  <2>1. lookup[l] \in Lookup
    BY <1>0 DEF TypeOK
  <2>2. lookup'[l] = IF lookup[l].pc \in {"idle", "done"} THEN lookup[l]
                     ELSE [lookup[l] EXCEPT !.late = TRUE]
    BY DEF Tick
  <2>3. lookup'[l].pc = lookup[l].pc
    BY <2>1, <2>2 DEF Lookup
  <2> QED BY <2>3, <1>1
<1> QED BY <1>6, <1>7, <1>8, <1>9, <1>10
        DEF Next, LookupStep, ScanZone, ScanExpire, ReverseRead, ReverseWrite, vars

(* No lookup says 'available' with high confidence unless the registry has
   said so, at most a time to live ago.                                    *)
THEOREM ConfidenceIsEarned == Spec => ConfidentAnswersAreConfirmed
<1>1. LookupInv /\ [Next]_vars =>
         [\A l \in Lookups : AnswersConfidently(l) => Confirmed(0, 1)']_vars
  BY LookupAssumption, ConfidentStep
<1> QED BY <1>1, LookupInvariant, PTL DEF Spec, ConfidentAnswersAreConfirmed
===============================================================================
