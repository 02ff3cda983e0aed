----------------------------- MODULE DomainLookup -----------------------------
(***************************************************************************)
(* The lookup of one domain and its cache entry dom:{domain}, which lookups*)
(* of both workers, their background sale probes, the zone-file scanner    *)
(* and the reverse-IP scanner write without knowing of each other.         *)
(*   "go"      cmd/worker/main.go, checkDomain                             *)
(*   "python"  backend/lookup.py, backend/domain_cache.py                  *)
(*   scanners  cmd/parking-scanner/main.go                                 *)
(* One action is one command that takes effect, or one transaction.  A tick*)
(* stands for a moment at which times to live run out: their order is kept,*)
(* their ratios are not.                                                   *)
(***************************************************************************)
EXTENDS Integers

CONSTANTS
    Lookups,
    Langs,           \* the implementations in use
    AvailableTTL,    \* of an available domain, by implementation (3 d; 5 min)
    RegisteredTTL,   \* of a registered one (6 h; 24 h)
    ExpiryTTL,       \* python: at most, with a known expiry date (7 d)
    ZoneTTL,         \* of a scanner's entry (25 h)
    Stale,           \* python: the age from which confidence is reduced (24 h)
    LongAgo,         \* bound on the ticks that are counted
    MaxErrors        \* bound on Valkey calls that fail

AllLangs == {"go", "python"}

ASSUME LookupAssumption ==
    /\ Langs \subseteq AllLangs
    /\ AvailableTTL \in [AllLangs -> Nat \ {0}]
    /\ RegisteredTTL \in [AllLangs -> Nat \ {0}]
    /\ ExpiryTTL \in Nat \ {0} /\ ZoneTTL \in Nat \ {0} /\ Stale \in Nat
    /\ "go" \in Langs
    /\ RegisteredTTL["go"] < AvailableTTL["go"] /\ ZoneTTL < AvailableTTL["go"]
    /\ LongAgo \in Nat /\ MaxErrors \in Nat

VARIABLES
    entry,       \* dom:{domain}
    lookup,      \* the lookups
    probe,       \* backgroundProbeForSale, by the lookup that started it
    scan,        \* whether scanZoneNS is between its HSET and its EXPIRE
    reverse,     \* whether reverseIPDiscovery is at work on this domain
    sinceFree,   \* ticks since the registry last said it was not registered
    errors,
    torn         \* history: the last pipeline on the entry lost one of its two
                 \* commands

vars == <<entry, lookup, probe, scan, reverse, sinceFree, errors, torn>>

(* The hash.  avail is "none" when the answer fields are not there: an entry
   that a probe or the reverse scanner made.  ttl = 0: no time to live.    *)
Entry == [avail : {"none", "true", "false"}, zone : BOOLEAN, extra : BOOLEAN,
          age : 0..(Stale + 1), ttl : Nat]
NoEntry == [avail |-> "none", zone |-> FALSE, extra |-> FALSE, age |-> 0, ttl |-> 0]

(* Work that takes seconds: at most one tick falls into it.                *)
Span == {"no", "running", "late"}
Later(span) == IF span = "no" THEN "no" ELSE "late"

(* HSET of for_sale, or of parked_by_ip, alone.                            *)
WithExtra == [entry EXCEPT !.extra = TRUE]

Result == [avail : {"none", "null", "true", "false"}, conf : {"none", "low", "medium", "high"}]
Lookup == [pc : {"idle", "brand", "cache", "bloom", "dns", "tos", "whois", "write", "expire",
                 "done"},
           lang : AllLangs, result : Result, ttl : Nat, parked : BOOLEAN, late : BOOLEAN]
Unasked == [avail |-> "none", conf |-> "none"]
IdleLookup == [pc |-> "idle", lang |-> "go", result |-> Unasked, ttl |-> 0,
               parked |-> FALSE, late |-> FALSE]

LookupTo(l, pc) == lookup' = [lookup EXCEPT ![l].pc = pc]

Answered(l, avail, conf) ==
    lookup' = [lookup EXCEPT ![l] =
                 [IdleLookup EXCEPT !.pc = "done",
                                    !.result = [avail |-> avail, conf |-> conf]]]

(* A high-confidence result is written before it is returned; parked: its
   nameservers belong to a parking service, which Go then has probed.      *)
Found(l, avail, ttl, parked) ==
    lookup' = [lookup EXCEPT ![l].pc = "write", ![l].ttl = ttl, ![l].parked = parked,
                             ![l].result = [avail |-> avail, conf |-> "high"]]

Fails == errors < MaxErrors /\ errors' = errors + 1
Works == UNCHANGED errors

-----------------------------------------------------------------------------
(* The lookup.                                                             *)

Start(l) ==
    /\ lookup[l].pc \in {"idle", "done"}
    /\ probe[l] = "no"
    /\ \E lang \in Langs :
          lookup' = [lookup EXCEPT ![l] =
                       [IdleLookup EXCEPT !.pc = IF lang = "go" THEN "brand" ELSE "cache",
                                          !.lang = lang]]
    /\ UNCHANGED <<entry, probe, scan, reverse, torn, sinceFree, errors>>

(* isBrandTLD: the TOS may name the TLD as a brand's; it fails open. *)
Brand(l) ==
    /\ lookup[l].pc = "brand"
    /\ \/ Works /\ (Answered(l, "null", "high") \/ LookupTo(l, "cache"))
       \/ Fails /\ LookupTo(l, "cache")
    /\ UNCHANGED <<entry, probe, scan, reverse, torn, sinceFree>>

(* checkCache, get_cached_domain: any field makes it a hit.  Only Python
   reduces the confidence of an old entry, and reads a missing confidence
   as medium.                                                              *)
Confidence(lang) ==
    LET c == IF entry.avail # "none" THEN "high" ELSE IF lang = "go" THEN "none" ELSE "medium"
    IN  IF lang = "python" /\ entry.age > Stale
        THEN IF c = "high" THEN "medium" ELSE "low"
        ELSE c
Cached(l) == Answered(l, IF entry.avail = "none" THEN "null" ELSE entry.avail,
                      Confidence(lookup[l].lang))

(* Variant: a hit keeps the entry alive. *)
CacheSliding(l) ==
    /\ lookup[l].pc = "cache"
    /\ \/ Works /\ IF entry # NoEntry THEN Cached(l) ELSE LookupTo(l, "bloom")
       \/ Fails /\ LookupTo(l, "bloom")
    /\ entry' = IF entry.avail # "none" THEN [entry EXCEPT !.ttl = ExpiryTTL] ELSE entry
    /\ UNCHANGED <<probe, scan, reverse, torn, sinceFree>>

Cache(l) ==
    /\ lookup[l].pc = "cache"
    /\ \/ Works /\ IF entry # NoEntry THEN Cached(l) ELSE LookupTo(l, "bloom")
       \/ Fails /\ LookupTo(l, "bloom")
    /\ UNCHANGED <<entry, probe, scan, reverse, torn, sinceFree>>

(* checkBloom.  A hit may be a false positive, and a miss a domain that the
   filter lost or that the other language wrote (ZoneBloom).  In Python the
   hit ends in the TypeError of cache_domain(ttl=), which is swallowed, so
   the lookup goes on to DNS as after a miss.                              *)
Bloom(l) ==
    /\ lookup[l].pc = "bloom"
    /\ \/ /\ Works /\ lookup[l].lang = "go"
          /\ \E parked \in BOOLEAN : Found(l, "false", RegisteredTTL["go"], parked)
       \/ (Works \/ Fails) /\ LookupTo(l, "dns")
    /\ UNCHANGED <<entry, probe, scan, reverse, torn, sinceFree>>

(* checkDNS, check_domain_dns.  What the resolver says may lag behind the
   registry either way.                                                    *)
DNS(l) ==
    /\ lookup[l].pc = "dns"
    /\ \/ \E parked \in BOOLEAN : Found(l, "false", RegisteredTTL[lookup[l].lang], parked)
       \/ Answered(l, "null", "low")
       \/ LookupTo(l, IF lookup[l].lang = "go" THEN "tos" ELSE "whois")
    /\ UNCHANGED <<entry, probe, scan, reverse, torn, sinceFree, errors>>

(* isTLDCovered: the TOS may not name the registry as covered; it fails open. *)
TOS(l) ==
    /\ lookup[l].pc = "tos"
    /\ \/ Works /\ (Answered(l, "true", "medium") \/ LookupTo(l, "whois"))
       \/ Fails /\ LookupTo(l, "whois")
    /\ UNCHANGED <<entry, probe, scan, reverse, torn, sinceFree>>

(* Variant: NXDOMAIN alone is good enough for the cache. *)
WhoisTrusting(l) ==
    /\ lookup[l].pc = "whois"
    /\ \/ sinceFree' = 0 /\ Found(l, "true", AvailableTTL[lookup[l].lang], FALSE)
       \/ Found(l, "false", RegisteredTTL[lookup[l].lang], FALSE) /\ UNCHANGED sinceFree
       \/ Found(l, "true", AvailableTTL[lookup[l].lang], FALSE) /\ UNCHANGED sinceFree
    /\ UNCHANGED <<entry, probe, scan, reverse, torn, errors>>

(* checkWHOIS, check_domain_whois: the registry does not know the domain, or
   answers without an expiry date, which the code takes for the same; it
   knows it (domains are registered and deleted all the time); or there is no
   answer (rate limited, time out, error), which leaves what DNS said, and,
   in Python for a TLD whose WHOIS is disabled, not even that.             *)
Whois(l) ==
    /\ lookup[l].pc = "whois"
    /\ \/ sinceFree' = 0 /\ Found(l, "true", AvailableTTL[lookup[l].lang], FALSE)
       \/ /\ UNCHANGED sinceFree
          /\ \E ttl \in IF lookup[l].lang = "go" THEN {RegisteredTTL["go"]} ELSE 1..ExpiryTTL :
                Found(l, "false", ttl, FALSE)
       \/ UNCHANGED sinceFree /\ Answered(l, "true", "medium")
       \/ lookup[l].lang = "python" /\ UNCHANGED sinceFree
          /\ (Answered(l, "true", "low") \/ Answered(l, "null", "low"))
    /\ UNCHANGED <<entry, probe, scan, reverse, torn, errors>>

(* The answer's fields.  Those that are not in the mapping stay. *)
Hashed(avail, zone) == [entry EXCEPT !.avail = avail, !.zone = zone, !.age = 0]

(* EXPIRE sets the time to live of a key that is there. *)
Expiring(ttl) == IF entry = NoEntry THEN NoEntry ELSE [entry EXCEPT !.ttl = ttl]

(* Variant: HSET without EXPIRE. *)
StoredForGood(l) == Hashed(lookup[l].result.avail, FALSE)

(* cache_domain: HSET and EXPIRE in one transaction. *)
Stored(l) == [Hashed(lookup[l].result.avail, FALSE) EXCEPT !.ttl = lookup[l].ttl]

(* The result goes to the caller; Go probes the parked domain meanwhile.   *)
Returned(l) ==
    /\ Answered(l, lookup[l].result.avail, "high")
    /\ probe' = [probe EXCEPT ![l] = IF lookup[l].parked /\ lookup[l].lang = "go"
                                     THEN "running" ELSE "no"]

Write(l) ==
    /\ lookup[l].pc = "write" /\ lookup[l].lang = "python"
    /\ \/ Works /\ entry' = Stored(l) /\ torn' = FALSE
       \/ Fails /\ UNCHANGED <<entry, torn>>
    /\ Returned(l)
    /\ UNCHANGED <<scan, reverse, sinceFree>>

(* A pipeline of two commands is no transaction and its error is dropped:
   HSET and EXPIRE are steps of their own, and when HSET is lost, EXPIRE is
   lost too or gives an older entry more time.                             *)
HsetLost(ttl) ==
    /\ Fails
    /\ \/ UNCHANGED <<entry, torn>>
       \/ entry # NoEntry /\ entry' = Expiring(ttl) /\ torn' = TRUE

Expires(ttl) ==
    \/ Works /\ entry' = Expiring(ttl) /\ torn' = FALSE
    \/ Fails /\ UNCHANGED entry /\ torn' = TRUE

(* writeCacheResult. *)
Hset(l) ==
    /\ lookup[l].pc = "write" /\ lookup[l].lang = "go"
    /\ \/ /\ Works /\ entry' = Hashed(lookup[l].result.avail, FALSE)
          /\ LookupTo(l, "expire") /\ UNCHANGED <<torn, probe>>
       \/ HsetLost(lookup[l].ttl) /\ Returned(l)
    /\ UNCHANGED <<scan, reverse, sinceFree>>

Expire(l) ==
    /\ lookup[l].pc = "expire"
    /\ Expires(lookup[l].ttl)
    /\ Returned(l)
    /\ UNCHANGED <<scan, reverse, sinceFree>>

(* backgroundProbeForSale: no answer, or HSET whatever has become of the
   entry.                                                                  *)
Probe(l) ==
    /\ probe[l] # "no"
    /\ probe' = [probe EXCEPT ![l] = "no"]
    /\ entry' \in {entry, WithExtra}
    /\ UNCHANGED <<lookup, scan, reverse, torn, sinceFree, errors>>

-----------------------------------------------------------------------------
(* The scanners.                                                           *)

(* scanZoneNS, for a domain on parking or marketplace nameservers in a zone
   file of whatever age: the two commands of its batch.                    *)
ScanZone ==
    /\ scan = "no"
    /\ \/ Works /\ entry' = Hashed("false", TRUE) /\ scan' = "running" /\ UNCHANGED torn
       \/ HsetLost(ZoneTTL) /\ UNCHANGED scan
    /\ UNCHANGED <<lookup, probe, reverse, sinceFree>>

ScanExpire ==
    /\ scan # "no"
    /\ scan' = "no"
    /\ Expires(ZoneTTL)
    /\ UNCHANGED <<lookup, probe, reverse, sinceFree>>

(* reverseIPDiscovery reads original_source, resolves the name, and writes. *)
ReverseRead ==
    /\ reverse = "no" /\ entry.zone
    /\ reverse' = "running"
    /\ UNCHANGED <<entry, lookup, probe, scan, torn, sinceFree, errors>>

ReverseWrite ==
    /\ reverse # "no"
    /\ reverse' = "no"
    /\ entry' \in {entry, WithExtra}
    /\ UNCHANGED <<lookup, probe, scan, torn, sinceFree, errors>>

-----------------------------------------------------------------------------
(* Valkey.                                                                 *)

(* Times to live run out.  A lookup, a probe or a resolution takes seconds
   and the shortest time to live is minutes, so at most one such moment
   falls into one of them.                                                 *)
Tick ==
    /\ \A l \in Lookups : ~lookup[l].late /\ probe[l] # "late"
    /\ reverse # "late" /\ scan # "late"
    /\ entry' = IF entry.ttl = 1 THEN NoEntry
                ELSE [entry EXCEPT !.ttl = IF @ > 0 THEN @ - 1 ELSE 0,
                                   !.age = IF entry.avail # "none" /\ @ <= Stale THEN @ + 1 ELSE @]
    /\ sinceFree' = IF sinceFree < LongAgo THEN sinceFree + 1 ELSE sinceFree
    /\ lookup' = [l \in Lookups |-> IF lookup[l].pc \in {"idle", "done"} THEN lookup[l]
                                    ELSE [lookup[l] EXCEPT !.late = TRUE]]
    /\ probe' = [l \in Lookups |-> Later(probe[l])]
    /\ reverse' = Later(reverse) /\ scan' = Later(scan)
    /\ torn' = (torn /\ entry' # NoEntry)
    /\ UNCHANGED errors

Init ==
    /\ entry = NoEntry
    /\ lookup = [l \in Lookups |-> IdleLookup]
    /\ probe = [l \in Lookups |-> "no"]
    /\ scan = "no" /\ reverse = "no"
    /\ sinceFree = LongAgo
    /\ errors = 0
    /\ torn = FALSE

LookupStep(l) ==
    \/ Brand(l) \/ Cache(l) \/ Bloom(l) \/ DNS(l) \/ TOS(l) \/ Whois(l)
    \/ Write(l) \/ Hset(l) \/ Expire(l)

Next ==
    \/ \E l \in Lookups : Start(l) \/ LookupStep(l) \/ Probe(l)
    \/ ScanZone \/ ScanExpire \/ ReverseRead \/ ReverseWrite
    \/ Tick

Spec == Init /\ [][Next]_vars

-----------------------------------------------------------------------------
(* Properties.                                                             *)

(* Types of the variables. *)
TypeOK ==
    /\ entry \in Entry
    /\ lookup \in [Lookups -> Lookup]
    /\ probe \in [Lookups -> Span]
    /\ scan \in Span /\ reverse \in Span
    /\ sinceFree \in 0..LongAgo
    /\ errors \in Nat /\ torn \in BOOLEAN

(* Somebody is between its HSET and its EXPIRE. *)
Pending == scan # "no" \/ \E l \in Lookups : lookup[l].pc = "expire"

(* Five writers add fields to the hash and three of them set a time to live,
   two of these in a second command that may be delayed, overtaken or lost.
   An entry that answers has a time to live unless the last pipeline on it
   was torn or one is not through: no order of complete pipelines, late
   probes, scans and expiries leaves an answer for good.                   *)
AnswersExpire == entry.avail # "none" => entry.ttl > 0 \/ torn \/ Pending

(* Some implementation's time to live for 'available' covers what is left. *)
Confirmed(left, grace) ==
    \E lang \in Langs : sinceFree + left <= AvailableTTL[lang] + grace

(* The cache never says 'available' for longer than the time to live after
   the registry itself has said so: no writer's EXPIRE on another's answer
   and no reader extends it, and neither NXDOMAIN nor a rate-limited lookup
   gets into it.  Left out are an entry whose last pipeline was torn and the
   moment between the HSET of 'available' and its EXPIRE.                  *)
FreeWasConfirmed ==
    entry.avail = "true" /\ ~torn =>
        \/ Confirmed(entry.ttl, 1)
        \/ \E l \in Lookups : lookup[l].pc = "expire" /\ lookup[l].result.avail = "true"

Grace(late) == IF late THEN 1 ELSE 0

(* A pending write of 'available' is fresh: the registry said so during this
   lookup.  How long it is to be kept follows from the answer.             *)
WritesAreConfirmed ==
    \A l \in Lookups : lookup[l].pc \in {"write", "expire"} =>
        /\ lookup[l].ttl > 0
        /\ lookup[l].result.avail \in {"true", "false"}
        /\ lookup[l].result.avail = "true" =>
              sinceFree <= Grace(lookup[l].late) /\ lookup[l].ttl = AvailableTTL[lookup[l].lang]
        /\ lookup[l].result.avail = "false" /\ lookup[l].lang = "go" =>
              lookup[l].ttl = RegisteredTTL["go"]
        /\ lookup[l].pc = "expire" => lookup[l].lang = "go"

(* 'available' under somebody's EXPIRE was written after its HSET, by a lookup
   that is or was as fresh.                                                *)
PendingIsFresh ==
    entry.avail = "true" =>
        /\ \A l \in Lookups : lookup[l].pc = "expire" => sinceFree <= 1 + Grace(lookup[l].late)
        /\ scan # "no" => sinceFree <= 1 + Grace(scan = "late")

LangsInUse ==
    \A l \in Lookups : lookup[l].pc \notin {"idle", "done"} => lookup[l].lang \in Langs

(* The inductive invariant of the proofs (DomainLookupProofs). *)
LookupInv == /\ TypeOK /\ AnswersExpire /\ FreeWasConfirmed
             /\ WritesAreConfirmed /\ PendingIsFresh /\ LangsInUse

(* A lookup that answers 'available' with high confidence, from the cache or
   not, passes on what the registry said at most that long ago, unless it
   hits an entry whose last pipeline was torn.                             *)
AnswersConfidently(l) ==
    /\ lookup[l].pc # "done" /\ lookup'[l].pc = "done"
    /\ lookup'[l].result = [avail |-> "true", conf |-> "high"]
    /\ ~(torn /\ lookup[l].pc = "cache")
ConfidentAnswersAreConfirmed ==
    [][\A l \in Lookups : AnswersConfidently(l) => Confirmed(0, 1)']_vars

(* backend/domain_cache.py:4-9: "Stores aggregated DNS + WHOIS results as
   hashes keyed by dom:{domain}.  TTL strategy: ...", a time to live for each
   kind of result and "DNS errors: not cached".  What is cached expires.   *)
WhatIsCachedExpires == entry # NoEntry => entry.ttl > 0 \/ Pending
=============================================================================
