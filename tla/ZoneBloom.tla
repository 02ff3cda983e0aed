------------------------------ MODULE ZoneBloom ------------------------------
(***************************************************************************)
(* The bloom filter of one TLD's zone file: builders make a bitmap in      *)
(* memory, upload it under a staging key, verify it, rename it to the live *)
(* key and write its size to a second key; readers read the size, then one *)
(* bit per hash function.                                                  *)
(*   builders  backend/zone_bloom.py ("python"), cmd/bloom-builder ("go")  *)
(*   readers   backend/zone_bloom.py ("python"), cmd/worker ("go")         *)
(* Each Valkey command is an action: none of the pipelines used here is a  *)
(* transaction.                                                            *)
(***************************************************************************)
EXTENDS Integers, FiniteSets

CONSTANTS
    Names,      \* second-level names
    Known,      \* the names a builder verifies
    Hash,       \* xxh3_128 of each name, as its low and its high word
    Word,       \* 2^64
    Reverse,    \* a word with its bytes in the other order
    NumHashes,
    Sizes,      \* filter sizes; which one depends on the size of the zone file
    Builders, Readers,
    Langs,      \* the implementations in use
    MaxCrashes  \* bound on the builds that end half-way

AllLangs == {"go", "python"}

ASSUME BloomAssumption ==
    /\ Known \subseteq Names
    /\ Word \in Nat \ {0}
    /\ Hash \in [Names -> (0..(Word - 1)) \X (0..(Word - 1))]
    /\ Reverse \in [0..(Word - 1) -> 0..(Word - 1)]
    /\ NumHashes \in Nat \ {0}
    /\ Sizes \subseteq Nat \ {0}
    /\ Langs \subseteq AllLangs
    /\ MaxCrashes \in Nat

VARIABLES
    live,     \* zone:bloom:{tld}
    staging,  \* zone:bloom:{tld}:staging
    meta,     \* filter_size of zone:meta:{tld}, 0 without one
    builder,
    reader,
    crashes

vars == <<live, staging, meta, builder, reader, crashes>>

(* A bitmap, with what is known of it only here: the names that were put in,
   the size that was meant and who made it.  A missing key reads as zeros. *)
Filter == [bits : SUBSET Nat, names : SUBSET Names, size : Sizes \cup {0}, lang : AllLangs]
NoFilter == [bits |-> {}, names |-> {}, size |-> 0, lang |-> "go"]

(* Go takes the low word and the high one.  Python reads the digest, which
   has the high word first and its bytes from the high end, as two words of
   the other byte order.                                                   *)
Words(lang, n) ==
    IF lang = "go" THEN Hash[n] ELSE <<Reverse[Hash[n][2]], Reverse[Hash[n][1]]>>

(* The bit of the i-th hash function.  Go's uint64 sum wraps round before
   the remainder is taken; Python's integers do not.                       *)
Position(lang, n, size, i) ==
    LET sum == Words(lang, n)[1] + i * Words(lang, n)[2]
    IN  (IF lang = "go" THEN sum % Word ELSE sum) % size

Hashes == 0..(NumHashes - 1)

Bitmap(lang, names, size) == {Position(lang, n, size, i) : n \in names, i \in Hashes}

-----------------------------------------------------------------------------
(* Builders.                                                               *)

IdleBuilder == [pc |-> "idle", filter |-> NoFilter]
BuilderTo(b, pc) == builder' = [builder EXCEPT ![b].pc = pc]
BuilderIdle(b) == builder' = [builder EXCEPT ![b] = IdleBuilder]

(* The bitmap of a zone file, in memory.  A zone file that cannot be read is
   as if the build had not begun.                                          *)
Build(b, zone) ==
    /\ builder[b].pc = "idle"
    /\ \E lang \in Langs, size \in Sizes :
          builder' = [builder EXCEPT ![b] =
                        [pc |-> "clear",
                         filter |-> [bits |-> Bitmap(lang, zone, size), names |-> zone,
                                     size |-> size, lang |-> lang]]]
    /\ UNCHANGED <<live, staging, meta, reader, crashes>>

(* Variant: the live key is deleted, and the new filter put in its place. *)
ClearLive(b) ==
    /\ builder[b].pc = "clear"
    /\ live' = NoFilter /\ staging' = NoFilter
    /\ BuilderTo(b, "upload")
    /\ UNCHANGED <<meta, reader, crashes>>

Clear(b) ==
    /\ builder[b].pc = "clear"
    /\ staging' = NoFilter
    /\ BuilderTo(b, "upload")
    /\ UNCHANGED <<live, meta, reader, crashes>>

Upload(b) ==
    /\ builder[b].pc = "upload"
    /\ staging' = builder[b].filter
    /\ BuilderTo(b, "verify")
    /\ UNCHANGED <<live, meta, reader, crashes>>

(* Variant: a name that is not found is only logged. *)
VerifyLogs(b) ==
    /\ builder[b].pc = "verify"
    /\ BuilderTo(b, "rename")
    /\ UNCHANGED <<live, staging, meta, reader, crashes>>

(* The Go builder looks at its own bitmap and leaves the staging key where it
   is when a name is missing; the Python builder looks at the staging key
   and deletes it.                                                         *)
Verify(b) ==
    LET f == builder[b].filter
        seen == IF f.lang = "go" THEN f.bits ELSE staging.bits
    IN  /\ builder[b].pc = "verify"
        /\ IF Bitmap(f.lang, Known, f.size) \subseteq seen
           THEN BuilderTo(b, "rename") /\ UNCHANGED staging
           ELSE /\ BuilderIdle(b)
                /\ staging' = IF f.lang = "go" THEN staging ELSE NoFilter
        /\ UNCHANGED <<live, meta, reader, crashes>>

(* What a reader asks for is in the filter as the reader looks for it. *)
Fits(q, f) == q.size = f.size /\ q.lang = f.lang /\ q.name \in f.names

(* A reader that has begun goes on in the new filter. *)
Swapped == [r \in Readers |-> [reader[r] EXCEPT !.steady = @ /\ Fits(reader[r], staging)]]

(* RENAME replaces the live key in one step; it fails without a source.    *)
Rename(b) ==
    /\ builder[b].pc = "rename"
    /\ IF staging = NoFilter
       THEN BuilderIdle(b) /\ UNCHANGED <<live, staging, reader>>
       ELSE /\ live' = staging
            /\ staging' = NoFilter
            /\ reader' = Swapped
            /\ BuilderTo(b, "meta")
    /\ UNCHANGED <<meta, crashes>>

(* Variant: the size is written when there is none yet. *)
WriteMetaOnce(b) ==
    /\ builder[b].pc = "meta"
    /\ meta' = IF meta = 0 THEN builder[b].filter.size ELSE meta
    /\ BuilderIdle(b)
    /\ UNCHANGED <<live, staging, reader, crashes>>

WriteMeta(b) ==
    /\ builder[b].pc = "meta"
    /\ meta' = builder[b].filter.size
    /\ BuilderIdle(b)
    /\ UNCHANGED <<live, staging, reader, crashes>>

(* The builder dies, or a command of its fails. *)
Crash(b) ==
    /\ builder[b].pc # "idle"
    /\ crashes < MaxCrashes
    /\ crashes' = crashes + 1
    /\ BuilderIdle(b)
    /\ UNCHANGED <<live, staging, meta, reader>>

-----------------------------------------------------------------------------
(* Readers: checkBloom and check_domain_bloom.                             *)

(* done: how many bits have been read; hit: whether all of them were set;
   steady: whether every filter that was live since held the name, in the
   size that was read and in the reader's language.                        *)
Reader == [pc : {"idle", "probe", "done"}, name : Names, lang : AllLangs,
           size : Sizes \cup {0}, done : 0..NumHashes, hit : BOOLEAN, steady : BOOLEAN]
NewReader(n) == [pc |-> "idle", name |-> n, lang |-> "go", size |-> 0, done |-> 0,
                 hit |-> TRUE, steady |-> FALSE]

(* Without a size the TLD is not indexed: the caller goes on to DNS.       *)
Ask(r, n) ==
    /\ reader[r].pc # "probe"
    /\ meta # 0
    /\ \E lang \in Langs :
          LET q == [NewReader(n) EXCEPT !.pc = "probe", !.lang = lang, !.size = meta]
          IN  reader' = [reader EXCEPT ![r] = [q EXCEPT !.steady = Fits(q, live)]]
    /\ UNCHANGED <<live, staging, meta, builder, crashes>>

(* GETBIT of the next hash function; after the last one comes the answer.  *)
Probe(r) ==
    LET q == reader[r]
        bit == Position(q.lang, q.name, q.size, q.done)
    IN  /\ q.pc = "probe"
        /\ reader' = [reader EXCEPT ![r] =
                        [q EXCEPT !.done = @ + 1,
                                  !.hit = IF bit \in live.bits THEN @ ELSE FALSE,
                                  !.pc = IF q.done + 1 = NumHashes THEN "done" ELSE "probe"]]
        /\ UNCHANGED <<live, staging, meta, builder, crashes>>

-----------------------------------------------------------------------------
Init ==
    /\ live = NoFilter
    /\ staging = NoFilter
    /\ meta = 0
    /\ builder = [b \in Builders |-> IdleBuilder]
    /\ \E n \in Names : reader = [r \in Readers |-> NewReader(n)]
    /\ crashes = 0

BuilderStep(b) == Clear(b) \/ Upload(b) \/ Verify(b) \/ Rename(b) \/ WriteMeta(b)

Next ==
    \/ \E b \in Builders :
          (\E zone \in SUBSET Names : Build(b, zone)) \/ BuilderStep(b) \/ Crash(b)
    \/ \E r \in Readers : (\E n \in Names : Ask(r, n)) \/ Probe(r)

(* A build that has begun goes on, and the timer comes again with a zone file
   that has the names the builder verifies.                                *)
Fairness ==
    \A b \in Builders :
        /\ WF_vars(BuilderStep(b))
        /\ SF_vars(\E zone \in SUBSET Names : Known \subseteq zone /\ Build(b, zone))

Spec == Init /\ [][Next]_vars
FairSpec == Spec /\ Fairness

-----------------------------------------------------------------------------
(* Properties.                                                             *)

(* Types of the variables. *)
TypeOK ==
    /\ live \in Filter
    /\ staging \in Filter
    /\ meta \in Sizes \cup {0}
    /\ builder \in [Builders -> [pc : {"idle", "clear", "upload", "verify", "rename", "meta"},
                                 filter : Filter]]
    /\ reader \in [Readers -> Reader]
    /\ crashes \in Nat

(* A swap in the middle of a read loses no name that the filters on both its
   sides hold in the size and the language the reader goes by: its bits are
   read from two bitmaps, and are set in both.  A reader whose size is not
   that of the live filter, or whose language is not its builder's, may miss
   any name.                                                               *)
SwapLosesNothing ==
    \A r \in Readers : reader[r].pc = "done" /\ reader[r].steady => reader[r].hit

Verified(f) == Bitmap(f.lang, Known, f.size) \subseteq f.bits

(* With one builder, no filter goes live that lacks a name the builder knows,
   nor one that a build which failed or died has left under the staging key.
   A zone file that was cut short after those names is not noticed, and a TLD
   without such names has nothing verified.                                *)
LiveIsVerified == live # NoFilter => Verified(live)

(* A swap that stopped half-way does not stay: a later build puts the size
   right.                                                                  *)
MetaCatchesUp == [](meta # live.size => <>(meta = live.size))

-----------------------------------------------------------------------------
(* The inductive invariant of the proofs (ZoneBloomProofs).                *)

(* A bitmap holds the bits of the names that went in. *)
Holds(f) ==
    f.names # {} => f.size # 0 /\ Bitmap(f.lang, f.names, f.size) \subseteq f.bits

(* A steady reader's name is in the live filter, and not missed so far. *)
SteadyReader(r) ==
    reader[r].pc # "idle" /\ reader[r].steady => Fits(reader[r], live) /\ reader[r].hit

(* With one builder, nobody touches the staging key between its upload and
   its rename, and it is verified before it is renamed.                    *)
OneBuilder == \A b, c \in Builders : b = c
StagedInv ==
    /\ LiveIsVerified
    /\ \A b \in Builders :
          /\ builder[b].pc \in {"verify", "rename"} => staging = builder[b].filter
          /\ builder[b].pc = "rename" => Verified(builder[b].filter)

BloomInv ==
    /\ TypeOK
    /\ Holds(live) /\ Holds(staging)
    /\ \A b \in Builders : Holds(builder[b].filter)
    /\ \A r \in Readers : /\ SteadyReader(r)
                          /\ reader[r].pc = "probe" => reader[r].done < NumHashes
=============================================================================
