--------------------------- MODULE ZoneBloomProofs ---------------------------
(* Proofs about ZoneBloom, for any hash, word, byte order, sizes, names, and
   any number of builders and readers.                                     *)
EXTENDS ZoneBloom, TLAPS

(* A position is a natural number. *)
LEMMA PositionNat ==
    ASSUME NEW lang \in AllLangs, NEW n \in Names, NEW size \in Sizes, NEW i \in Hashes
    PROVE  Position(lang, n, size, i) \in Nat
<1> DEFINE w == Words(lang, n)
<1>1. /\ w[1] \in Nat /\ w[2] \in Nat /\ i \in Nat
      /\ Word \in Nat \ {0} /\ size \in Nat \ {0}
  <2>0. Word \in Nat \ {0} /\ Reverse \in [0..(Word - 1) -> 0..(Word - 1)]
    BY BloomAssumption
  <2>1. \A v \in 0..(Word - 1) : v \in Nat /\ Reverse[v] \in 0..(Word - 1)
    BY <2>0
  <2>2. Hash[n][1] \in 0..(Word - 1) /\ Hash[n][2] \in 0..(Word - 1)
    BY BloomAssumption
  <2>3. QED
    BY <2>1, <2>2, BloomAssumption DEF Words, Hashes
<1> HIDE DEF w
<1>2. ASSUME NEW a \in Nat, NEW b \in Nat \ {0} PROVE a % b \in Nat
  BY <1>2
<1>3. ASSUME NEW a \in Nat, NEW b \in Nat, NEW c \in Nat PROVE a + b * c \in Nat
  BY <1>3
<1>4. w[1] + i * w[2] \in Nat
  BY <1>1, <1>3
<1>5. (w[1] + i * w[2]) % Word \in Nat
  BY <1>1, <1>2, <1>4
<1>6. QED
  BY <1>1, <1>2, <1>4, <1>5 DEF Position, w

LEMMA BitmapNat ==
    ASSUME NEW lang \in AllLangs, NEW names \in SUBSET Names, NEW size \in Sizes
    PROVE  Bitmap(lang, names, size) \in SUBSET Nat
  BY PositionNat DEF Bitmap

LEMMA NoFilterHolds == NoFilter \in Filter /\ Holds(NoFilter)
  BY DEF NoFilter, Filter, Holds, AllLangs

LEMMA InitInv == Init => BloomInv
<1> SUFFICES ASSUME Init PROVE BloomInv
  OBVIOUS
<1>1. PICK n \in Names : reader = [r \in Readers |-> NewReader(n)]
  BY DEF Init
<1>2. NewReader(n) \in Reader /\ NewReader(n).pc = "idle"
  BY BloomAssumption DEF NewReader, Reader, AllLangs
<1>3. TypeOK
  BY <1>1, <1>2, NoFilterHolds, BloomAssumption DEF Init, TypeOK, IdleBuilder
<1>4. \A r \in Readers : SteadyReader(r) /\ (reader[r].pc = "probe" => reader[r].done < NumHashes)
  BY <1>1, <1>2 DEF SteadyReader
<1>5. QED
  BY <1>3, <1>4, NoFilterHolds DEF Init, BloomInv, IdleBuilder

-----------------------------------------------------------------------------
(* The parts of the invariant that a step of a builder can disturb. *)
BuilderPart ==
    /\ builder \in [Builders -> [pc : {"idle", "clear", "upload", "verify", "rename", "meta"},
                                 filter : Filter]]
    /\ \A b \in Builders : Holds(builder[b].filter)
ReaderPart ==
    /\ reader \in [Readers -> Reader]
    /\ \A r \in Readers : /\ SteadyReader(r)
                          /\ reader[r].pc = "probe" => reader[r].done < NumHashes

LEMMA GoOn ==
    ASSUME BloomInv, NEW b \in Builders,
           BuilderIdle(b) \/ \E pc \in {"upload", "verify", "rename", "meta"} : BuilderTo(b, pc)
    PROVE  BuilderPart'
<1>1. CASE BuilderIdle(b)
  BY <1>1, NoFilterHolds DEF BuilderIdle, IdleBuilder, BuilderPart, BloomInv, TypeOK
<1>2. ASSUME NEW pc \in {"upload", "verify", "rename", "meta"}, BuilderTo(b, pc)
      PROVE  BuilderPart'
  <2>1. builder' = [builder EXCEPT ![b] = [builder[b] EXCEPT !.pc = pc]]
    BY <1>2 DEF BuilderTo, BloomInv, TypeOK
  <2>2. [builder[b] EXCEPT !.pc = pc].filter = builder[b].filter
    BY DEF BloomInv, TypeOK
  <2>3. QED
    BY <2>1, <2>2 DEF BuilderPart, BloomInv, TypeOK
<1>3. QED
  BY <1>1, <1>2

(* Readers that nothing happened to. *)
LEMMA Undisturbed ==
    ASSUME BloomInv, UNCHANGED <<live, reader>>
    PROVE  ReaderPart'
  BY DEF BloomInv, TypeOK, ReaderPart, SteadyReader, Fits

(* A reader that is steady after a swap was so before it. *)
LEMMA SwappedReaders ==
    ASSUME BloomInv, reader' = Swapped, live' = staging
    PROVE  ReaderPart'
<1>1. ASSUME NEW r \in Readers
      PROVE  /\ reader'[r] \in Reader /\ reader'[r].steady = (reader[r].steady /\ Fits(reader[r], staging))
             /\ reader'[r].pc = reader[r].pc /\ reader'[r].done = reader[r].done /\ reader'[r].hit = reader[r].hit
             /\ reader'[r].name = reader[r].name /\ reader'[r].size = reader[r].size
             /\ reader'[r].lang = reader[r].lang
  <2>1. PICK t \in BOOLEAN : t = (reader[r].steady /\ Fits(reader[r], staging))
    BY DEF BloomInv, TypeOK, Reader, Fits
  <2>2. reader'[r] = [reader[r] EXCEPT !.steady = t]
    BY <2>1 DEF Swapped
  <2>3. reader[r] \in Reader
    BY DEF BloomInv, TypeOK
  <2>4. QED
    BY <2>1, <2>2, <2>3 DEF Reader
<1>2. reader' \in [Readers -> Reader]
  BY <1>1 DEF Swapped
<1>3. ASSUME NEW r \in Readers PROVE SteadyReader(r)' /\ (reader'[r].pc = "probe" => reader'[r].done < NumHashes)
  <2>1. Fits(reader[r], staging) => Fits(reader'[r], live')
    BY <1>1 DEF Fits
  <2>2. SteadyReader(r) /\ (reader[r].pc = "probe" => reader[r].done < NumHashes)
    BY DEF BloomInv
  <2>3. QED
    BY <1>1, <2>1, <2>2 DEF SteadyReader
<1>4. QED
  BY <1>2, <1>3 DEF ReaderPart

LEMMA BuildKeeps ==
    ASSUME BloomInv, NEW b \in Builders, NEW zone \in SUBSET Names, Build(b, zone)
    PROVE  BloomInv'
<1>1. PICK lang \in Langs, size \in Sizes :
        builder' = [builder EXCEPT ![b] =
                      [pc |-> "clear",
                       filter |-> [bits |-> Bitmap(lang, zone, size), names |-> zone,
                                   size |-> size, lang |-> lang]]]
  BY DEF Build
<1> DEFINE f == [bits |-> Bitmap(lang, zone, size), names |-> zone, size |-> size, lang |-> lang]
<1>2. f \in Filter /\ Holds(f)
  <2>1. lang \in AllLangs /\ size \in Nat \ {0}
    BY BloomAssumption
  <2>2. f.bits \in SUBSET Nat
    BY <2>1, BitmapNat
  <2>3. QED
    BY <2>1, <2>2 DEF Filter, Holds
<1> HIDE DEF f
<1>3. builder' = [builder EXCEPT ![b] = [pc |-> "clear", filter |-> f]]
  BY <1>1 DEF f
<1>4. BuilderPart'
  BY <1>2, <1>3 DEF BuilderPart, BloomInv, TypeOK
<1>5. ReaderPart'
  BY Undisturbed DEF Build
<1>6. QED
  BY <1>4, <1>5 DEF Build, BuilderPart, ReaderPart, BloomInv, TypeOK

LEMMA BuilderKeeps ==
    ASSUME BloomInv, NEW b \in Builders, BuilderStep(b) \/ Crash(b)
    PROVE  BloomInv'
<1>1. builder[b].filter \in Filter /\ Holds(builder[b].filter)
  BY DEF BloomInv, TypeOK
<1>2. CASE Clear(b)
  <2>1. BuilderPart' /\ ReaderPart'
    BY <1>2, GoOn, Undisturbed DEF Clear
  <2>2. QED
    BY <1>2, <2>1, NoFilterHolds DEF Clear, BuilderPart, ReaderPart, BloomInv, TypeOK
<1>3. CASE Upload(b)
  <2>1. BuilderPart' /\ ReaderPart'
    BY <1>3, GoOn, Undisturbed DEF Upload
  <2>2. QED
    BY <1>1, <1>3, <2>1 DEF Upload, BuilderPart, ReaderPart, BloomInv, TypeOK
<1>4. CASE Verify(b)
  <2>1. BuilderPart' /\ ReaderPart'
    BY <1>4, GoOn, Undisturbed DEF Verify
  <2>2. staging' \in {staging, NoFilter}
    BY <1>4 DEF Verify
  <2>3. QED
    BY <1>4, <2>1, <2>2, NoFilterHolds DEF Verify, BuilderPart, ReaderPart, BloomInv, TypeOK
<1>5. CASE Rename(b)
  <2>1. BuilderPart'
    BY <1>5, GoOn DEF Rename
  <2>2. CASE staging = NoFilter
    <3>1. UNCHANGED <<live, staging, reader, meta, crashes>>
      BY <1>5, <2>2 DEF Rename
    <3>2. QED
      BY <2>1, <3>1, Undisturbed DEF BuilderPart, ReaderPart, BloomInv, TypeOK
  <2>3. CASE staging # NoFilter
    <3>1. live' = staging /\ staging' = NoFilter /\ reader' = Swapped /\ UNCHANGED <<meta, crashes>>
      BY <1>5, <2>3 DEF Rename
    <3>2. QED
      BY <2>1, <3>1, SwappedReaders, NoFilterHolds
      DEF BuilderPart, ReaderPart, BloomInv, TypeOK
  <2>4. QED
    BY <2>2, <2>3
<1>6. CASE WriteMeta(b)
  <2>1. BuilderPart' /\ ReaderPart'
    BY <1>6, GoOn, Undisturbed DEF WriteMeta
  <2>2. builder[b].filter.size \in Sizes \cup {0}
    BY <1>1 DEF Filter
  <2>3. QED
    BY <1>6, <2>1, <2>2 DEF WriteMeta, BuilderPart, ReaderPart, BloomInv, TypeOK
<1>7. CASE Crash(b)
  <2>1. BuilderPart' /\ ReaderPart'
    BY <1>7, GoOn, Undisturbed DEF Crash
  <2>2. crashes' \in Nat
    BY <1>7 DEF Crash, BloomInv, TypeOK
  <2>3. QED
    BY <1>7, <2>1, <2>2 DEF Crash, BuilderPart, ReaderPart, BloomInv, TypeOK
<1>8. QED
  BY <1>2, <1>3, <1>4, <1>5, <1>6, <1>7 DEF BuilderStep

-----------------------------------------------------------------------------
LEMMA AskKeeps ==
    ASSUME BloomInv, NEW r \in Readers, NEW n \in Names, Ask(r, n)
    PROVE  BloomInv'
<1>0. PICK lang \in Langs :
        LET a == [NewReader(n) EXCEPT !.pc = "probe", !.lang = lang, !.size = meta]
        IN  reader' = [reader EXCEPT ![r] = [a EXCEPT !.steady = Fits(a, live)]]
  BY DEF Ask
<1>1. PICK p, q :
        /\ p = [NewReader(n) EXCEPT !.pc = "probe", !.lang = lang, !.size = meta]
        /\ q = [p EXCEPT !.steady = Fits(p, live)]
        /\ reader' = [reader EXCEPT ![r] = q]
  BY <1>0
<1>2. p \in Reader /\ p.pc = "probe" /\ p.done = 0 /\ p.hit = TRUE
  <2>1. lang \in AllLangs /\ "go" \in AllLangs /\ 0 \in 0..NumHashes /\ meta \in Sizes \cup {0}
    BY BloomAssumption DEF AllLangs, BloomInv, TypeOK
  <2>2. QED
    BY <1>1, <2>1 DEF Reader, NewReader
<1>3. /\ q.pc = "probe" /\ q.done = 0 /\ q.hit = TRUE
      /\ q.steady = Fits(p, live) /\ q.size = p.size /\ q.lang = p.lang /\ q.name = p.name
  BY <1>1, <1>2 DEF Reader
<1>4. q \in Reader
  <2>1. Fits(p, live) \in BOOLEAN
    BY DEF Fits
  <2>2. QED
    BY <1>1, <1>2, <2>1 DEF Reader
<1>5. \A s \in Readers : SteadyReader(s)' /\ (reader'[s].pc = "probe" => reader'[s].done < NumHashes)
  <2> SUFFICES ASSUME NEW s \in Readers
               PROVE  SteadyReader(s)' /\ (reader'[s].pc = "probe" => reader'[s].done < NumHashes)
    OBVIOUS
  <2>1. CASE s = r
    <3>1. reader'[s] = q
      BY <1>1, <2>1 DEF BloomInv, TypeOK
    <3>2. NumHashes > 0 /\ live' = live
      BY BloomAssumption DEF Ask
    <3>3. QED
      BY <1>3, <3>1, <3>2 DEF SteadyReader, Fits
  <2>2. CASE s # r
    <3>1. reader'[s] = reader[s] /\ live' = live
      BY <1>1, <2>2 DEF Ask, BloomInv, TypeOK
    <3>2. QED
      BY <3>1 DEF SteadyReader, BloomInv
  <2>3. QED
    BY <2>1, <2>2
<1>6. QED
  BY <1>1, <1>4, <1>5 DEF Ask, BloomInv, TypeOK

(* The next bit of a name that went in is set. *)
LEMMA NextBitSet ==
    ASSUME BloomInv, NEW r \in Readers, reader[r].pc = "probe", Fits(reader[r], live)
    PROVE  Position(reader[r].lang, reader[r].name, reader[r].size, reader[r].done) \in live.bits
<1>1. reader[r].done \in Hashes
  <2>1. NumHashes \in Nat /\ reader[r] \in Reader /\ reader[r].done < NumHashes
    BY BloomAssumption DEF BloomInv, TypeOK
  <2>2. QED
    BY <2>1 DEF Reader, Hashes
<1>2. Bitmap(live.lang, live.names, live.size) \subseteq live.bits
  BY DEF BloomInv, Holds, Fits
<1>3. QED
  BY <1>1, <1>2 DEF Bitmap, Fits

LEMMA ProbeKeeps ==
    ASSUME BloomInv, NEW r \in Readers, Probe(r)
    PROVE  BloomInv'
<1> DEFINE bit == Position(reader[r].lang, reader[r].name, reader[r].size, reader[r].done)
<1>0. reader[r] \in Reader /\ reader[r].pc = "probe" /\ NumHashes \in Nat \ {0}
  BY BloomAssumption DEF Probe, BloomInv, TypeOK
<1>1. PICK q : /\ q = [reader[r] EXCEPT
                         !.done = @ + 1,
                         !.hit = IF bit \in live.bits THEN @ ELSE FALSE,
                         !.pc = IF reader[r].done + 1 = NumHashes THEN "done" ELSE "probe"]
               /\ reader' = [reader EXCEPT ![r] = q]
  BY DEF Probe
<1>2. reader[r].done \in 0..NumHashes /\ reader[r].done < NumHashes
  BY <1>0 DEF BloomInv, Reader
<1>3. /\ q.done = reader[r].done + 1 /\ q.name = reader[r].name /\ q.lang = reader[r].lang
      /\ q.size = reader[r].size /\ q.steady = reader[r].steady
      /\ q.pc = IF reader[r].done + 1 = NumHashes THEN "done" ELSE "probe"
      /\ q.hit = IF bit \in live.bits THEN reader[r].hit ELSE FALSE
  BY <1>0, <1>1 DEF Reader
<1>4. q \in Reader
  <2>1. reader[r].done + 1 \in 0..NumHashes
    BY <1>0, <1>2
  <2>2. q.hit \in BOOLEAN
    BY <1>0, <1>3 DEF Reader
  <2>3. QED
    BY <1>0, <1>1, <1>3, <2>1, <2>2 DEF Reader
<1>5. q.pc = "probe" => q.done < NumHashes
  BY <1>0, <1>2, <1>3
<1>6. ASSUME q.steady PROVE Fits(q, live) /\ q.hit
  <2>1. Fits(reader[r], live) /\ reader[r].hit
    BY <1>0, <1>3, <1>6 DEF BloomInv, SteadyReader
  <2>2. bit \in live.bits
    BY <1>0, <2>1, NextBitSet
  <2>3. QED
    BY <1>3, <2>1, <2>2 DEF Fits
<1>7. \A s \in Readers : SteadyReader(s)' /\ (reader'[s].pc = "probe" => reader'[s].done < NumHashes)
  <2> SUFFICES ASSUME NEW s \in Readers
               PROVE  SteadyReader(s)' /\ (reader'[s].pc = "probe" => reader'[s].done < NumHashes)
    OBVIOUS
  <2>0. live' = live
    BY DEF Probe
  <2>1. CASE s = r
    <3>1. reader'[s] = q
      BY <1>1, <2>1 DEF BloomInv, TypeOK
    <3>2. QED
      BY <1>5, <1>6, <2>0, <3>1 DEF SteadyReader
  <2>2. CASE s # r
    <3>1. reader'[s] = reader[s]
      BY <1>1, <2>2 DEF BloomInv, TypeOK
    <3>2. QED
      BY <2>0, <3>1 DEF SteadyReader, BloomInv
  <2>3. QED
    BY <2>1, <2>2
<1>8. reader' \in [Readers -> Reader]
  BY <1>1, <1>4 DEF BloomInv, TypeOK
<1>9. QED
  BY <1>7, <1>8 DEF Probe, BloomInv, TypeOK

-----------------------------------------------------------------------------
LEMMA NextInv == BloomInv /\ [Next]_vars => BloomInv'
<1> SUFFICES ASSUME BloomInv, [Next]_vars PROVE BloomInv'
  OBVIOUS
<1>1. ASSUME NEW b \in Builders, NEW zone \in SUBSET Names, Build(b, zone) PROVE BloomInv'
  BY <1>1, BuildKeeps
<1>2. ASSUME NEW b \in Builders, BuilderStep(b) \/ Crash(b) PROVE BloomInv'
  BY <1>2, BuilderKeeps
<1>3. ASSUME NEW r \in Readers, NEW n \in Names, Ask(r, n) PROVE BloomInv'
  BY <1>3, AskKeeps
<1>4. ASSUME NEW r \in Readers, Probe(r) PROVE BloomInv'
  BY <1>4, ProbeKeeps
<1>5. CASE UNCHANGED vars
  BY <1>5 DEF vars, BloomInv, TypeOK, SteadyReader, Fits
<1>6. QED
  BY <1>1, <1>2, <1>3, <1>4, <1>5 DEF Next

(* The inductive invariant: bitmaps hold their names' bits, and what a steady
   reader asks for is in the live filter and not missed so far.            *)
THEOREM BloomInvariant == Spec => []BloomInv
<1>1. QED
  BY InitInv, NextInv, PTL DEF Spec

(* SwapLosesNothing of ZoneBloom: a name that is held, in the reader's size
   and language, by every filter that goes live while it is looked for is
   found, whatever builds and swaps there are, failed ones included.       *)
THEOREM NothingIsMissed == Spec => []SwapLosesNothing
<1>1. BloomInv => SwapLosesNothing
  BY DEF BloomInv, SteadyReader, SwapLosesNothing
<1>2. QED
  BY <1>1, BloomInvariant, PTL

-----------------------------------------------------------------------------
(* What the readers do, and a build that has not reached the staging key,
   leave what is staged and live alone.                                    *)
LEMMA StagedStep ==
    ASSUME OneBuilder, TypeOK, StagedInv, [Next]_vars
    PROVE  StagedInv'
<1>0. builder \in [Builders -> [pc : {"idle", "clear", "upload", "verify", "rename", "meta"},
                               filter : Filter]]
  BY DEF TypeOK
<1>1. ASSUME UNCHANGED <<live, staging>>, NEW b \in Builders, NEW c,
             builder' = [builder EXCEPT ![b] = c],
             c.pc \in {"verify", "rename"} => staging = c.filter,
             c.pc = "rename" => Verified(c.filter)
      PROVE  StagedInv'
  BY <1>0, <1>1 DEF StagedInv, LiveIsVerified, Verified
<1>2. ASSUME NEW b \in Builders, NEW pc, BuilderTo(b, pc)
      PROVE  \E c : builder' = [builder EXCEPT ![b] = c] /\ c.pc = pc /\ c.filter = builder[b].filter
  <2> DEFINE c == [builder[b] EXCEPT !.pc = pc]
  <2>1. builder' = [builder EXCEPT ![b] = c] /\ c.pc = pc /\ c.filter = builder[b].filter
    BY <1>0, <1>2 DEF BuilderTo
  <2> HIDE DEF c
  <2> QED BY <2>1
<1>3. ASSUME NEW b \in Builders, UNCHANGED live, NEW c, builder' = [builder EXCEPT ![b] = c],
             c.pc \in {"verify", "rename"} => staging' = c.filter,
             c.pc = "rename" => Verified(c.filter)
      PROVE  StagedInv'
  <2>1. \A d \in Builders : d = b
    BY DEF OneBuilder
  <2> QED BY <1>0, <1>3, <2>1 DEF StagedInv, LiveIsVerified, Verified
<1>4. ASSUME NEW b \in Builders, NEW zone \in SUBSET Names, Build(b, zone) PROVE StagedInv'
  <2>1. PICK f : builder' = [builder EXCEPT ![b] = [pc |-> "clear", filter |-> f]]
    BY <1>4 DEF Build
  <2>2. PICK c : c = [pc |-> "clear", filter |-> f]
    OBVIOUS
  <2> QED BY <1>1, <1>4, <2>1, <2>2 DEF Build
<1>5. ASSUME NEW b \in Builders, Clear(b) PROVE StagedInv'
  BY <1>2, <1>3, <1>5 DEF Clear
<1>6. ASSUME NEW b \in Builders, Upload(b) PROVE StagedInv'
  BY <1>2, <1>3, <1>6 DEF Upload
<1>7. ASSUME NEW b \in Builders, BuilderIdle(b), UNCHANGED live PROVE StagedInv'
  BY <1>3, <1>7 DEF BuilderIdle, IdleBuilder
<1>8. ASSUME NEW b \in Builders, Verify(b) PROVE StagedInv'
  <2>1. staging = builder[b].filter
    BY <1>8 DEF Verify, StagedInv
  <2>2. CASE BuilderTo(b, "rename") /\ UNCHANGED staging
    <3>1. Verified(builder[b].filter)
      BY <1>8, <2>1, <2>2, <1>0 DEF Verify, Verified, BuilderTo, BuilderIdle, IdleBuilder
    <3> QED BY <1>2, <1>3, <1>8, <2>1, <2>2, <3>1 DEF Verify
  <2>3. CASE BuilderIdle(b)
    BY <1>7, <1>8, <2>3 DEF Verify
  <2> QED BY <1>8, <2>2, <2>3 DEF Verify
<1>9. ASSUME NEW b \in Builders, Rename(b) PROVE StagedInv'
  <2>1. CASE staging = NoFilter
    BY <1>7, <1>9, <2>1 DEF Rename
  <2>2. CASE staging # NoFilter
    <3>1. live' = builder[b].filter /\ Verified(builder[b].filter)
      BY <1>9, <2>2 DEF Rename, StagedInv
    <3>2. \A d \in Builders : builder'[d].pc = "meta"
      BY <1>0, <1>9, <2>2 DEF Rename, BuilderTo, OneBuilder
    <3> QED BY <3>1, <3>2 DEF StagedInv, LiveIsVerified, Verified
  <2> QED BY <2>1, <2>2
<1>10. ASSUME NEW b \in Builders, WriteMeta(b) \/ Crash(b) PROVE StagedInv'
  BY <1>7, <1>10 DEF WriteMeta, Crash
<1>11. ASSUME UNCHANGED <<live, staging, builder>> PROVE StagedInv'
  BY <1>11 DEF StagedInv, LiveIsVerified, Verified
<1>12. ASSUME NEW r \in Readers, (\E n \in Names : Ask(r, n)) \/ Probe(r) PROVE StagedInv'
  BY <1>11, <1>12 DEF Ask, Probe
<1>13. CASE UNCHANGED vars
  BY <1>11, <1>13 DEF vars
<1> QED
  BY <1>4, <1>5, <1>6, <1>8, <1>9, <1>10, <1>12, <1>13 DEF Next, BuilderStep

(* LiveIsVerified of ZoneBloom, for one builder, however often it dies: the
   known names are in the live filter, as the upload that was verified is the
   one that is renamed.                                                    *)
THEOREM OnlyVerifiedGoesLive == OneBuilder => (Spec => []LiveIsVerified)
<1> SUFFICES ASSUME OneBuilder PROVE Spec => []LiveIsVerified
  OBVIOUS
<1>1. Init => StagedInv
  BY DEF Init, StagedInv, LiveIsVerified, IdleBuilder
<1>2. TypeOK /\ StagedInv /\ [Next]_vars => StagedInv'
  BY StagedStep
<1>3. BloomInv => TypeOK
  BY DEF BloomInv
<1>4. StagedInv => LiveIsVerified
  BY DEF StagedInv
<1> QED BY <1>1, <1>2, <1>3, <1>4, BloomInvariant, PTL DEF Spec
=============================================================================
