-------------------------- MODULE IntegrityAnalyser --------------------------
(***************************************************************************)
(* WinevtIntegrity::analyse: one pass over the chunks of a file and the    *)
(* records of each, then the checks that compare them, then the report     *)
(* without repetitions, the worst first.                                   *)
(*                                                                         *)
(* A records area is `Area` units of four bytes: a record magic is one     *)
(* unit, a record header six, the copy of the size one. What stands at a   *)
(* magic is a claim. A checksum is its verdict. The file is a sequence of  *)
(* places of a chunk's size (how the scan finds them is ChunkScan's        *)
(* subject); only the last may be cut off.                                 *)
(***************************************************************************)
EXTENDS Ordering, FiniteSetsExt

CONSTANTS
  Area,      \* units of the records area
  Wrap,      \* record ids are below Wrap, 2^64 in the code
  MinTicks   \* MIN_NS_PER_MISSING_RECORD

ASSUME AnalyserAssumption == Area \in Nat /\ Wrap \in Nat \ {0} /\ MinTicks \in Nat

HeaderUnits == 6   \* a record header
MinRecord   == 7   \* 28 bytes: a header and the copy of the size

IsClaim(x) == x.size \in Nat /\ x.id \in 0 .. Wrap - 1 /\ x.time \in Nat

\* Parsing refuses a chunk whose free space begins behind its end.
IsPlace(c) ==
  /\ {c.magic, c.whole, c.parses, c.headerOk, c.areaOk} \subseteq BOOLEAN
  /\ c.free \in Int /\ c.free <= Area
  /\ DOMAIN c.claims \subseteq 0 .. Area - 1 /\ \A p \in DOMAIN c.claims : IsClaim(c.claims[p])
  /\ {c.first, c.last, c.lastId} \subseteq 0 .. Wrap - 1

IsFile(x) ==
  /\ {x.long, x.header, x.sumOk, x.dirty, x.full} \subseteq BOOLEAN
  /\ x.count \in Nat /\ x.next \in 0 .. Wrap - 1
  /\ IsSequence(x.places)
  /\ \A k \in DOMAIN x.places : IsPlace(x.places[k])

VARIABLES
  file,    \* the input
  pc,      \* "header", "chunks", "records", "cross", "rank" or "done"
  i,       \* the place looked at
  pos,     \* position in the records area of its chunk
  recs,    \* rec_pairs: the records met in this chunk
  all,     \* all_records_export and all_records_phantom
  chunks,  \* the places of the chunks whose header was read
  out      \* the anomalies

vars == <<file, pc, i, pos, recs, all, chunks, out>>

Chunk == file.places[i]

-----------------------------------------------------------------------------
(* Anomalies and their severity.                                           *)

Critical == {"deletion"}
High == {"header checksum", "area checksum", "file checksum", "guid", "next id", "gap", "count",
         "length", "truncated", "phantom"}
Medium == {"time", "export", "dirty", "full", "empty"}

Anomaly(k, w) == [kind |-> k, what |-> w]

\* One anomaly if the condition does not hold.
Unless(cond, k, w) == IF cond THEN <<>> ELSE <<Anomaly(k, w)>>

Map(s, F(_)) == [k \in DOMAIN s |-> F(s[k])]

Windows(s) == [k \in 1 .. Len(s) - 1 |-> <<s[k], s[k + 1]>>]

-----------------------------------------------------------------------------
(* The file header.                                                        *)

TooShort ==
  /\ pc = "header" /\ ~file.long
  /\ out' = <<Anomaly("truncated", <<>>)>>
  /\ pc' = "done"
  /\ UNCHANGED <<file, i, pos, recs, all, chunks>>

ReadHeader ==
  /\ pc = "header" /\ file.long
  /\ out' = IF ~file.header THEN <<>>
            ELSE Unless(file.sumOk, "file checksum", <<>>)
                 \o Unless(~file.dirty, "dirty", <<>>)
                 \o Unless(~file.full, "full", <<>>)
                 \o Unless(file.count # 0, "empty", <<>>)
  /\ pc' = "chunks"
  /\ UNCHANGED <<file, i, pos, recs, all, chunks>>

-----------------------------------------------------------------------------
(* The chunks. `free` counts from the beginning of the area.               *)

More == pc = "chunks" /\ i <= Len(file.places)

\* check_chunk_data_length: parsing refused what is too large.
LengthChecked(c) == Unless(c.free >= 0, "length", c.free)

\* The record at `p` is one that a walk goes over.
Readable(c, p) ==
  /\ p \in DOMAIN c.claims
  /\ c.claims[p].size >= MinRecord
  /\ p + c.claims[p].size <= c.free

\* Mutant: the end of the body is taken for that of the next record's magic.
GhostsToNext(c, p) == { q \in DOMAIN c.claims : p + HeaderUnits <= q /\ q <= p + c.claims[p].size }

\* The magics within the body of the record at `p`.
Ghosts(c, p) == { q \in DOMAIN c.claims : p + HeaderUnits <= q /\ q < p + c.claims[p].size - 1 }

Deletion(c, n, p) ==
  Anomaly("deletion", <<n, c.claims[p].id, c.claims[p].size, Min(Ghosts(c, p))>>)

\* The records that a walk from each position on goes over.
VisitedFrom(c) ==
  LET from[p \in 0 .. Area] == IF Readable(c, p) THEN {p} \cup from[p + c.claims[p].size] ELSE {}
  IN from

Visited(c) == VisitedFrom(c)[0]

\* detect_danderspritz_deletion.
Deletions(c, n) == Map(Ascending({ p \in Visited(c) : Ghosts(c, p) # {} }), LAMBDA p : Deletion(c, n, p))

NoRecords == <<>>

PassOver ==
  /\ More /\ (~Chunk.magic \/ (Chunk.whole /\ ~Chunk.parses))
  /\ i' = i + 1
  /\ UNCHANGED <<file, pc, pos, recs, all, chunks, out>>

CutOff ==
  /\ More /\ Chunk.magic /\ ~Chunk.whole
  /\ out' = out \o (IF Chunk.parses THEN LengthChecked(Chunk) ELSE <<>>)
  /\ pc' = "cross"
  /\ UNCHANGED <<file, i, pos, recs, all, chunks>>

ReadChunk ==
  /\ More /\ Chunk.magic /\ Chunk.whole /\ Chunk.parses
  /\ out' = out \o Unless(Chunk.headerOk, "header checksum", i)
                \o Unless(Chunk.free < 0 \/ Chunk.areaOk, "area checksum", i)
                \o LengthChecked(Chunk)
                \o Deletions(Chunk, i)
  /\ pos' = 0 /\ recs' = NoRecords
  /\ pc' = "records"
  /\ UNCHANGED <<file, i, all, chunks>>

ReadRecord ==
  /\ pc = "records" /\ Readable(Chunk, pos)
  /\ LET r == [chunk |-> i, pos |-> pos, id |-> Chunk.claims[pos].id, time |-> Chunk.claims[pos].time]
     IN recs' = Append(recs, r) /\ all' = Append(all, r)
  /\ pos' = pos + Chunk.claims[pos].size
  /\ UNCHANGED <<file, pc, i, chunks, out>>

\* Mutant: equal times are an anomaly, too.
BackwardsOrEqual(a, b) == b.time <= a.time

\* check_timestamp_monotonicity: each record is compared with the one before.
Backwards(a, b) == b.time < a.time

TimesChecked(rs) ==
  LET back == { k \in 1 .. Len(rs) - 1 : Backwards(rs[k], rs[k + 1]) }
      Alarm(w) == Anomaly("time", <<w[2].chunk, w[2].id, w[1].time, w[2].time>>)
  IN Map(Only(Windows(rs), back), Alarm)

EndOfRecords ==
  /\ pc = "records" /\ ~Readable(Chunk, pos)
  /\ out' = out \o TimesChecked(recs)
  /\ chunks' = Append(chunks, i)
  /\ i' = i + 1 /\ pc' = "chunks"
  /\ UNCHANGED <<file, pos, recs, all>>

EndOfFile ==
  /\ pc = "chunks" /\ i > Len(file.places)
  /\ pc' = "cross"
  /\ UNCHANGED <<file, i, pos, recs, all, chunks, out>>

-----------------------------------------------------------------------------
(* The checks that compare chunks, and all the records.                    *)

Read == Map(chunks, LAMBDA n : file.places[n])

\* detect_record_id_gaps. The sum wraps as it does in a release build.
GapsChecked ==
  LET gap == { k \in 1 .. Len(Read) - 1 : Read[k + 1].first # (Read[k].last + 1) % Wrap }
      Alarm(w) == Anomaly("gap", <<(w[1].last + 1) % Wrap, w[2].first>>)
  IN Map(Only(Windows(Read), gap), Alarm)

HighestId == Max({0} \cup { file.places[chunks[k]].lastId : k \in DOMAIN chunks })

HeaderChecked ==
  IF ~file.header THEN <<>>
  ELSE Unless(file.next > HighestId, "next id", <<file.next, HighestId>>)
       \o Unless(file.count = Len(chunks), "count", <<file.count, Len(chunks)>>)

\* check_log_file_guid_consistency: all are compared with the first.
GuidsChecked ==
  LET other == { k \in 1 .. Len(Read) : Read[k].guid # Read[1].guid }
      Alarm(k) == Anomaly("guid", <<k, Read[k].guid>>)
  IN Map(Ascending(other), Alarm)

\* detect_export_timestamp_corruption.
ExportChecked ==
  LET zero == { k \in 1 .. Len(all) : all[k].time = 0 }
      Alarm(r) == Anomaly("export", <<r.chunk, r.id>>)
  IN Map(Only(all, zero), Alarm)

\* sort_by_key is stable.
SortedById(rs) == SortedBy(rs, [k \in 1 .. Len(rs) |-> rs[k].id])

\* detect_phantom_records. The number of ids missing wraps for equal ids, as
\* in a release build, and is read as a signed number.
Missing(a, b) ==
  LET n == (b.id - a.id - 1) % Wrap IN IF 2 * n >= Wrap THEN n - Wrap ELSE n

Suspicious(a, b) ==
  \/ b.time <= a.time
  \/ Missing(a, b) < 0
  \/ (b.time - a.time) \div Missing(a, b) < MinTicks

Phantom(a, b) == Missing(a, b) # 0 /\ Suspicious(a, b)

PhantomsChecked ==
  LET rs  == SortedById(all)
      bad == { k \in 1 .. Len(rs) - 1 : Phantom(rs[k], rs[k + 1]) }
      Alarm(w) == Anomaly("phantom", <<(w[1].id + 1) % Wrap, (w[2].id - 1) % Wrap, w[1].time, w[2].time>>)
  IN Map(Only(Windows(rs), bad), Alarm)

CrossChecks ==
  /\ pc = "cross"
  /\ out' = out \o GapsChecked \o HeaderChecked \o GuidsChecked \o ExportChecked \o PhantomsChecked
  /\ pc' = "rank"
  /\ UNCHANGED <<file, i, pos, recs, all, chunks>>

Same(a, b) == a.kind = b.kind /\ a.what = b.what

\* The first of equal anomalies is kept; the sort by severity is stable.
Distinct(s) == Only(s, { k \in 1 .. Len(s) : \A j \in 1 .. k - 1 : ~Same(s[j], s[k]) })

Of(s, kinds) == Only(s, { k \in 1 .. Len(s) : s[k].kind \in kinds })

Ranked(s) ==
  LET d == Distinct(s) IN Of(d, Critical) \o Of(d, High) \o Of(d, Medium)

Rank ==
  /\ pc = "rank"
  /\ out' = Ranked(out)
  /\ pc' = "done"
  /\ UNCHANGED <<file, i, pos, recs, all, chunks>>

-----------------------------------------------------------------------------

Init ==
  /\ IsFile(file)
  /\ pc = "header"
  /\ i = 1 /\ pos = 0
  /\ recs = <<>> /\ all = <<>> /\ chunks = <<>> /\ out = <<>>

Next ==
  \/ TooShort \/ ReadHeader
  \/ PassOver \/ CutOff \/ ReadChunk \/ ReadRecord \/ EndOfRecords \/ EndOfFile
  \/ CrossChecks \/ Rank

Spec == Init /\ [][Next]_vars

-----------------------------------------------------------------------------
(* Properties.                                                             *)

\* A log as the event log service writes it: records without a break, their
\* ids consecutive through the file and their times not falling.
Follows(a, b) == b.id = a.id + 1 /\ a.time <= b.time

SoundChunk(c) ==
  /\ c.magic /\ c.whole /\ c.parses /\ c.headerOk /\ c.areaOk
  /\ DOMAIN c.claims # {} /\ Visited(c) = DOMAIN c.claims
  /\ \A p \in DOMAIN c.claims :
       /\ c.claims[p].time > 0
       /\ p + c.claims[p].size \in DOMAIN c.claims => Follows(c.claims[p], c.claims[p + c.claims[p].size])
  /\ LET lo == Min(DOMAIN c.claims)
         hi == Max(DOMAIN c.claims)
     IN c.first = c.claims[lo].id /\ c.last = c.claims[hi].id /\ c.lastId = c.claims[hi].id

SoundLog(f) ==
  /\ f.long /\ f.header /\ f.sumOk /\ ~f.dirty /\ ~f.full
  /\ f.count = Len(f.places) /\ f.count > 0
  /\ \A k \in DOMAIN f.places : SoundChunk(f.places[k]) /\ f.places[k].guid = f.places[1].guid
  /\ \A k \in 1 .. Len(f.places) - 1 :
       LET a == f.places[k].claims
           b == f.places[k + 1].claims
       IN Follows(a[Max(DOMAIN a)], b[Min(DOMAIN b)])
  /\ \A k \in DOMAIN f.places : f.places[k].lastId < f.next

\* Nothing is said against a sound log: no check, of those that read different
\* fields and walk the records twice, takes it for anything else.
SoundIsClean == pc = "done" /\ SoundLog(file) => out = <<>>

\* What is hidden in a record is told. The two walks, of
\* detect_danderspritz_deletion and of analyse, agree: a deletion is reported
\* for just those of the records counted whose body has a record magic in it,
\* it says where the first one is, and such reports come before all others.
Inside(r) == { q \in DOMAIN file.places[r.chunk].claims :
                 /\ r.pos + 24 \div 4 <= q
                 /\ q + 1 <= r.pos + file.places[r.chunk].claims[r.pos].size - 1 }

Hiding == { all[k] : k \in { n \in 1 .. Len(all) : Inside(all[n]) # {} } }

DeletionsTold ==
  pc = "done" /\ file.long =>
    LET told == { k \in DOMAIN out : out[k].kind = "deletion" }
    IN /\ told = 1 .. Cardinality(told)
       /\ { out[k].what : k \in told } =
            { <<r.chunk, r.id, file.places[r.chunk].claims[r.pos].size, Min(Inside(r))>> : r \in Hiding }

\* "A large timestamp jump alongside the gap (>= 1 ms per missing ID) is treated
\* as a normal cleared-log or ring-buffer rollover period" (lib.rs:389-390). The
\* times are those of the record headers, which count 100 ns. The code has none
\* of it: the limit for nanoseconds is applied to them.
TicksPerMillisecond == 10000

RolloversPass ==
  \A k \in DOMAIN out : out[k].kind = "phantom" /\ out[k].what[1] <= out[k].what[2] =>
    out[k].what[4] - out[k].what[3] < TicksPerMillisecond * (out[k].what[2] - out[k].what[1] + 1)
=============================================================================
