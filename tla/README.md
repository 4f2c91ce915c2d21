# winevt-forensic in TLA+

TLA+ models of the parts of winevt-forensic whose correctness lies in order,
bounds and state: recovering chunks and records from arbitrary bytes, writing
them back, repairing, querying and merging several files, detecting, and the
commands that put these together. TLC checks the models on small instances; TLAPS proves the central
theorems for every value of the constants. Paths are relative to `src/crates/`.

## 1. The system

A Rust workspace of eleven crates around one command-line program, `ev4n6`. It is
a batch program. An event log (.evtx) is a file header of 4096 bytes and chunks of
65536; a chunk is a header of 512 bytes and a *records area* of 65024. A record
starts with a magic and its size, and repeats the size at its end. The program
reads such files, disk images that contain them, or blobs in which chunks lie
anywhere.

| Component | State it keeps | Operations | Uses |
|---|---|---|---|
| `winevt-carver/src/lib.rs` record walks | cursor, records pushed | `recover_records_from_slice` (strict), `recover_records_aggressive`, `carve_chunk_free_space` | `winevt-core` header parsing |
| the same, chunk scan | cursor, `full_offsets`, `truncated_chunks`, `CarveStats` | `carve_from_bytes`, closures on rayon, merge | record walks, integrity |
| the same, repair | file image, `RepairReport` | `repair_evtx`, `verify_integrity` | CRC |
| `winevt-writer` | current batch, chunk bytes | `split_into_chunks`, `build_chunk`, `records_to_evtx` | |
| `winevt-integrity` | none (folds over chunks) | checksums, record-id gaps, header consistency, phantom records, surgical deletion | |
| `winevt-extract` | per query: maps keyed by LUID, block id, host, image... | sessions, timeline, search, hunts, process tree, script blocks, logon graph, IOC, anomalies, diff, `flatten_event_data` | `evtx` crate |
| `winevt-binxml` | cursor, open elements, `NameCache` of a chunk | record loop, token loop, template instances, values | `winevt-core` |
| `winevt-manifest` | templates of the file read, `ManifestDb` by provider and event | `load_from_directory`, `resolve_fields` | |
| `winevt-memory` | cursor; sessions seen | `scan_memory_buffer`, `detect_etw_tampering` | |
| `winevt-triage` | partition window | open image, find partition, extract logs | NTFS/EWF crates |
| `winevt-analysis` | matches of a cluster detector, its window | `detect_all`: 29 detectors of single events, two of clusters | |
| `winevt-cli` | evidence directory, temporary files, exit code | one command each over resolved sources; `report` a pipeline over files | all |

How they interact: plain calls on one thread, with one exception — the closures
for complete chunks run on the rayon pool (`winevt-carver/src/lib.rs:184`). What
is shared otherwise are *files*: the report's `evtx_dir`, whose files are written
by one step and read by the next; the temporary file that stands for a blob; the
file that is repaired.

What is hard here:

* bytes are arbitrary, so every size field, magic and id may be anything, and a
  loop whose cursor moves by such a field must neither stop, nor overlap, nor
  skip (carver:584–700);
* work done in parallel whose result must not depend on the order;
* checksums that cover one another (carver:430);
* names that collide: two logs of one base name, chunk files numbered anew for
  each source, temporary files named for the base name only;
* one of several inputs that cannot be read;
* events of several files that must be in order before they are paired, keys
  (LUIDs) that are used again;
* one activity that two logs record under different field names and spellings;
* clusters of events in time, told by windows that may fall anywhere;
* fields with a width: ids of 64 bits, a chunk count of 16.

There is no retry, no timeout and no recovery from a crash in this program, and
nothing is modelled as if there were.

### What makes each component correct

* record walk — no byte in two records, nothing outside the bytes read, runs of
  records recovered whole, a rejected claim hides nothing, the walk returns;
* chunk scan — every magic is queued, inside a queued chunk, or too near the end;
  chunks handed to the pool are disjoint; the result is a function of the image;
* writer — nothing lost, repeated or moved; a batch fits its chunk; what is
  written is read back;
* repair — idempotent, a report that tells what was changed, the result verifies (the
  documents promise something else, section 3);
* BinXml decoder — every tree says what the bytes of its record say, a record that
  fails costs only itself, every call returns;
* integrity analyser — nothing is said against a sound log; what is hidden in a
  record is told;
* sessions — each logon and logoff is paired as a reader of the sorted list would
  pair them; no file's events are lost or counted twice;
* report — the indicators belong to the file named; files do not mix;
* command line — exit code 0 of a searching command means that no readable log it
  was given has anything to show; a timeline cut short leaves out no event of an
  earlier second than one it lists;
* queries — a query's answer does not depend on the order or the spread of the
  records over files, where it says no such thing: joined scripts, summed graphs,
  process tables that agree with each other, differences that tell every edit;
* event fields — a field has the name some manifest declares for it, and no value
  is lost when an event is flattened;
* provider check — no event passes for one of a known provider;
* detectors — a burst is told once, and only if it was one; what a process did
  decides what is told, not which log recorded it; a log nobody was recording is told.

## 2. The modules

| Module | Code | State → code |
|---|---|---|
| `RecordWalk` | carver:494–700, memory/lib.rs:26–63 | `pos` the cursor, `recs` the vector returned, `mode` which of the four functions; `claim` is what the bytes say at each position |
| `ChunkTiling` | (abstract) | chunks taken left to right, each at the first magic that has room behind the last |
| `ChunkScan` | carver:89–217 | `i`, `full`, `truncated`, `chunks`, `stats` are the locals of `carve_from_bytes_inner`; `todo`/`carved` the closures not yet run and the results arrived |
| `EvtxWriter` | writer:81–323 | `batches`, `current`, `size` of `split_into_chunks`; `out` the chunks written; `header` |
| `Rebuild` | main.rs:417–444, carver:219–258, integrity:195–331 | composes `EvtxWriter` and `RecordWalk` (by INSTANCE): the file written is walked again and checked |
| `Repair` | carver:370–462, main.rs:781–802 | extends `ChunkScan`: the repaired file is repaired again or scanned; `off`, `checked`, `repaired`, `headerRepaired` as in the code |
| `LogonSessions` | extract:364–600 | `open`, `order` (`insertion_order`), `closed`, `raw` (`all_raw`) |
| `EvidenceReport` | report.rs:58–295, triage/extract.rs:11–159 | `disk` is `evtx_dir`, by file name; `entries` the `EvtxEntry` list; `timeline` hayabusa's file |
| `CommandLine` | main.rs:125–1352 | extends `EvidenceReport`; `paths` the arguments, `holds` what the files have in them, `sources` the resolved and deduplicated ones, `todo` those left, `failed`, `shown` what was printed, `tmp` the temporary directory, `exit` |
| `BinXmlDecoder` | binxml: reader.rs:107–131, deserializer.rs:79–310, template.rs, name.rs | `calls` is the stack of calls of `run` and `read_template_instance`, each with its locals (cursor `pos`, `stack` as `open`, `roots`, `steps`, values in scope); `names` the `NameCache`; `record` is `rec_off` |
| `BinXmlText` | (reference, for TLC) | the start tags, end tags and texts that a record's bytes stand for, defined by recursion, without cursor, stack or cache |
| `BinXmlGrammar` | (reference, for proofs) | the same as the rules of a grammar: a tree is what a record's bytes say if every reading that follows the rules states it |
| `IntegrityAnalyser` | integrity:20–178, 195–539 | `i`, `pos`, `recs` (`rec_pairs`), `all` (the two lists of all records), `chunks`, `out` are the locals of `analyse` |
| `ProviderHeuristics` | integrity/provider_heuristics.rs:23–141 | `subject` the event, `told` the anomalies |
| `KillCluster` | taskkill_av_cluster.rs:22–68, service_stop_avset.rs:20–69 | `times` of the sorted matches, `i` the index at which the next window opens, `windows` reported |
| `Detectors` | winevt-analysis, memory/lib.rs:88–179 | extends `KillCluster`; `d` the detector whose turn it is, `matches` its kills, `results`; `told` the indicators of a memory image |
| `LogQueries` | extract:303–356, 609–778, 1346–1404, 1643–2688 | `at`, `nth` file and record being read; `acc` the maps and vectors of all queries over this file, `results` what they returned, `graph` the `edge_map` of those merged, `total` what is made of several |
| `ManifestDb` | manifest/lib.rs:22–93, xml_loader.rs:23–101 | `dir` and `unread` the directory and what is left of it; `elements` and `place` the file and the element that is next, `templates`, `eventMap`, `guid`, `tid`, `inTemplate` the locals of `load_into`; `db`; `data` and `renames` of `resolve_fields` |
| `EventFields` | extract:213–297 | `tree` the event, `flat` the map returned by `flatten_event_data` |
| `Ordering`, `Timestamps` | the sorts and filters of all, extract:353–354, 523–524, main.rs:580 | no state: stable sorts, filters, the order of times as text |
| `CommonLemmas`, `*_proofs` | — | section 5 |
| `MC_*` | — | the finite initial states for TLC |

Conventions. Actions are named for what the code does, one per branch of a loop.
A comment `Mutant:` introduces a definition that is *not* the code: a plausible
bug in the definition behind it, used to see that a property fails when it should.
Nothing else refers to it.

Abstractions, and why they are harmless:

* Bytes become *claims* (`RecordWalk`) or *heads* (`ChunkScan`): a walk's next step
  depends only on whether the magic is there, what size it reads, whether the copy
  agrees and whether the payload passes the BinXml heuristic. Claims are
  arbitrary, so overlapping and nested records are included. The heuristic is
  one bit: what it computes is irrelevant to the cursor.
* `Found` in `ChunkScan` is a parameter: which records the walk finds in a chunk,
  a finite set for each.
* A sort is `SortedBy` of `Ordering`, an arrangement of the positions by key and, the
  sorts being stable, by place; it is defined without recursion, so that it can be proved about.
* A record written is its index and size. `ends` holds running totals of the
  sizes, so that sums need no recursion.
* `Rebuild`: the code walks all the records area of a chunk whose header is
  sound, so the region walked is the whole area, zeros behind the records.
* A timestamp is a number of ticks; `TextKey` orders them as their text is
  ordered. `sort` compares strings, and a fraction is written without trailing zeros, so
  a text that begins another sorts behind it: a whole second behind all its fractions,
  `.5` behind `.51`. This is module `Timestamps`, which the three modules with such
  sorts share; `Units` are the ticks of each decimal place, down to one tick.
* `LogonSessions`: sessions are identified by the position of their logon; the
  fields copied from the event stand for it.
* `EvidenceReport`: the content of a file is *whose* content it is. An empty file
  is a value of its own (a copy onto itself, a write cut off).
* `BinXmlDecoder`: a position stands for a token with its operands, a name, a
  definition header, a list of descriptors or a value. The same bytes can be read
  as each of these, and the model gives a reading of every kind at every position;
  a name or a text is known by its position. The dependency id that start tags
  have inside a definition changes widths only. A fragment is decoded up to the end of
  the chunk, as in the code, not to the end of its value.
* `BinXmlDecoder` leaves out chunks in which a definition holds an instance of
  itself. There every nested call has limits of its own (deserializer.rs:91,
  template.rs:71, 92) and only the stack of the process ends the nesting.
* `IntegrityAnalyser`: a records area in units of four bytes, with claims at the
  magics; the checksums are verdicts; the file is a row of places of a chunk's size,
  of which any may be junk and the last cut off. Sums wrap as in a release build.
  `IsFile` says which files there are; nothing bounds them. A check that goes through
  pairs of neighbours is stated by the positions it picks (`Only`). The walk of
  `detect_danderspritz_deletion` is the function `VisitedFrom`: from each position
  the records met.
* `CommandLine`: what a command finds in a file is a set of numbers, an event's
  time in ticks or an indicator's severity; the query that finds it is `LogQueries` or
  `LogonSessions`. The report is `EvidenceReport`, reached as a command.
* `LogQueries`: each query is a pass of its own over a file in the code; here one
  step takes a record through all of them, which share nothing. A record says
  what the queries ask of it, a field whether it is a JSON string or a number.
  An image called "-" cannot be told from an absent one in the process tree, as in the code.
* `Detectors`: a text is the last component of its path, the kind of directory,
  the phrases in it, whether it is spelt as the tables are, and whether byte 120 is
  inside a character. The tables of names are another crate's; a few members
  stand for each, and one provider or two for the table of providers.
* `ManifestDb`: XML is the sequence of its elements. `param_index` is the table
  `Params`, which may give several keys one index, as `Param1` and `Param01` have.
* `EventFields`: JSON is a tree. A made-up name
  (`Data0`, `Param1_2`) is a key with its index; that a field is literally called
  so is not modelled.
* Orders that the code takes from `read_dir`, a hash map or a set are
  nondeterministic, never fixed.

## 3. Runs

Nine passing runs, three that show a disagreement between a statement of the
repository and the code. `expect: violation` runs check one property each.

| Run | Bounds | States | What it shows |
|---|---|---|---|
| `walks` | regions of 8 units, ≤3 magics, sizes 0/3/4/6 | 1 060 000 | `NoOverlap`, `RunRecovered`, `NoneSkipped`, `Terminates` for all four walks |
| `scan` | images of 10 words, chunks of 3, ≤4 magics of any condition | 277 000 | `MagicsAccounted`, `ResultDetermined`; implements `ChunkTiling` (`TilesImage`) |
| `rebuild` | ≤4 records of sizes 1, 2, 3, 5 in areas of 4, ids mod 8, counts mod 4 | 340 000 | `SlicesJoin`, `NothingDropped`, `RoundTrip`, `HeaderHonest` |
| `repair` | 7 words: header, two chunks; one stray magic | 163 000 | `ReportTrue`, `RepairedVerifies` |
| `commands` | ≤2 arguments of every kind, 2 files, 1 base name, 3 finds, as times with a second of 2 ticks; reports of ≤2 items of ≤2 chunks, 2 names | 5 060 000 | `CleanLogsAreClean`, `EarliestListed`, `RebuiltNow`, `EntriesHold`, `FilesAreOwn` |
| `decode` | 2 records in 17 positions, depth 2, 4 tokens, 2 values | 244 000 | `DecodedAsWritten`, `OthersDecoded`, `DecodingEnds` |
| `analyse` | 2 chunks of ≤3 records, ids mod 16; 2 providers, all of whose names, guids, ids and channels are mixed | 92 000 | `SoundIsClean`, `DeletionsTold`, `ForgeriesTold` |
| `detect` | slices of two events, or of ≤5 kills or stops at times 0–4, window 2, thresholds 3 and 2; ≤4 trace sessions | 229 000 | `ClustersTold`, `ClustersGenuine`, `ActivityDecides`, `BlindSpotsTold` |
| `extract` | sessions: ≤3 events, 2 LUIDs, 3 times of which one a whole second, ≤2 files; queries: ≤2 files of ≤5 records, times 0–3 with a second of 2, ≤3 events for each of 4 ids; ≤2 manifests of ≤2 providers; trees of ≤3 elements | 719 000 | `SessionsAreRight`, `NothingLostInMerge`, `PairedAcrossFiles`; `InTimeOrder`, `BlocksJoin`, `GraphAddsUp`, `ProcessesAgree`, `AnomaliesNeedIds`, `DiffTellsEdits`, `FieldsAsDeclared`, `NamesResolve`, `FlattenKeepsValues` |

Why these bounds suffice for the cases that matter. Walks: the header is three
units, greater than every step and the step of the strict walk is two, so a claim
can begin inside another's header, payload or trailer, a record can end off the
grid of steps, and three magics allow a record, one inside it, and one behind.
Size 0 is the degenerate field; regions end in the middle of a record. Scan: ten
words hold three chunks and a remainder, or a stray magic, a chunk it hides, and a
truncated chunk; up to three closures run in every order. Writer: sizes divide
the area exactly, leave one unit, and exceed it; ids reach the top of their field;
four single-record batches overflow the chunk count. Repair: two grid
slots are enough for each pair of conditions and the stray magic may hide either.
Sessions: three events are logon, logon, logoff under one LUID, the least that
distinguishes replacing from listing; two files interleave in any way. Decoder: four
arbitrary tokens open, name and close elements to the depth limit and beyond the token
limit; in the other family the first record is an instance that stands in an
element, with its definition in place, two values of every kind (a fragment with
tokens of its own, an instance among them, shorter or longer than declared), and
the second record is an instance of that definition with other values, or of
something that is none. Analyser: a record takes in none, one or both of its successors,
wholly or in part, ends one unit before or behind the next, and the second chunk
continues the first, repeats its ids, or leaves ids out in more or less time than
the limits.
Commands and reports: two inputs are enough for every collision of two names and
for a source that fails beside one that does not; nothing relates three. Of the three
times of events the first is of a second of its own and the second, a whole second,
sorts behind the third: the order of times and that of texts differ.
Detectors: five kills can be a reported window with one left over, a window that is
too small before one that is not, and a cluster that straddles the end of another;
the window of 2 divides the times neither evenly nor into one. Every pair of the
other events meets in one slice, each of the 29 detectors fires, and each program,
parent and phrase is told by both logs. Queries: three fragments of one script
and two of another, in every order; two files of two logons, one of which may
not open; three process creations of both kinds at every time; event ids in such
proportions that a score reaches the limit; every pair of lists of three of four
records for the difference. Fields: three names of which one is itself a
`ParamN`, directories whose files share a template id, a provider or an event;
trees with named, unnamed, nested, repeated and absent elements.

### Disagreements the code shows

| Run, property | Statement | Code |
|---|---|---|
| `rebuild_numbers`, `NumbersJoin` | writer:171: sequence numbers within the log; README:323: a gap means records are absent | each chunk numbers from `chunk_number * its own length`: files that lose nothing report gaps |
| `repair_skips`, `FailedChunksSkipped` | README:287: repair "skips chunks that fail CRC32 verification; re-sequences record IDs in surviving chunks", and reports chunks recovered and skipped; PRD.md:76–77: "from surviving CRC-valid chunks" | carver:408–454 skips no chunk: it renews the checksums of every chunk on the grid, over whatever damage there is, changes no record id, and reports chunks checked and repaired (carver:372–376) |
| `analyse_rollover`, `RolloversPass` | integrity:389–390: a gap that took at least 1 ms per missing id is a normal rollover | the limit, 1 000 000 taken for nanoseconds (integrity:393), is applied to times of 100 ns: it is 100 ms per id |

The second bears on two passing properties: `ReportTrue` and `RepairedVerifies` state what
the comment on `repair_evtx` does ("recompute and fix bad checksums", carver:378), and they
hold *because* a chunk with wrong checksums is neither skipped nor left as it is. A file
that verifies after a repair is therefore no sign that its chunks were sound before.

Observed while reading, without a run:

*Carving and writing.* Chunk *and record* offsets become absolute, says carver:89–90,
but record offsets stay relative to their chunk, shifted by `offset_base` only
(carver:190), and not even that in truncated chunks; decoder limits start
afresh in nested calls and scalars are not limited to their declared size, both
unlike docs/plans/binxml-decoder-architecture.md; chunks with an unreadable header are
dropped (carver:105) though a user story wants them carved; a record larger than
the area gets a chunk of its own that stays empty (writer:276, 149); repair with
one path for input and output overwrites the evidence (PRD.md:100–101 excludes it,
no check does); seeks from the end of an image are not shifted to the partition
(partition.rs:33).

*Checks.* Equal record ids give an empty range of phantom records in a release
build and a panic in a debug build (integrity:400); `TruncatedFile` is only raised for
files below 128 bytes (integrity:26); the provider check looks ids and channels up by
guid only, so that an event with a known name and no guid may have any.

*Queries.* Events of several files are sorted by the text of their timestamps, in
which a whole second sorts behind its own fractions and `.5` behind `.51`, though the
comment says that they are seen in order (extract:523–524); so is the timeline of several
sources before `--limit` cuts it (main.rs:580, PRD.md:65: "chronological"), so that it can
list an event half a second past and leave out the one on the second; a second logon erases the open session of its
LUID (extract:421), and LUIDs of several machines are merged (extract:527); fragments of a
script logged twice are joined as one text (extract:689); the edges of the logon
graph come in the order of a hash map where host and count agree (extract:637); a
`LogonType` that is a JSON number reads as 0; the difference of two logs is by record
id, so records that share one are never told apart (extract:1756); the count of an
indicator is said to be of events (extract:1254) and is of hits; `extract_all` is
sorted file by file and not across them; `flatten_event_data` is called lossless
and loses repeated names and the text of unnamed elements (extract:205–213); where a
declared name is itself a key of the event, or two keys get one name, the value that
survives depends on the order of a hash map (manifest/lib.rs:88).

*Detectors.* One kill recorded by the Security log and by Sysmon counts twice
(the tests count events); the 7-Zip detector reads Sysmon's names only; the excerpt of a
script is cut at a byte and panics inside a character (defender_disable.rs:41,
wevtutil_cl.rs:71), which ends `detect_all`.

*Commands.* A source that cannot be read is a warning and exit code 0 (main.rs:530,
README:304–312); a path that does not exist is code 3 for the commands and 2 for
`report`; `verify` reads an image as if it were a log, finds nothing and exits 0,
though comments say that images are handled by the callers (main.rs:384, 415), and only
`report` takes the logs out of an image, though the help says more (main.rs:106); an
invalid pattern of a search gives `[]` and exit code 0; a blob's own indicators are
lost when its records are rebuilt (main.rs:434) and two blobs of one base name share
the file (main.rs:435); a second log of one base name replaces the first in `evtx_dir`
before the indicators of either are taken (report.rs:83, 176); carved chunks of two
sources share file names (report.rs:221); `--carved` is ignored for a lone .evtx
(README:295, report.rs:78); a log of `evtx_dir` copied onto itself becomes empty
(report.rs:177); hayabusa runs over the whole directory, files of earlier runs included,
and an old timeline passes for a new one when it fails (report.rs:266).

## 4. Fairness and deadlock

Liveness is claimed of the walk (`Terminates`) and of the decoder (`DecodingEnds`), under
weak fairness of their steps: each is a loop on one thread, without blocking call. `ChunkScan` assumes weak fairness of
the scan, of the pool (rayon runs every job it was given) and of the merge;
these are what the specification of the code says, no property of the runs rests on them. The
other modules describe a sequential program, and safety only. All of these
programs end, which is why the configurations do not ask for absence of
deadlock.

## 5. Proofs

`tlapm` checks all of them; the only assumptions are those on constants, which TLC
evaluates in the runs. None of them bounds anything: regions, images and record lists
are of any length.

**`Chunk_proofs`**, record walks — `TypeCorrect`; `RecordsDisjoint`; `RunsAreRecovered`;
`NothingSkipped`. `NoOverlap` is not inductive: it does not say where the cursor is.
`WalkInv` adds that every record recovered ends at or before the cursor and is the claim
of its position. For runs, `RunInv` says that the cursor *stands on* each run until it
has passed all of it; the step needs that the least member of the run beyond the cursor
is the very position the cursor moves to (`RunSuccessor`), because a member with a
predecessor before the cursor would overlap a record already recovered. `GridInv` is
`NoneSkipped` for a cursor that is itself on the grid; it needs the arithmetic of
multiples (`GridSum`, `GridGap`).

**`Chunk_proofs`**, decoder — `DecoderTypes`; `RecordsOnce`; `TreesAreRead`;
`TreesAreAsWritten`. What TLC compares a tree with (`BinXmlText`) is recursive, so the
theorems speak of `BinXmlGrammar`: a reading `g` is a set of statements "from `p` on, in
this scope, the bytes are the nodes `ns` and end at `q`", and a tree is what the bytes say
(`IsWrittenAs`) if every reading that follows the rules states it, that is, if it has
a derivation. `TreesAreAsWritten` says that of the tree of every decoded record. It is
soundness: nothing in a tree is lost, added, moved or read twice, however calls nest. The
other direction, that a record which has a tree is decoded, is `OthersDecoded`, which TLC
checks. The difficulty is that the decoder reads forwards with a stack, while a rule
speaks of what follows. The invariant (`TreesHold`) therefore says of each call,
conditionally: *if* what is left of its bytes is read as some nodes, *then* from the
place where each of its open elements begins they are read as what that element holds
and those nodes. The places, and how many tokens had been read there, are not in the
program's state; they are quantified (`P`, `N`). A call that waits is linked to the one
above it (`AwaitsValues`, `AwaitsBody`): the values read so far are those the descriptors
say, and what the callee reads completes them. A list of attributes that is only half
read is a condition of the same form. Each token moves one item from what is left to what is held. `DecoderTypes` gives
the shape of the stack, the limits in every call and the coherence of the name cache,
which is what makes a cached name the same as a name read again. An unsatisfiable
grammar would derive everything; `RulesCanBeFollowed` shows that this one is satisfiable
wherever there is a set of trees closed under texts and elements (`IsForest`). That there
is such a set is elementary, but its construction is recursive and so beyond the prover.

**`Repair_proofs`**, carving — `ScanTypeCorrect`; `FullChunksDisjoint`;
`NoMagicForgotten`; `GridIsQueued`; `ScanTiles`, the refinement of `ChunkTiling`;
`ResultIsDetermined`. `ScanInv` joins disjointness, the bound of every extent by the
cursor, and the accounting of magics: the tiling's guard ("the first magic with room")
is what accounting says of the magics before the cursor. For the result, `QueueInv` says
that the truncated chunks are those of magics without room, in the order of their
offsets (none is missing by the accounting of magics), and `PoolInv` that what has
arrived is, in some order, the chunk of each closure that is not to do any more and
could read its header. Then the sort decides: offsets differ, so there is one
arrangement only (`SortedChunks`, `MergedInOrder`). That the counters, which the code
sums in a loop, are cardinalities of sets of chunks and of records (`CountAllIs`) is
shown by the least index at which they would not be.

**`Repair_proofs`**, repair — `RepairIsTrue` (`ReportTrue`), `RepairFixesAll`,
`RepairedIsSound` (`RepairedVerifies`). The counters are cardinalities of sets that grow
with the loop, so `FirstPass` says of the chunks before `off` that they are fixed and
counted, and of those behind it that they are as given; `SecondPass` that all are fixed
already, so `RepairOne` changes none. `off` stays on the grid, which makes the next
offset the only new member (`SlotStep`, `CountStep`). That a fixed chunk is fixed,
though its header checksum covers the area checksum stored before it, is `FixedHolds`.
`VerifyInv` joins the two parts of the module: when the repaired file is scanned, the
heads are those that repair left and the scan keeps all that was proved of it; without
stray magics its queue is the grid (`GridFound`).

**`Rebuild_proofs`** — `WriterTypeCorrect`; `SplitJoins`; `BatchesFitArea`;
`WriterDropsNothing`; `HeaderIsHonest`; `RoundTripHolds`. `SplitInv` says that batches
and current batch form a `Chain`, and that `size` is the extent of the current batch, a
difference of two entries of `ends`. For what is written, `OutInv`: a batch that the
chain makes a slice of the input and that fits the area is placed whole, because running
totals never fall (`Monotone`), so the loop of `build_chunk` can only stop at its end
(`AllPlaced`). `FileInv` adds what the header says of the chunks, `VerifyInv` that the
alarms are those of one check of the file as it was written. For the round trip,
`WalkInv`: before the walk reaches position `pos` of chunk `chunkNo` it has recovered
the records of all batches before it (`Passed`) and, of its own, just those that end at
`pos`. The step rests on `RegionHolds`, that the claim which stands at the next record's
place is that record, valid, and that behind the last one there is nothing but zeros,
for which the walk accepts nothing (`RecordTaken`, `NoneTaken`).

**`Detectors_proofs`** — of the sweep for clusters, `ClustersAreReported`,
`ReportsAreApart`. The two are not inductive: a window may only be opened behind all
that were reported. `SweepInv` adds that the times are sorted and that every window
reported ends before the cursor. A window that is too small is passed by one match only,
and that is safe because no cluster starts at it (`ClusterIsClustered`). The window's
last match is a `CHOOSE` whose existence is `LastOfWindow`. Of all the detectors,
`DetectCorrect`, `ClustersAreTold` (`ClustersTold`), `ClustersAreGenuine`
(`ClustersGenuine`), `ActivityTold` (`ActivityDecides`). `DetectInv` says of the
detectors before `d` that each detection was justified and none left out (`SingleSound`,
`SingleComplete`, `ClusterSound`, `ClusterComplete`), and while a sweep runs that the
matches are what the detector matched, sorted, and that `SweepInv` holds. What the
theorems above say of windows over positions becomes a statement about sets of events
because the sort loses no match (`WindowIsFull`, `ClusterIsTold`). That the same
activity is told alike is a comparison of the 29 detectors, one by one (`SameFires`):
those that read events of another kind are silent about both (`OthersSilent`). Of the
trace sessions of a memory image, `BlindSpotsAreTold` (`BlindSpotsTold`), by
`SessionsInv`.

**`Extract_proofs`**, sessions — `PairingCorrect`, `SessionsRight` (`SessionsAreRight`);
`MergeCorrect`, `NothingLost` (`NothingLostInMerge`), `PairedAcross`
(`PairedAcrossFiles`). What a reader of the sorted list would say of the events before
`next` is a function of the events alone: which logons are still open (`Live`), which
are over, and by which event (`Ended`). `PairingInv` says that the map is the one and
the list reported the other, each once; `LiveNext` and `EndedNext` say how one more
event changes them, so that each branch of the loop has only to do the same; while the
open ones are drained, those that `order` has still to come to are all that is left
(`WhileDraining`). `MergeInv` counts: an event is in `raw` as often as in the files
before the present one (`PlacesAdded`), and a sort changes no count (`SortedOccurs`).

**`Extract_proofs`**, queries — `QueriesCorrect`; `TimelinesInOrder` (`InTimeOrder`),
`BlocksAreJoined` (`BlocksJoin`), `GraphsAddUp` (`GraphAddsUp`), `ProcessesDoAgree`
(`ProcessesAgree`), `EditsAreTold` (`DiffTellsEdits`). Each query folds over the
records; `GatheredInv` says what each has made of the records read so far without a
fold: counts are cardinalities of sets of records, lists are the records they were
gathered from in order (`Gathers`), a script has the fragments that were logged under
its id. One lemma for each query takes it over one record (`TimelineStep`, `EventsStep`,
`ProcessesStep`, `GraphStep`, `BlocksStep`). `ResultsInv` says the same of the files
read, `GraphInv` that the merged counts are of all of them, disjoint sets that add up,
and `TotalInv` what is concluded. The properties then follow from what a stable sort
does: it permutes (`SortedInOrder`) and puts the element with `r` lower keys at `r + 1`
(`SortedPlace`), which is where `BlocksJoin` looks for a fragment.

`AnomaliesNeedManyIds` (`AnomaliesNeedIds`) is about sums over a map. `FrequencyHolds`
says that the counts are of the events of each id; the fold of such counts is then the
cardinality of the set of pairs of an id and a number up to its count (`SumIs`), so that
sums add and compare as sets do, without induction over the map. What is left is that
one of `n` values differs from their mean by at most `sqrt(n - 1)` standard deviations:
the squares of the others are at least the square of their sum over their number.

**`Extract_proofs`**, manifests — `LoadCorrect`; `FieldsDeclared` (`FieldsAsDeclared`);
`NamesAreResolved` (`NamesResolve`). `FieldsAsDeclared` speaks of whole files and
`load_into` has one element at a time, so `ReadingInv` says of the element at `place`
what stands before it: `guid` is that of the last provider (`ProviderStep`), `eventMap`
the events in order, and a template has the names up to its end, or those up to `place`
while it is open (`TemplatesAre`). The last needs a file that uses no tid twice and
closes its templates; the rest holds of any. `DbInv` says that the database covers the files read
but the one at hand: each event known has the names of some declaration, and each
declared one is known (`Covers`); the first declaration stays, so a file can only add.
For the renames, `RenameInv` says where the value of each key is (`NowAt`): under the old
key while its rename is still to do, under the new one afterwards; no rename
overwrites another value because the names are apart (`NamesDiffer`), and the number of
keys stays because `NameOf` is then one to one.

**`IntegrityAnalyser_proofs`** — `DeletionsAreTold` (`DeletionsTold`);
`SoundLogsAreClean` (`SoundIsClean`); `ForgeriesAreTold` (`ForgeriesTold`). The code
walks the records twice, in two functions. `VisitedFrom` is recursive with a step that
depends on the data, and the provers know it as a `CHOOSE` only; that the function
exists is shown by the set of positions that every closed set contains (`ReachedStep`),
after which `VisitedStep` is its equation. A chunk is searched before its records are
read, so `DeletionInv` says that what is told is what the records met so far hide and
what those hide that the walk of the search meets from `pos` on: each record read moves
from the second part to the first (`HiddenStep`). The other checks are quiet about
deletions one by one (`TimesQuiet` to `HeaderQuiet`), and ranking keeps what was told
and puts it first (`RankedTells`). `CleanInv`, for a sound log, says that the ids of all
the records met count up from the first, their times do not fall, and the last one
stands where the next must follow (`EndsWith`, `EndsBefore`); each check then picks no
position, that for phantom records because its sort changes nothing (`CountsInOrder`).
The provider check has no loop, and its theorem is a case analysis over any table in
which neither a name nor a guid occurs twice.

**`CommandLine_proofs`**, the report — `ReportTypeCorrect`; `ReportHolds`
(`EntriesHold`); `FilesAreTheirOwn` (`FilesAreOwn`). `HoldInv`: a listed file was
written by this run (`Listed`), the last entry of a name says what stands there
(`LastOnesThere`), and entries behind the cursor were examined as their files are
(`ExaminedSoFar`). `FilesInv` says, for a report in which no name is used twice, that
names in the list differ and that the list is what the loops have gone through so far
(`EntriesSoFar`): the copies before `k`, the chunks with records before `(k, i)`. A
carved name cannot meet an extracted one because `carved_chunk_N` is no base name, and
cannot meet a carved one because only one item is carved (`OneCarved`).

**`CommandLine_proofs`**, the commands — `CommandTypeCorrect`; `CleanMeansClean`
(`CleanLogsAreClean`); `TimelineIsEarliest` (`EarliestListed`); `BlobsAreRebuilt`
(`RebuiltNow`). `CleanInv` joins two facts about the way there: the logs of every path
before `p` are sources (`LogsResolved`), and every log is still to do, or has what it
holds shown, or cannot be opened (`LogsGoneThrough`). The cut compares texts, the property
seconds: `TextOrder` of `CommonLemmas` says that a text ends its run of times at the next
multiple of its last unit, at the latest where its second ends. `CommandsRunReport` shows that the
command line implements the report: every step of it is a step of `EvidenceReport` or
leaves it alone; `CommandReportHolds` and `CommandFilesAreOwn` carry the two theorems
over.

**`CommonLemmas`** — least and greatest elements of sets of naturals, monotone
functions, multiples, the order of times as text (`TextOrder`); and what the operators of `Ordering` do, for every sequence: a
finite set with an order has one arrangement (`ArrangedInOrder`), a filter picks
(`OnlyPicks`), a sort permutes, orders, keeps the order of equals and loses no
occurrence (`SortedInOrder`, `SortedPlace`, `SortedOccurs`). The library's induction
theorems take an operator as parameter, which the installed provers cannot instantiate;
where a least element is needed it is derived there.

`TypeCorrect` and its like, `RecordsOnce`, `TreesAreRead`, `TreesAreAsWritten`, `PairingCorrect`, `MergeCorrect`, `QueriesCorrect`,
`LoadCorrect`, `DetectCorrect`, `FullChunksDisjoint`, `GridIsQueued`, `BatchesFitArea`,
`RepairFixesAll` and the two theorems about the sweep alone state invariants that no run
checks by name, because they are proved for all values or because a run checks a
consequence.

Only model-checked: `DecodedAsWritten` and `OthersDecoded` as they stand, whose reference
is recursive (the first has its counterpart in `TreesAreAsWritten`); `FlattenKeepsValues`,
recursive over trees; `Terminates` and `DecodingEnds`, which are liveness.

## 6. Not modelled

* **Parsing of bytes, CRC, SHA-256, BinXml heuristics**: their verdict is an input.
* **Projections of a decoded tree (`extract.rs`, `json.rs`), rendering of values, the
  legacy scanners in `winevt-binxml/src/lib.rs`**: functions of one argument.
* **Within the queries**: the table of ATT&CK tags, the regular expressions of
  indicators, `deobfuscate_ps` and the decoding of volume serials, each a function of
  one text; the bundled table of manifests is data.
* **`carve_from_file`, `carve_from_ewf`**: reading of the input and a hash of it.
* **`output.rs`, the Markdown of the report, `--format`, CSV quoting**: layout.
* **`carver.rs`**: an adapter to a trait of an external crate whose sweep is not in
  the repository. The same holds of the seeks of `PartitionReader`, which an
  NTFS crate makes.
* NTFS, EWF and the `evtx` crate are external; what they return is an input that
  may fail at any point.

## 7. Plan

Left, in this order:

1. Completeness of the decoder as a theorem: a record that has a tree by the grammar within
   the limits is decoded. It needs a measure of what a derivation has left to read.
2. The projections of a decoded tree, once a property of theirs is worth stating:
   both walk the same tree and should give a field the same value.
3. Two steps of the file system where the code makes one call (`fs::write`
   truncates, then writes), for repair onto its own input.

The runs are kept few on purpose; the four models of `winevt-extract` and its fields,
which do not call one another, share one.

## 8. Running

    tlc -config RecordWalk.cfg MC_RecordWalk
    tlapm Chunk_proofs.tla

`PROJECT.json` lists components, runs with their properties, mutants, the
definitions with the lines they translate, hazards, and theorems.
