---------------------------- MODULE EvidenceReport ----------------------------
(***************************************************************************)
(* `ev4n6 report` (report.rs): the event logs found in the input are put   *)
(* into one directory, evtx_dir, under their base names; chunks carved     *)
(* from a file are put there as carved_chunk_0000.evtx and so on; then the *)
(* integrity of every file listed is examined and hayabusa is run over the *)
(* directory.  The directory may hold files of an earlier run, and it may  *)
(* lie inside the input.                                                   *)
(***************************************************************************)
EXTENDS Integers, Sequences, FiniteSets

CONSTANTS
  Names,     \* base names of event logs
  MaxItems,  \* bound on the files found
  MaxChunks  \* bound on the chunks carved from a file

ASSUME ReportAssumption ==
  /\ MaxItems \in Nat
  /\ MaxChunks \in Nat
  /\ \A c \in 0 .. MaxChunks - 1 : c \notin Names

\* carved_chunk_{i:04}.evtx is identified with i.
FileNames == Names \cup 0 .. MaxChunks - 1

Kinds == {"E01", "Evtx", "Directory", "RawBlob"}

\* What a file of evtx_dir holds: a copy of item k, the records of chunk i of
\* item k, a file of an earlier run, nothing (length zero), or no file at all.
Copy(k)       == <<"copy", k>>
ChunkOf(k, i) == <<"chunk", k, i>>
Old           == <<"old">>
Empty         == <<"empty">>
Absent        == <<"absent">>

VARIABLES
  kind,      \* detect_kind
  carve,     \* --carved
  items,     \* the files found, in the order they are found
  oldRun,    \* the names that an earlier run left in evtx_dir
  phase,     \* "extract", "carve", "integrity", "hayabusa", "ok" or "err"
  k,         \* loop index
  i,         \* chunk index
  disk,      \* evtx_dir: name -> what the file holds
  entries,   \* evtx_files
  timeline,  \* hayabusa_timeline.jsonl: "none", "old" or "new"
  hayabusa   \* the result: "none", "success" or "failure"

input      == <<kind, carve, items, oldRun>>
reportVars == <<kind, carve, items, oldRun, phase, k, i, disk, entries, timeline, hayabusa>>

NotExamined == <<"not examined">>

Entry(name, from, source) ==
  [name |-> name, from |-> from, source |-> source, examined |-> NotExamined]

AfterExtract == IF kind = "E01" /\ carve THEN "carve" ELSE "integrity"

-----------------------------------------------------------------------------
(* Extraction.                                                              *)

\* fs::copy truncates its target before it reads: a file copied to itself is
\* left empty.
Copied(j) == IF items[j].inside THEN Empty ELSE Copy(j)

\* passthrough_evtx, collect_evtx_from_dir, and extract_evtx_files for an image.
Extract ==
  /\ phase = "extract"
  /\ kind # "RawBlob"
  /\ k <= Len(items)
  /\ disk' = [disk EXCEPT ![items[k].name] = Copied(k)]
  /\ entries' = Append(entries, Entry(items[k].name, Copy(k), "filesystem"))
  /\ k' = k + 1
  /\ UNCHANGED <<input, phase, i, timeline, hayabusa>>

\* The first file that cannot be copied or read ends the whole run; the
\* files written so far stay.
ExtractFails ==
  /\ phase = "extract"
  /\ kind # "RawBlob"
  /\ k <= Len(items)
  /\ phase' = "err"
  /\ disk' \in {disk, [disk EXCEPT ![items[k].name] = Empty]}
  /\ UNCHANGED <<input, k, i, entries, timeline, hayabusa>>

\* An image without event logs is an error, a directory without is not.
Extracted ==
  /\ phase = "extract"
  /\ k > Len(items) \/ kind = "RawBlob"
  /\ phase' = CASE kind = "E01" /\ items = <<>> -> "err"
                [] kind = "RawBlob"             -> "carve"
                [] OTHER                        -> AfterExtract
  /\ k' = 1
  /\ UNCHANGED <<input, i, disk, entries, timeline, hayabusa>>

-----------------------------------------------------------------------------
(* carve_blob: chunk i of the k-th file is written as carved_chunk_i, for   *)
(* every file anew from 0.                                                  *)

\* Mutant: the file is named for the item and not for the chunk.
CarveChunkByItem ==
  /\ phase = "carve"
  /\ k <= Len(items)
  /\ i < Len(items[k].chunks)
  /\ IF items[k].chunks[i + 1]
     THEN /\ disk' = [disk EXCEPT ![k - 1] = ChunkOf(k, i)]
          /\ entries' = Append(entries, Entry(k - 1, ChunkOf(k, i), "carved"))
     ELSE UNCHANGED <<disk, entries>>
  /\ i' = i + 1
  /\ UNCHANGED <<input, phase, k, timeline, hayabusa>>

CarveChunk ==
  /\ phase = "carve"
  /\ k <= Len(items)
  /\ i < Len(items[k].chunks)
  /\ IF items[k].chunks[i + 1]
     THEN /\ disk' = [disk EXCEPT ![i] = ChunkOf(k, i)]
          /\ entries' = Append(entries, Entry(i, ChunkOf(k, i), "carved"))
     ELSE UNCHANGED <<disk, entries>>
  /\ i' = i + 1
  /\ UNCHANGED <<input, phase, k, timeline, hayabusa>>

CarveNext ==
  /\ phase = "carve"
  /\ k <= Len(items)
  /\ i = Len(items[k].chunks)
  /\ k' = k + 1
  /\ i' = 0
  /\ UNCHANGED <<input, phase, disk, entries, timeline, hayabusa>>

\* A file cannot be read, or a chunk's file cannot be written.
CarveFails ==
  /\ phase = "carve"
  /\ k <= Len(items)
  /\ phase' = "err"
  /\ \/ UNCHANGED disk
     \/ /\ i < Len(items[k].chunks)
        /\ items[k].chunks[i + 1]
        /\ disk' = [disk EXCEPT ![i] = Empty]
  /\ UNCHANGED <<input, k, i, entries, timeline, hayabusa>>

CarveDone ==
  /\ phase = "carve"
  /\ k > Len(items)
  /\ phase' = "integrity"
  /\ k' = 1
  /\ UNCHANGED <<input, i, disk, entries, timeline, hayabusa>>

-----------------------------------------------------------------------------
(* integrity_for, over all entries, and try_run_hayabusa.                   *)

\* Mutant: what was extracted is examined and not what stands in evtx_dir.
ExamineSource ==
  /\ phase = "integrity"
  /\ k <= Len(entries)
  /\ entries' = [entries EXCEPT ![k].examined = entries[k].from]
  /\ k' = k + 1
  /\ UNCHANGED <<input, phase, i, disk, timeline, hayabusa>>

Examine ==
  /\ phase = "integrity"
  /\ k <= Len(entries)
  /\ entries' = [entries EXCEPT ![k].examined = disk[entries[k].name]]
  /\ k' = k + 1
  /\ UNCHANGED <<input, phase, i, disk, timeline, hayabusa>>

Examined ==
  /\ phase = "integrity"
  /\ k > Len(entries)
  /\ phase' = "hayabusa"
  /\ UNCHANGED <<input, k, i, disk, entries, timeline, hayabusa>>

\* No binary, or it cannot be started; or it runs, and may or may not have
\* replaced the timeline of an earlier run when it fails.
RunHayabusa ==
  /\ phase = "hayabusa"
  /\ phase' = "ok"
  /\ \/ UNCHANGED <<timeline, hayabusa>>
     \/ hayabusa' = "success" /\ timeline' = "new"
     \/ hayabusa' = "failure" /\ timeline' \in {timeline, "new"}
  /\ UNCHANGED <<input, k, i, disk, entries>>

-----------------------------------------------------------------------------
ChunkLists == UNION { [1 .. c -> BOOLEAN] : c \in 0 .. MaxChunks }

Items == [name : FileNames, inside : BOOLEAN, chunks : ChunkLists]

\* Only the walk of a directory meets the same base name twice, and at most
\* once inside evtx_dir; an image holds no files of evtx_dir.
Possible(its) ==
  /\ kind \in {"Evtx", "RawBlob"} => Len(its) = 1
  /\ \A a \in 1 .. Len(its) :
       /\ its[a].inside => kind \in {"Evtx", "Directory"}
       /\ its[a].name \notin Names => kind \in {"Evtx", "Directory"}
  /\ \A a, b \in 1 .. Len(its) :
       a # b /\ its[a].name = its[b].name
         => kind = "Directory" /\ ~(its[a].inside /\ its[b].inside)

Inside == { j \in 1 .. Len(items) : items[j].inside }

\* The item that is the file x of evtx_dir.
ItemAt(x) == CHOOSE j \in Inside : items[j].name = x

InsideNames == { items[j].name : j \in Inside }

ReportInit ==
  /\ kind \in Kinds
  /\ carve \in BOOLEAN
  /\ items \in { its \in UNION { [1 .. m -> Items] : m \in 0 .. MaxItems } : Possible(its) }
  /\ oldRun \in SUBSET FileNames
  /\ InsideNames \subseteq oldRun
  \* the walk that finds one file of evtx_dir finds all of them
  /\ kind = "Directory" /\ Inside # {} => oldRun = InsideNames
  /\ phase = "extract"
  /\ k = 1
  /\ i = 0
  /\ disk = [x \in FileNames |-> IF x \in InsideNames THEN Copy(ItemAt(x))
                                 ELSE IF x \in oldRun THEN Old ELSE Absent]
  /\ entries = <<>>
  /\ timeline \in {"none", "old"}
  /\ hayabusa = "none"

ReportNext == Extract \/ ExtractFails \/ Extracted \/ CarveChunk \/ CarveNext
          \/ CarveFails \/ CarveDone \/ Examine \/ Examined \/ RunHayabusa

\* One thread; hayabusa is waited for and returns.
ReportSpec == ReportInit /\ [][ReportNext]_reportVars /\ WF_reportVars(ReportNext)

-----------------------------------------------------------------------------
\* Nothing in this report uses a name twice.
NamesClear ==
  /\ Inside = {}
  /\ \A a, b \in 1 .. Len(items) : a # b => items[a].name # items[b].name
  /\ kind = "E01" /\ carve => Len(items) <= 1

(* As long as no name is used twice, every entry's file holds what the     *)
(* entry says it holds, and every file found and every carved chunk with   *)
(* records has its entry.                                                  *)
FilesAreOwn ==
  phase = "ok" /\ NamesClear =>
    /\ \A e \in 1 .. Len(entries) : disk[entries[e].name] = entries[e].from
    /\ { entries[e].from : e \in 1 .. Len(entries) } =
         (IF kind = "RawBlob" THEN {} ELSE { Copy(j) : j \in 1 .. Len(items) })
           \cup { ChunkOf(jc[1], jc[2]) : jc \in
                    { jc \in (1 .. Len(items)) \X (0 .. MaxChunks - 1) :
                        /\ kind = "RawBlob" \/ (kind = "E01" /\ carve)
                        /\ jc[2] < Len(items[jc[1]].chunks)
                        /\ items[jc[1]].chunks[jc[2] + 1] } }

(* What a report says of a file is said of what stands at its path when    *)
(* the report is returned: every entry was examined after the last write   *)
(* to its name, what is listed last under a name is what stands there, and *)
(* a file of an earlier run is replaced or kept as it is.                  *)
EntriesHold ==
  phase = "ok" =>
    /\ \A e \in 1 .. Len(entries) : /\ entries[e].examined = disk[entries[e].name]
                                    /\ entries[e].examined \notin {Old, Absent}
    /\ Inside = {} => \A x \in FileNames :
         LET writers == { e \in 1 .. Len(entries) : entries[e].name = x }
         IN  IF writers = {} THEN disk[x] = (IF x \in oldRun THEN Old ELSE Absent)
             ELSE \E e \in writers : /\ \A w \in writers : w <= e
                                     /\ disk[x] = entries[e].from
=============================================================================
