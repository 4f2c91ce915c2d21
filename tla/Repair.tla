------------------------------- MODULE Repair --------------------------------
(***************************************************************************)
(* repair_evtx recomputes the checksums of an .evtx file: that of the file *)
(* header, and those of every chunk on the grid that starts behind it.     *)
(* The file it writes can be repaired again or verified: verification is   *)
(* the scan of module ChunkScan, which looks for chunks at every word and  *)
(* knows of no grid.                                                       *)
(***************************************************************************)
EXTENDS ChunkScan

CONSTANTS
  FileHeader,  \* words in the file header
  NoChunk      \* a place on the grid without the chunk magic

ASSUME FileHeaderAssumption == FileHeader \in 1 .. N

\* Where repair looks for chunks: whole ones only.
Grid == { w \in Words : w >= FileHeader /\ (w - FileHeader) % C = 0 /\ w + C <= N }

\* A chunk on the grid.  Its area checksum covers the records up to the
\* free-space offset: "open" when that offset leaves nothing to be checked.
\* The header checksum covers the area checksum, among other fields.
GridChunks == [parses : BOOLEAN, crc : BOOLEAN, area : {"ok", "bad", "open"}]

ASSUME NoChunkAssumption == NoChunk \notin GridChunks

VARIABLES
  chunk,     \* the file as read into memory: Grid -> chunk or NoChunk
  strays,    \* words off the grid with the chunk magic
  fileCrc,   \* checksum of the file header: "ok", "bad", or "absent"
  rphase,    \* "file", "chunks", "write", "written", "failed" or "verify"
  off,       \* offset
  pass,      \* how often the file was repaired
  checked, repaired, headerRepaired,  \* the RepairReport
  given      \* ghost: chunk as it was before the first repair

fileVars   == <<chunk, strays, fileCrc, given>>
report     == <<checked, repaired, headerRepaired>>
repairVars == <<fileVars, rphase, off, pass, report>>

-----------------------------------------------------------------------------
RepairFileHeader ==
  /\ rphase = "file"
  /\ headerRepaired' = (fileCrc = "bad")
  /\ fileCrc' = IF fileCrc = "bad" THEN "ok" ELSE fileCrc
  /\ off' = FileHeader
  /\ rphase' = "chunks"
  /\ UNCHANGED <<vars, chunk, strays, given, pass, checked, repaired>>

\* Storing a new area checksum changes the header.
FixArea(c) == IF c.area = "bad" THEN [c EXCEPT !.area = "ok", !.crc = FALSE] ELSE c

FixCrc(c) == [c EXCEPT !.crc = TRUE]

\* Mutant: the header is summed before the area checksum in it is renewed.
FixedBackwards(c) == FixArea(FixCrc(c))

Fixed(c) == FixCrc(FixArea(c))

\* Mutant: a chunk counts as repaired only when its area was wrong.
NeedsFixArea(c) == c.area = "bad"

NeedsFix(c) == c.area = "bad" \/ ~FixArea(c).crc

RepairChunk ==
  /\ rphase = "chunks"
  /\ off + C <= N
  /\ chunk[off] # NoChunk
  /\ checked' = checked + 1
  /\ repaired' = repaired + IF NeedsFix(chunk[off]) THEN 1 ELSE 0
  /\ chunk' = [chunk EXCEPT ![off] = Fixed(@)]
  /\ off' = off + C
  /\ UNCHANGED <<vars, strays, fileCrc, given, rphase, pass, headerRepaired>>

PassSlot ==
  /\ rphase = "chunks"
  /\ off + C <= N
  /\ chunk[off] = NoChunk
  /\ off' = off + C
  /\ UNCHANGED <<vars, fileVars, rphase, pass, report>>

GridDone ==
  /\ rphase = "chunks"
  /\ off + C > N
  /\ rphase' = "write"
  /\ UNCHANGED <<vars, fileVars, off, pass, report>>

Write ==
  /\ rphase = "write"
  /\ rphase' = "written"
  /\ UNCHANGED <<vars, fileVars, off, pass, report>>

\* Nothing can be said of the output file then.
WriteFails ==
  /\ rphase = "write"
  /\ rphase' = "failed"
  /\ UNCHANGED <<vars, fileVars, off, pass, report>>

-----------------------------------------------------------------------------
\* The output is repaired once more.
Again ==
  /\ rphase = "written"
  /\ pass = 1
  /\ pass' = 2
  /\ rphase' = "file"
  /\ checked' = 0 /\ repaired' = 0 /\ headerRepaired' = FALSE
  /\ UNCHANGED <<vars, fileVars, off>>

HeadOf(c) == IF c = NoChunk THEN "none"
             ELSE IF ~c.parses THEN "garbled"
             ELSE IF c.crc THEN "sound" ELSE "badcrc"

\* Or it is verified.  A repair may write into the extent of a stray chunk:
\* nothing is known of its checksums then.
Reopen ==
  /\ rphase = "written"
  /\ rphase' = "verify"
  /\ \E h \in [strays -> Heads \ {"none"}] :
       head' = [w \in Words |-> IF w \in Grid THEN HeadOf(chunk[w])
                                ELSE IF w \in strays THEN h[w] ELSE "none"]
  /\ UNCHANGED <<phase, i, full, truncated, todo, carved, chunks, stats>>
  /\ UNCHANGED <<fileVars, off, pass, report>>

Verify ==
  /\ rphase = "verify"
  /\ Next
  /\ UNCHANGED repairVars

-----------------------------------------------------------------------------
RepairInit ==
  /\ chunk \in [Grid -> GridChunks \cup {NoChunk}]
  /\ strays \in SUBSET (Words \ Grid)
  /\ fileCrc \in {"ok", "bad", "absent"}
  /\ rphase = "file"
  /\ off = 0
  /\ pass = 1
  /\ checked = 0 /\ repaired = 0 /\ headerRepaired = FALSE
  /\ given = chunk
  /\ head = [w \in Words |-> "none"]
  /\ phase = "scan"
  /\ i = 0
  /\ full = <<>>
  /\ truncated = <<>>
  /\ todo = {}
  /\ carved = <<>>
  /\ chunks = <<>>
  /\ stats = NoStats

RepairNext ==
  RepairFileHeader \/ RepairChunk \/ PassSlot \/ GridDone \/ Write \/ WriteFails
    \/ Again \/ Reopen \/ Verify

RepairSpec == RepairInit /\ [][RepairNext]_<<vars, repairVars>>

-----------------------------------------------------------------------------
(* The report of a pass tells what the pass changed: the first counts the  *)
(* chunks that are not as they were, and a second pass over the file       *)
(* written has nothing to repair.  (The code counts chunks it gave new      *)
(* checksums; the README's report counts chunks recovered and skipped.)    *)
ReportTrue ==
  /\ pass = 1 /\ rphase \in {"written", "verify"} =>
       /\ checked = Cardinality({ g \in Grid : given[g] # NoChunk })
       /\ repaired = Cardinality({ g \in Grid : chunk[g] # given[g] })
  /\ pass = 2 /\ rphase \notin {"file", "chunks"} => repaired = 0 /\ ~headerRepaired

(* Verifying a repaired file raises no checksum indicator: every chunk     *)
(* that parses is found again and is Valid, its area checksum holds, and   *)
(* the file header's holds.  (If no stray magic stands in the file: one    *)
(* before a chunk makes the scan jump over it.)  Among them are the chunks *)
(* given with wrong checksums, which the README has left out.              *)
RepairedVerifies ==
  rphase = "verify" /\ phase = "done" /\ strays = {} =>
    /\ { chunks[k].offset : k \in 1 .. Len(chunks) }
         = { g + OffsetBase : g \in { w \in Grid : chunk[w] # NoChunk /\ chunk[w].parses } }
    /\ \A k \in 1 .. Len(chunks) :
         /\ chunks[k].integrity = "Valid"
         /\ chunk[chunks[k].offset - OffsetBase].area # "bad"
    /\ fileCrc # "bad"

Fails(c) == ~c.crc \/ c.area = "bad"

(* README.md:287: repair "skips chunks that fail CRC32 verification".  No   *)
(* chunk that was given with a wrong checksum is one with the right ones   *)
(* in the file written.  The code does not skip such a chunk: it renews    *)
(* its checksums, over whatever damage it has.                             *)
FailedChunksSkipped ==
  rphase = "written" =>
    \A g \in Grid : given[g] # NoChunk /\ Fails(given[g]) => chunk[g] = NoChunk \/ Fails(chunk[g])

=============================================================================
