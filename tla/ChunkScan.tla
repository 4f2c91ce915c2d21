------------------------------ MODULE ChunkScan ------------------------------
(***************************************************************************)
(* carve_from_bytes: a sequential scan for the chunk magic at every 8-byte *)
(* word (pass 1), the complete chunks handed to the rayon pool (pass 2),   *)
(* the results sorted, merged with the truncated chunks and counted.       *)
(*                                                                         *)
(* The unit is the 8-byte word the scan moves by.  The image is abstracted *)
(* to what stands at each word: no chunk magic, or a chunk header that is  *)
(* sound, fails its CRC, or does not parse.  What the record walks recover *)
(* from a chunk (module RecordWalk) is the parameter Found.                *)
(***************************************************************************)
EXTENDS Integers, Sequences, FiniteSets, Ordering

CONSTANTS
  N,          \* words in the image
  C,          \* words in a chunk (CHUNK_SIZE / 8)
  H,          \* words a chunk header takes: fewer do not parse
  OffsetBase, \* config.offset_base
  Found       \* word -> offsets in the chunk there of the records recovered

ASSUME ScanAssumption ==
  /\ N \in Nat
  /\ C \in Nat \ {0}
  /\ H \in 1 .. C
  /\ OffsetBase \in Nat
  /\ Found \in [0 .. N - 1 -> SUBSET Nat]
  /\ \A w \in 0 .. N - 1 : IsFiniteSet(Found[w])

Words == 0 .. N - 1

\* What EvtxChunkHeader::parse and the header CRC make of a word.
Heads == {"none", "sound", "badcrc", "garbled"}

Integrities == {"Valid", "HeaderCorrupt", "Truncated"}

VARIABLES
  head,       \* the image
  phase,      \* "scan", "pool", "done"
  i,          \* cursor of pass 1
  full,       \* full_offsets, in the order they were pushed
  truncated,  \* truncated_chunks
  todo,       \* the indices of full whose closure has not run
  carved,     \* the results of the closures, as they arrive
  chunks,     \* result.chunks
  stats       \* result.stats

vars == <<head, phase, i, full, truncated, todo, carved, chunks, stats>>

Magics == { w \in Words : head[w] # "none" }

NoStats == [found |-> 0, valid |-> 0, corrupt |-> 0, records |-> 0, badRecords |-> 0]

-----------------------------------------------------------------------------
(* Pass 1.                                                                  *)

Scanning == phase = "scan" /\ i < N

\* Mutant: it goes on inside the chunk when the header does not parse.
ScanFullDoubting ==
  /\ Scanning
  /\ head[i] # "none"
  /\ i + C <= N
  /\ full' = Append(full, i)
  /\ i' = IF head[i] = "garbled" THEN i + 1 ELSE i + C
  /\ UNCHANGED <<head, phase, truncated, todo, carved, chunks, stats>>

\* A magic with a whole chunk behind it: queue it and jump over the chunk,
\* before anything has been said about its header.
ScanFull ==
  /\ Scanning
  /\ head[i] # "none"
  /\ i + C <= N
  /\ full' = Append(full, i)
  /\ i' = i + C
  /\ UNCHANGED <<head, phase, truncated, todo, carved, chunks, stats>>

\* A chunk cut off by the end of the data is carved at once, if its header
\* parses (whatever its CRC); the scan goes on inside it.
TruncatedChunk(w) ==
  [offset |-> w + OffsetBase, integrity |-> "Truncated", recs |-> Found[w]]

ScanTruncated ==
  /\ Scanning
  /\ head[i] # "none"
  /\ i + C > N
  /\ truncated' = IF head[i] # "garbled" /\ i + H <= N
                  THEN Append(truncated, TruncatedChunk(i))
                  ELSE truncated
  /\ i' = i + 1
  /\ UNCHANGED <<head, phase, full, todo, carved, chunks, stats>>

\* Mutant: the scan moves by two words.
ScanMissTwo ==
  /\ Scanning
  /\ head[i] = "none"
  /\ i' = i + 2
  /\ UNCHANGED <<head, phase, full, truncated, todo, carved, chunks, stats>>

ScanMiss ==
  /\ Scanning
  /\ head[i] = "none"
  /\ i' = i + 1
  /\ UNCHANGED <<head, phase, full, truncated, todo, carved, chunks, stats>>

StartPool ==
  /\ phase = "scan"
  /\ i >= N
  /\ phase' = "pool"
  /\ todo' = 1 .. Len(full)
  /\ UNCHANGED <<head, i, full, truncated, carved, chunks, stats>>

-----------------------------------------------------------------------------
(* Pass 2: closures on the pool read the image and touch nothing shared;   *)
(* nothing is assumed of the order in which their results are collected.   *)

\* process_full_chunk and the shift by offset_base that follows it.
FullChunk(w) ==
  [offset    |-> w + OffsetBase,
   integrity |-> IF head[w] = "sound" THEN "Valid" ELSE "HeaderCorrupt",
   recs      |-> { r + OffsetBase : r \in Found[w] }]

CarveChunk(k) ==
  /\ phase = "pool"
  /\ k \in todo
  /\ todo' = todo \ {k}
  /\ carved' = IF head[full[k]] = "garbled" THEN carved
               ELSE Append(carved, FullChunk(full[k]))
  /\ UNCHANGED <<head, phase, i, full, truncated, chunks, stats>>

-----------------------------------------------------------------------------
(* Merge, sort and count.                                                   *)

\* Mutant: results stay in the order of their arrival.
AsArrived(s) == s

Sorted(s) == SortedBy(s, [k \in 1 .. Len(s) |-> s[k].offset])

CountChunk(st, c) ==
  [found      |-> st.found + 1,
   valid      |-> st.valid + IF c.integrity = "Valid" THEN 1 ELSE 0,
   corrupt    |-> st.corrupt + IF c.integrity = "HeaderCorrupt" THEN 1 ELSE 0,
   records    |-> st.records + Cardinality(c.recs),
   \* the aggressive walk marks every record it recovers as Carved
   badRecords |-> st.badRecords
                    + IF c.integrity = "HeaderCorrupt" THEN Cardinality(c.recs) ELSE 0]

CountAll(cs) ==
  LET upTo[k \in 0 .. Len(cs)] ==
        IF k = 0 THEN NoStats ELSE CountChunk(upTo[k - 1], cs[k])
  IN  upTo[Len(cs)]

Merge ==
  /\ phase = "pool"
  /\ todo = {}
  /\ chunks' = Sorted(Sorted(carved) \o truncated)
  /\ stats' = CountAll(chunks')
  /\ phase' = "done"
  /\ UNCHANGED <<head, i, full, truncated, todo, carved>>

-----------------------------------------------------------------------------
Init ==
  /\ head \in [Words -> Heads]
  /\ phase = "scan"
  /\ i = 0
  /\ full = <<>>
  /\ truncated = <<>>
  /\ todo = {}
  /\ carved = <<>>
  /\ chunks = <<>>
  /\ stats = NoStats

Scan == ScanFull \/ ScanTruncated \/ ScanMiss \/ StartPool

Pool == \E k \in 1 .. Len(full) : CarveChunk(k)

Next == Scan \/ Pool \/ Merge

\* The calling thread runs on, and the pool runs every closure.
Spec == Init /\ [][Next]_vars /\ WF_vars(Scan) /\ WF_vars(Pool) /\ WF_vars(Merge)

-----------------------------------------------------------------------------
FullOffsets == { full[k] : k \in 1 .. Len(full) }

(* Complete chunks are queued in file order, never overlap and never reach *)
(* beyond the data: the slices the closures take are in bounds and no byte *)
(* is carved by two of them.                                               *)
FullDisjoint ==
  /\ \A k \in 1 .. Len(full) : full[k] + C <= N
  /\ \A j, k \in 1 .. Len(full) : j < k => full[j] + C <= full[k]

(* No magic the scan has passed is forgotten: it was queued, or it lies    *)
(* inside a queued chunk, or too little data follows it for a whole chunk. *)
MagicsAccounted ==
  \A m \in Magics : m < i =>
    \/ m \in FullOffsets
    \/ \E f \in FullOffsets : f < m /\ m < f + C
    \/ m + C > N

(* Chunks laid end to end behind a prefix without magics, as in an .evtx   *)
(* file, are all queued, whatever the chunks' contents look like.          *)
IsGrid(S) ==
  /\ S \subseteq { m \in Magics : m + C <= N }
  /\ \A s \in S : s - C \in S \/ \A m \in Magics : s <= m

GridQueued ==
  \A S \in SUBSET Magics : IsGrid(S) => \A s \in S : s < i => s \in FullOffsets

(* Every chunk is counted once as valid, corrupt or truncated, and the     *)
(* records of corrupt chunks, and only they, as corrupt.                   *)
StatsAgree ==
  LET recsOf(T) == UNION { {k} \X chunks[k].recs :
                             k \in { j \in DOMAIN chunks : chunks[j].integrity \in T } }
  IN  /\ stats.found = Len(chunks)
      /\ stats.valid + stats.corrupt + Len(truncated) = stats.found
      /\ stats.records = Cardinality(recsOf(Integrities))
      /\ stats.badRecords = Cardinality(recsOf({"HeaderCorrupt"}))

(* The result does not depend on the order in which the pool's closures    *)
(* finish: it holds every queued chunk that parses and every truncated     *)
(* one, once, by increasing offset, and the counters are theirs.           *)
ResultDetermined ==
  phase = "done" =>
    /\ { chunks[k] : k \in 1 .. Len(chunks) } =
         { FullChunk(w) : w \in { f \in FullOffsets : head[f] # "garbled" } }
           \cup { truncated[k] : k \in 1 .. Len(truncated) }
    /\ \A a, b \in 1 .. Len(chunks) : a < b => chunks[a].offset < chunks[b].offset
    /\ StatsAgree

(* Pass 1 tiles the image.                                                 *)
Tiling == INSTANCE ChunkTiling WITH magics <- Magics, taken <- FullOffsets

TilesImage == Tiling!Spec
=============================================================================
