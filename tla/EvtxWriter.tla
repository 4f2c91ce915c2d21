----------------------------- MODULE EvtxWriter ------------------------------
(***************************************************************************)
(* winevt-writer: a list of records is split into batches that fit a chunk *)
(* (split_into_chunks), each batch is laid out as a chunk (build_chunk)    *)
(* and a file header is put in front (records_to_evtx).                    *)
(*                                                                         *)
(* A record is its index in the input; its payload is irrelevant and its   *)
(* on-disk size is given by ends: record r takes ends[r] - ends[r - 1]     *)
(* bytes.  One unit stands for several bytes; Area is MAX_RECORDS_AREA.    *)
(* Offsets in a chunk are counted from the start of its records area.      *)
(***************************************************************************)
EXTENDS Integers, Sequences, FiniteSets

CONSTANTS
  MaxRecords, \* bound on the input
  Area,       \* bytes for records in a chunk
  MaxSize,    \* bound on the size of a record; it may exceed Area
  IdMod,      \* record ids are u64: IdMod is 2^64
  CountMod    \* the chunk count is a u16: CountMod is 2^16

ASSUME WriterAssumption ==
  /\ MaxRecords \in Nat
  /\ Area \in Nat \ {0}
  /\ MaxSize \in Nat \ {0}
  /\ IdMod \in Nat \ {0}
  /\ CountMod \in Nat \ {0}

VARIABLES
  n,        \* records.len()
  ends,     \* ends[r]: total size of the first r records
  id,       \* record ids
  phase,    \* "split", "header", "build", "done" or "panicked"
  next,     \* the next record to put into a batch
  batches,  \* chunks of split_into_chunks: completed batches
  current,  \* the batch being filled
  size,     \* current_size
  out,      \* the chunks written so far
  header    \* the file header

input == <<n, ends, id>>
vars  == <<n, ends, id, phase, next, batches, current, size, out, header>>

SizeOf(r) == ends[r] - ends[r - 1]

NoHeader == [chunkCount |-> 0, nextId |-> 0]  \* nothing written yet

-----------------------------------------------------------------------------
(* split_into_chunks                                                        *)

MustFlush == size + SizeOf(next) > Area /\ current # <<>>

SplitAdd ==
  /\ phase = "split"
  /\ next <= n
  /\ ~MustFlush
  /\ current' = Append(current, next)
  /\ size' = size + SizeOf(next)
  /\ next' = next + 1
  /\ UNCHANGED <<input, phase, batches, out, header>>

\* Mutant: the record that did not fit is not carried over.
SplitFlushLosing ==
  /\ phase = "split"
  /\ next <= n
  /\ MustFlush
  /\ batches' = Append(batches, current)
  /\ current' = <<>>
  /\ size' = 0
  /\ next' = next + 1
  /\ UNCHANGED <<input, phase, out, header>>

SplitFlush ==
  /\ phase = "split"
  /\ next <= n
  /\ MustFlush
  /\ batches' = Append(batches, current)
  /\ current' = <<next>>
  /\ size' = SizeOf(next)
  /\ next' = next + 1
  /\ UNCHANGED <<input, phase, out, header>>

SplitEnd ==
  /\ phase = "split"
  /\ next > n
  /\ batches' = IF current = <<>> THEN batches ELSE Append(batches, current)
  /\ current' = <<>>
  /\ size' = 0
  /\ phase' = "header"
  /\ UNCHANGED <<input, next, out, header>>

-----------------------------------------------------------------------------
(* records_to_evtx: the file header comes first.                            *)

Ids == { id[r] : r \in 1 .. n }

HighestId == CHOOSE x \in Ids : \A y \in Ids : y <= x

\* Mutant: the last record is taken for the one with the highest id.
NextIdOfLast == IF n = 0 THEN 1 ELSE id[n] + 1

NextId == IF n = 0 THEN 1 ELSE HighestId + 1

WriteHeader ==
  /\ phase = "header"
  /\ header' = [chunkCount |-> Len(batches) % CountMod, nextId |-> NextId % IdMod]
  /\ phase' = "build"
  /\ UNCHANGED <<input, next, batches, current, size, out>>

\* id + 1 overflows: a build with overflow checks panics instead of wrapping.
Panic ==
  /\ phase = "header"
  /\ NextId = IdMod
  /\ phase' = "panicked"
  /\ UNCHANGED <<input, next, batches, current, size, out, header>>

-----------------------------------------------------------------------------
(* build_chunk: lay out a batch.  A batch is a slice of the input, so the  *)
(* size of its first m records is a difference of ends.                     *)

Extent(b, m) == IF m = 0 THEN 0 ELSE ends[b[m]] - ends[b[1] - 1]

\* Mutant: a record that ends exactly where the area does is taken to overflow.
PlacedShort(b) ==
  CHOOSE m \in 0 .. Len(b) :
    /\ m = 0 \/ Extent(b, m) < Area
    /\ m < Len(b) => Extent(b, m + 1) >= Area

\* The loop stops at the first record that would overflow the area.
Placed(b) ==
  CHOOSE m \in 0 .. Len(b) :
    /\ Extent(b, m) <= Area
    /\ m < Len(b) => Extent(b, m + 1) > Area

\* first_event_record_number and last_event_record_number are computed from
\* the number of this chunk and the length of this batch.
ChunkOf(b, number) ==
  LET m == Placed(b)
  IN  [recs     |-> SubSeq(b, 1, m),
       firstNum |-> IF m = 0 THEN 0 ELSE number * Len(b) + 1,
       lastNum  |-> IF m = 0 THEN 0 ELSE number * Len(b) + m,
       firstId  |-> IF m = 0 THEN 0 ELSE id[b[1]],
       lastId   |-> IF m = 0 THEN 0 ELSE id[b[m]],
       lastOff  |-> IF m = 0 THEN 0 ELSE Extent(b, Len(b) - 1),
       free     |-> Extent(b, m)]

BuildChunk ==
  /\ phase = "build"
  /\ Len(out) < Len(batches)
  /\ out' = Append(out, ChunkOf(batches[Len(out) + 1], Len(out)))
  /\ UNCHANGED <<input, phase, next, batches, current, size, header>>

Finish ==
  /\ phase = "build"
  /\ Len(out) = Len(batches)
  /\ phase' = "done"
  /\ UNCHANGED <<input, next, batches, current, size, out, header>>

-----------------------------------------------------------------------------
Init ==
  /\ n \in 0 .. MaxRecords
  /\ ends \in [0 .. n -> 0 .. MaxRecords * MaxSize]
  /\ ends[0] = 0
  /\ \A r \in 1 .. n : SizeOf(r) \in 1 .. MaxSize
  /\ id \in [1 .. n -> 0 .. IdMod - 1]
  /\ phase = "split"
  /\ next = 1
  /\ batches = <<>>
  /\ current = <<>>
  /\ size = 0
  /\ out = <<>>
  /\ header = NoHeader

Next == SplitAdd \/ SplitFlush \/ SplitEnd \/ WriteHeader \/ Panic
          \/ BuildChunk \/ Finish

Spec == Init /\ [][Next]_vars /\ WF_vars(Next)

-----------------------------------------------------------------------------
Batch == Seq(1 .. n)

TypeOK ==
  /\ n \in 0 .. MaxRecords
  /\ ends \in [0 .. n -> Nat]
  /\ id \in [1 .. n -> 0 .. IdMod - 1]
  /\ phase \in {"split", "header", "build", "done", "panicked"}
  /\ next \in 1 .. n + 1
  /\ batches \in Seq(Batch)
  /\ current \in Batch
  /\ size \in Nat
  /\ header \in [chunkCount : 0 .. CountMod - 1, nextId : 0 .. IdMod - 1]

(* A slice of the input from record f to record l. *)
IsSlice(b, f, l) ==
  /\ Len(b) = l - f + 1
  /\ \A k \in 1 .. Len(b) : b[k] = f + k - 1

Last(b) == b[Len(b)]

(* No record is lost, repeated or moved by the split: the batches and the  *)
(* one being filled are non-empty slices of the input that join without    *)
(* gap and end where the split stands.                                     *)
SlicesJoin ==
  LET all == IF current = <<>> THEN batches ELSE Append(batches, current)
  IN  /\ \A j \in 1 .. Len(batches) : batches[j] # <<>>
      /\ \A j \in 1 .. Len(all) :
           IsSlice(all[j], IF j = 1 THEN 1 ELSE Last(all[j - 1]) + 1, Last(all[j]))
      /\ next = IF all = <<>> THEN 1 ELSE Last(all[Len(all)]) + 1

(* A batch fits the records area of a chunk, unless it is one record that  *)
(* no chunk can hold.                                                      *)
Fits(b) == Extent(b, Len(b)) <= Area \/ Len(b) = 1

BatchesFit == \A j \in 1 .. Len(batches) : Fits(batches[j])

(* When every record fits a chunk, build_chunk never meets the overflow    *)
(* at which it silently drops the rest of its batch: every chunk holds its *)
(* whole batch and its header describes it (the offset of the last record  *)
(* is where that record starts, free space begins where it ends).          *)
NothingDropped ==
  (\A r \in 1 .. n : SizeOf(r) <= Area) =>
    \A j \in 1 .. Len(out) :
      LET b == batches[j]
      IN  /\ out[j].recs = b
          /\ out[j].free = ends[Last(b)] - ends[b[1] - 1]
          /\ out[j].lastOff = out[j].free - SizeOf(Last(b))
          /\ out[j].firstId = id[b[1]] /\ out[j].lastId = id[Last(b)]

=============================================================================
