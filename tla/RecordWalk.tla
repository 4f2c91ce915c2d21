------------------------------ MODULE RecordWalk ------------------------------
(***************************************************************************)
(* The four walks that recover event records: three of winevt-carver, over *)
(* a region of a chunk, and one of winevt-memory, over a memory buffer:    *)
(*   "strict"      recover_records_from_slice, for a chunk whose header    *)
(*                 CRC holds and for a chunk cut off by the end of data;   *)
(*   "aggressive"  recover_records_aggressive, for a corrupt header;       *)
(*   "free"        carve_chunk_free_space, over the slack of a chunk;      *)
(*   "memory"      scan_memory_buffer, over a buffer of any size.          *)
(*                                                                         *)
(* A region is abstracted to the positions that hold the record magic and, *)
(* for each, the claim that the bytes after it make: the size field,       *)
(* whether the copy of the size at the end of that extent agrees, and      *)
(* whether the payload passes the BinXml heuristic.  A claim may well sit  *)
(* inside another record's payload.                                        *)
(***************************************************************************)
EXTENDS Integers, Sequences

CONSTANTS
  Modes,    \* the walks, a subset of {"strict", "aggressive", "free", "memory"}
  MaxLen,   \* the longest region (65024 bytes in the code, but for a buffer)
  Window,   \* per mode: bytes that must remain for the loop to go on
  MinSize,  \* per mode: the smallest size field that is believed
  MaxSize,  \* the largest one; a region of a chunk ends before it
  Step,     \* per mode: how far the walk moves when it recovers nothing
  Claims,   \* the claims a magic may be followed by
  NoClaim   \* no magic at this position

ASSUME ConstAssumption ==
  /\ MaxLen \in Nat
  /\ MaxSize \in Nat
  /\ Window  \in [Modes -> Nat \ {0}]
  /\ MinSize \in [Modes -> Nat \ {0}]
  /\ Step    \in [Modes -> Nat \ {0}]
  /\ \A m \in Modes : Window[m] <= MinSize[m]
  /\ Claims \subseteq [size : Nat, copy : BOOLEAN, binxml : BOOLEAN]
  /\ NoClaim \notin Claims

VARIABLES
  mode,     \* the walk being made
  len,      \* records_area.len(): what the slice really holds
  claim,    \* the region: position -> claim or NoClaim
  pos,      \* the cursor
  recs,     \* the records recovered so far, in the order they were pushed
  done      \* the walk has returned

image == <<mode, len, claim>>
vars  == <<mode, len, claim, pos, recs, done>>

Positions == 0 .. MaxLen - 1

Marks == {"Valid", "SizeMismatch", "Carved", "Definite", "Probable", "BinXml", "NoBinXml"}

Records == [pos : Nat, size : Nat, mark : Marks]

-----------------------------------------------------------------------------
(* What each walk accepts at a position, and how it marks it.              *)

HasMagic(p) == p \in Positions /\ p < len /\ claim[p] # NoClaim

\* Only the memory scan has an upper bound of its own.
MemoryBound(p) == mode = "memory" => claim[p].size <= MaxSize

SizeFits(p) ==
  /\ claim[p].size >= MinSize[mode]
  /\ MemoryBound(p)
  /\ p + claim[p].size <= len

\* The copy of the size only decides the mark.
StrictMark(p) == IF claim[p].copy THEN "Valid" ELSE "SizeMismatch"

\* With an unreadable header the copy and the payload must both vouch for it.
AggressiveAccepts(p) == claim[p].copy /\ claim[p].binxml

\* The BinXml heuristic only decides the confidence.
FreeMark(p) == IF claim[p].binxml THEN "Definite" ELSE "Probable"

\* The token at the start of the payload is told and not judged.
MemoryMark(p) == IF claim[p].binxml THEN "BinXml" ELSE "NoBinXml"

Accepts(p) ==
  /\ HasMagic(p)
  /\ SizeFits(p)
  /\ mode = "aggressive" => AggressiveAccepts(p)

Mark(p) == CASE mode = "strict"     -> StrictMark(p)
             [] mode = "aggressive" -> "Carved"
             [] mode = "free"       -> FreeMark(p)
             [] OTHER               -> MemoryMark(p)

InLoop == ~done /\ pos + Window[mode] <= len

-----------------------------------------------------------------------------
Init ==
  /\ mode \in Modes
  /\ len \in 0 .. MaxLen
  /\ claim \in [Positions -> Claims \cup {NoClaim}]
  /\ pos = 0
  /\ recs = <<>>
  /\ done = FALSE

\* Mutant: after a record the walk moves on by its step.
RecoverByStep ==
  /\ InLoop
  /\ Accepts(pos)
  /\ recs' = Append(recs, [pos |-> pos, size |-> claim[pos].size, mark |-> Mark(pos)])
  /\ pos' = pos + Step[mode]
  /\ UNCHANGED <<image, done>>

\* Mutant: after a record the cursor is aligned to the step.
RecoverAligned ==
  /\ InLoop
  /\ Accepts(pos)
  /\ recs' = Append(recs, [pos |-> pos, size |-> claim[pos].size, mark |-> Mark(pos)])
  /\ pos' = ((pos + claim[pos].size + Step[mode] - 1) \div Step[mode]) * Step[mode]
  /\ UNCHANGED <<image, done>>

\* A record: push it and continue behind it.
Recover ==
  /\ InLoop
  /\ Accepts(pos)
  /\ recs' = Append(recs, [pos |-> pos, size |-> claim[pos].size, mark |-> Mark(pos)])
  /\ pos' = pos + claim[pos].size
  /\ UNCHANGED <<image, done>>

\* No magic here: try one step further on.
Miss ==
  /\ InLoop
  /\ ~HasMagic(pos)
  /\ pos' = pos + Step[mode]
  /\ UNCHANGED <<image, recs, done>>

\* Mutant: a rejected claim is skipped by its size.
RejectWhole ==
  /\ InLoop
  /\ HasMagic(pos)
  /\ ~Accepts(pos)
  /\ pos' = pos + claim[pos].size
  /\ UNCHANGED <<image, recs, done>>

\* A magic whose claim is not believed: also one step, into the claimed extent.
Reject ==
  /\ InLoop
  /\ HasMagic(pos)
  /\ ~Accepts(pos)
  /\ pos' = pos + Step[mode]
  /\ UNCHANGED <<image, recs, done>>

Return ==
  /\ ~done
  /\ pos + Window[mode] > len
  /\ done' = TRUE
  /\ UNCHANGED <<image, pos, recs>>

Next == Recover \/ Miss \/ Reject \/ Return

\* The walk is a plain loop on one thread: nothing can keep it from going on.
Spec == Init /\ [][Next]_vars /\ WF_vars(Next)

-----------------------------------------------------------------------------
TypeOK ==
  /\ mode \in Modes
  /\ len \in 0 .. MaxLen
  /\ claim \in [Positions -> Claims \cup {NoClaim}]
  /\ pos \in Nat
  /\ recs \in Seq(Records)
  /\ done \in BOOLEAN

Starts == { recs[i].pos : i \in 1 .. Len(recs) }

(* Recovered records come out in file order, end before the next begins    *)
(* and inside the bytes that were read, whatever the size fields say: no   *)
(* byte is reported as belonging to two records of one walk.               *)
NoOverlap ==
  /\ \A i, j \in 1 .. Len(recs) :
       i < j => recs[i].pos + recs[i].size <= recs[j].pos
  /\ \A i \in 1 .. Len(recs) : recs[i].pos + recs[i].size <= len

(* A run: records laid end to end from the start of the region, as the     *)
(* event log service and this suite's own writer lay them.                 *)
IsRun(S) ==
  /\ S # {} => 0 \in S
  /\ \A p \in S : Accepts(p)
  /\ \A p \in S \ {0} : \E q \in S : q + claim[q].size = p

Acceptable == { p \in Positions : Accepts(p) }

(* Every record of a run the walk has passed was recovered, whatever the   *)
(* record sizes are (they need not be a multiple of the step), and however *)
(* many magics their payloads contain.                                     *)
RunRecovered ==
  \A S \in SUBSET Acceptable :
    IsRun(S) => \A p \in S : p < pos => p \in Starts

OnGrid(p) == p % Step[mode] = 0

SizesOnGrid == \A p \in Acceptable : claim[p].size % Step[mode] = 0

Covered(p) == \E i \in 1 .. Len(recs) :
                recs[i].pos <= p /\ p < recs[i].pos + recs[i].size

(* When every acceptable size is a multiple of the step, a believable      *)
(* record on the grid that the walk has passed was either recovered or     *)
(* lies inside a recovered one: rejecting a claim never hides what follows *)
(* it.                                                                     *)
NoneSkipped ==
  SizesOnGrid => \A p \in Acceptable : p < pos /\ OnGrid(p) => Covered(p)

(* The walk returns, whatever the bytes: even a size field of zero moves   *)
(* the cursor on.                                                          *)
Terminates == <>done

=============================================================================
