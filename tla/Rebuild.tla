------------------------------- MODULE Rebuild -------------------------------
(***************************************************************************)
(* A blob given to ev4n6 is not analysed itself: the records carved from   *)
(* it are written to a temporary .evtx file (module EvtxWriter) and that   *)
(* file is the source every command works on.  `verify` carves it again,   *)
(* walking the records of each chunk (module RecordWalk) and checking the  *)
(* chunk headers against each other and against the file header.           *)
(*                                                                         *)
(* Payload bytes are arbitrary: a magic may stand anywhere inside a record.*)
(***************************************************************************)
EXTENDS EvtxWriter

CONSTANTS
  InnerClaims, \* what a magic inside a payload may claim
  NoClaim

ASSUME RebuildAssumption ==
  /\ IdMod > 1
  /\ NoClaim \notin [size : Nat, copy : BOOLEAN, binxml : BOOLEAN]

VARIABLES
  chunkNo,  \* the chunk being walked, 0 before the first
  mode,     \* its header is sound: the walk is the strict one
  len,      \* over the whole records area, beyond the free-space offset too
  claim,    \* what stands in that area
  pos,      \* the walk's cursor,
  recs,     \* the records it recovered
  done,     \* and whether it has returned
  reread,   \* all records recovered from the chunks walked before
  verified, \* the cross-chunk checks have been made
  alarms    \* the indicators they reported

readVars == <<chunkNo, mode, len, claim, pos, recs, done, reread, verified, alarms>>

AllSizes == 1 .. MaxSize

Walk == INSTANCE RecordWalk WITH
  Modes   <- {"strict"},
  MaxLen  <- Area,
  Window  <- [m \in {"strict"} |-> 1],
  MinSize <- [m \in {"strict"} |-> 1],
  Step    <- [m \in {"strict"} |-> 1],
  Claims  <- [size : AllSizes, copy : BOOLEAN, binxml : BOOLEAN]

-----------------------------------------------------------------------------
(* build_record_bytes and build_chunk: where the records of a chunk stand. *)

StartOf(c, m) == Extent(c.recs, m - 1)

RecordClaim(r) == [size |-> SizeOf(r), copy |-> TRUE, binxml |-> TRUE]

\* The records areas that the chunk can have: its records end to end, zeros
\* behind them, any payload inside them.
IsRegion(f, c) ==
  \A p \in 0 .. Area - 1 :
    LET at == { m \in 1 .. Len(c.recs) : StartOf(c, m) = p }
    IN  /\ p >= c.free => f[p] = NoClaim
        /\ \A m \in at : f[p] = RecordClaim(c.recs[m])

Regions(c) ==
  { f \in [0 .. Area - 1 -> InnerClaims \cup {NoClaim}
                              \cup { RecordClaim(r) : r \in 1 .. n }] :
      /\ IsRegion(f, c)
      /\ \A p \in 0 .. c.free - 1 :
           (\A m \in 1 .. Len(c.recs) : StartOf(c, m) # p)
             => f[p] \in InnerClaims \cup {NoClaim} }

-----------------------------------------------------------------------------
(* verify_integrity of the file written.                                    *)

Reading == phase = "done" /\ ~verified

BeginChunk ==
  /\ Reading
  /\ done
  /\ chunkNo < Len(out)
  /\ chunkNo' = chunkNo + 1
  /\ claim' \in Regions(out[chunkNo + 1])
  /\ pos' = 0
  /\ recs' = <<>>
  /\ done' = FALSE
  /\ UNCHANGED <<vars, mode, len, reread, verified, alarms>>

WalkChunk ==
  /\ Reading
  /\ ~done
  /\ Walk!Next
  /\ reread' = IF done' THEN reread \o recs ELSE reread
  /\ UNCHANGED <<vars, chunkNo, verified, alarms>>

\* detect_record_id_gaps
GapAlarms == { <<"RecordIdGap", j>> : j \in
                 { k \in 1 .. Len(out) - 1 : out[k + 1].firstNum # out[k].lastNum + 1 } }

\* check_file_header_consistency over the highest last_event_record_id
HighestLastId ==
  IF out = <<>> THEN 0
  ELSE CHOOSE x \in { out[j].lastId : j \in 1 .. Len(out) } :
         \A j \in 1 .. Len(out) : out[j].lastId <= x

HeaderAlarms ==
  (IF header.nextId <= HighestLastId THEN {"NextRecordIdInconsistency"} ELSE {})
    \cup (IF header.chunkCount # Len(out) THEN {"ChunkCountMismatch"} ELSE {})

CrossCheck ==
  /\ Reading
  /\ done
  /\ chunkNo = Len(out)
  /\ verified' = TRUE
  /\ alarms' = { <<a, 0>> : a \in HeaderAlarms } \cup GapAlarms
  /\ UNCHANGED <<vars, chunkNo, mode, len, claim, pos, recs, done, reread>>

-----------------------------------------------------------------------------
ReadInit ==
  /\ chunkNo = 0
  /\ mode = "strict"
  /\ len = Area
  /\ claim = [p \in 0 .. Area - 1 |-> NoClaim]
  /\ pos = 0
  /\ recs = <<>>
  /\ done = TRUE
  /\ reread = <<>>
  /\ verified = FALSE
  /\ alarms = {}

Write == Next /\ UNCHANGED readVars

RebuildNext == Write \/ BeginChunk \/ WalkChunk \/ CrossCheck

RebuildSpec == Init /\ ReadInit /\ [][RebuildNext]_<<vars, readVars>>

-----------------------------------------------------------------------------
AllFit == \A r \in 1 .. n : SizeOf(r) <= Area

(* The records read back are the records that were written, all of them,   *)
(* once and in order, whatever their payloads contain.                     *)
RoundTrip ==
  AllFit =>
    /\ Len(reread) <= n
    /\ \A k \in 1 .. Len(reread) : reread[k].size = SizeOf(k) /\ reread[k].mark = "Valid"
    /\ verified => Len(reread) = n

(* The file header that records_to_evtx writes does not itself trigger the *)
(* header checks, as long as ids and chunk count stay within their fields. *)
HeaderHonest ==
  /\ verified /\ (\A r \in 1 .. n : id[r] < IdMod - 1)
       => <<"NextRecordIdInconsistency", 0>> \notin alarms
  /\ verified /\ Len(batches) < CountMod
       => <<"ChunkCountMismatch", 0>> \notin alarms

(* "sequence numbers within the log, 1-based": the chunks of one written   *)
(* file number their records without gap, so that a RecordIdGap means that *)
(* records are absent.                                                     *)
NumbersJoin == AllFit => \A j \in 1 .. Len(out) : <<"RecordIdGap", j>> \notin alarms
=============================================================================
