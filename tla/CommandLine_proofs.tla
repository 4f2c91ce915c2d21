-------------------------- MODULE CommandLine_proofs --------------------------
(***************************************************************************)
(* Proofs about the report pipeline, for any number of files found, carved *)
(* chunks and names: what stands in evtx_dir when it is returned.  Then    *)
(* about the command line that runs it, for any number of arguments: what  *)
(* exit code 0 means, what a timeline cut short leaves out and where the   *)
(* records of a blob come from.                                            *)
(***************************************************************************)
EXTENDS CommandLine, CommonLemmas

Origins == { Copy(j) : j \in Nat } \cup { ChunkOf(j, c) : j \in Nat, c \in Nat }

Contents == Origins \cup {Old, Empty, Absent}

Entries ==
  [name : FileNames, from : Origins, source : {"filesystem", "carved"},
   examined : Contents \cup {NotExamined}]

ReportTypeOK ==
  /\ kind \in Kinds
  /\ items \in Seq(Items)
  /\ phase \in {"extract", "carve", "integrity", "hayabusa", "ok", "err"}
  /\ k \in Nat \ {0}
  /\ i \in Nat
  /\ disk \in [FileNames -> Contents]
  /\ entries \in Seq(Entries)

-----------------------------------------------------------------------------
LEMMA ItemsTyped == ReportInit => items \in Seq(Items)
<1> SUFFICES ASSUME ReportInit PROVE items \in Seq(Items)
  OBVIOUS
<1>1. PICK m \in 0 .. MaxItems : items \in [1 .. m -> Items]
  BY DEF ReportInit
<1>2. m \in Nat
  BY <1>1, ReportAssumption
<1>. QED  BY <1>1, <1>2, SeqDef

LEMMA ChunkNumbers ==
  ASSUME NEW it \in Items, NEW n \in Nat, n < Len(it.chunks)
  PROVE  n \in 0 .. MaxChunks - 1
<1>1. PICK c \in 0 .. MaxChunks : it.chunks \in [1 .. c -> BOOLEAN]
  BY DEF Items, ChunkLists
<1>2. c \in Nat /\ it.chunks \in Seq(BOOLEAN)
  BY <1>1, ReportAssumption, SeqDef
<1>3. Len(it.chunks) = c
  BY <1>1, <1>2, LenProperties
<1>. QED  BY <1>1, <1>2, <1>3, ReportAssumption

LEMMA ReportTypeInit == ReportInit => ReportTypeOK
<1> SUFFICES ASSUME ReportInit PROVE ReportTypeOK
  OBVIOUS
<1>1. items \in Seq(Items)
  BY ItemsTyped
<1>2. \A x \in InsideNames : ItemAt(x) \in Inside
  BY DEF InsideNames, ItemAt
<1>3. Inside \subseteq Nat
  BY <1>1, LenProperties DEF Inside
<1>4. disk \in [FileNames -> Contents]
  BY <1>2, <1>3 DEF ReportInit, Contents, Origins
<1>. QED  BY <1>1, <1>4, EmptySeq DEF ReportInit, ReportTypeOK

LEMMA ReportTypeInductive == ReportTypeOK /\ [ReportNext]_reportVars => ReportTypeOK'
<1> SUFFICES ASSUME ReportTypeOK, [ReportNext]_reportVars PROVE ReportTypeOK'
  OBVIOUS
<1> USE DEF ReportTypeOK, input
<1>a. ASSUME k <= Len(items) PROVE items[k] \in Items /\ items[k].name \in FileNames
  <2>1. items[k] \in Items
    BY <1>a, LenProperties, ElementOfSeq
  <2>. QED  BY <2>1 DEF Items
<1>b. \A j \in Nat : Copy(j) \in Origins
  BY DEF Origins
<1>c. \A j, c \in Nat : ChunkOf(j, c) \in Origins
  BY DEF Origins
<1>1. CASE Extract
  <2>1. items[k].name \in FileNames /\ Copy(k) \in Origins /\ Copied(k) \in Contents
    BY <1>1, <1>a, <1>b DEF Extract, Copied, Contents
  <2>2. disk' \in [FileNames -> Contents]
    BY <1>1, <2>1 DEF Extract
  <2>3. Entry(items[k].name, Copy(k), "filesystem") \in Entries
    BY <2>1 DEF Entry, Entries
  <2>4. entries' \in Seq(Entries)
    BY <1>1, <2>3, AppendProperties DEF Extract
  <2>. QED  BY <1>1, <2>2, <2>4 DEF Extract
<1>2. CASE ExtractFails
  BY <1>2 DEF ExtractFails, Contents
<1>3. CASE Extracted
  BY <1>3 DEF Extracted, AfterExtract, Kinds
<1>4. CASE CarveChunk
  <2>1. i \in FileNames /\ ChunkOf(k, i) \in Origins
    BY <1>4, <1>a, <1>c, ChunkNumbers DEF CarveChunk, FileNames
  <2>2. disk' \in [FileNames -> Contents]
    BY <1>4, <2>1 DEF CarveChunk, Contents
  <2>3. Entry(i, ChunkOf(k, i), "carved") \in Entries
    BY <2>1 DEF Entry, Entries
  <2>4. entries' \in Seq(Entries)
    <3>1. Append(entries, Entry(i, ChunkOf(k, i), "carved")) \in Seq(Entries)
      BY <2>3, AppendProperties
    <3>. QED  BY <1>4, <3>1 DEF CarveChunk
  <2>. QED  BY <1>4, <2>2, <2>4 DEF CarveChunk
<1>5. CASE CarveNext
  BY <1>5 DEF CarveNext
<1>6. CASE CarveFails
  BY <1>6 DEF CarveFails, Contents
<1>7. CASE CarveDone
  BY <1>7 DEF CarveDone
<1>8. CASE Examine
  <2>1. k \in 1 .. Len(entries) /\ entries[k] \in Entries
    BY <1>8, LenProperties, ElementOfSeq DEF Examine
  <2>2. disk[entries[k].name] \in Contents
    BY <2>1 DEF Entries
  <2>3. [entries[k] EXCEPT !.examined = disk[entries[k].name]] \in Entries
    BY <2>1, <2>2 DEF Entries
  <2>4. entries' \in Seq(Entries)
    BY <1>8, <2>1, <2>3, ExceptSeq DEF Examine
  <2>. QED  BY <1>8, <2>4 DEF Examine
<1>9. CASE Examined
  BY <1>9 DEF Examined
<1>10. CASE RunHayabusa
  BY <1>10 DEF RunHayabusa
<1>11. CASE UNCHANGED reportVars
  BY <1>11 DEF reportVars
<1>. QED  BY <1>1, <1>2, <1>3, <1>4, <1>5, <1>6, <1>7, <1>8, <1>9, <1>10, <1>11 DEF ReportNext

-----------------------------------------------------------------------------
(* What stands in evtx_dir, and what is said of it.                         *)

\* A file that is listed was written by this run, and is not cut off to
\* nothing at all.
Listed == \A e \in 1 .. Len(entries) : disk[entries[e].name] \notin {Old, Absent}

\* The last entry of a name says where the file under that name is from.
LastIsThere(x) ==
  \/ /\ \A e \in 1 .. Len(entries) : entries[e].name # x
     /\ disk[x] = IF x \in oldRun THEN Old ELSE Absent
  \/ \E e \in 1 .. Len(entries) :
       /\ entries[e].name = x
       /\ \A w \in 1 .. Len(entries) : entries[w].name = x => w <= e
       /\ disk[x] = entries[e].from

LastOnesThere ==
  phase # "err" /\ Inside = {} => \A x \in FileNames : LastIsThere(x)

\* The entries behind the cursor were examined as their files are.
ExaminedSoFar ==
  /\ phase = "integrity" =>
       \A e \in 1 .. Len(entries) : e < k => entries[e].examined = disk[entries[e].name]
  /\ phase \in {"hayabusa", "ok"} =>
       \A e \in 1 .. Len(entries) : entries[e].examined = disk[entries[e].name]

HoldInv == Listed /\ LastOnesThere /\ ExaminedSoFar

LEMMA NoneIsOld ==
  ASSUME NEW x \in Origins \cup {Empty}
  PROVE  x # Old /\ x # Absent
  BY DEF Origins, Copy, ChunkOf, Old, Absent, Empty

LEMMA EntriesAreFiles ==
  ASSUME ReportTypeOK, NEW e \in 1 .. Len(entries)
  PROVE  entries[e].name \in FileNames
<1>1. entries[e] \in Entries
  BY ElementOfSeq DEF ReportTypeOK
<1>. QED  BY <1>1 DEF Entries

(* A file is written and listed: the new entry is the last of its name and *)
(* the others are what they were.                                          *)
LEMMA WriteKeepsListed ==
  ASSUME ReportTypeOK, Listed,
         NEW x \in FileNames, NEW c \in Origins \cup {Empty}, NEW new, new.name = x,
         disk' = [disk EXCEPT ![x] = c], entries' = Append(entries, new)
  PROVE  Listed'
<1>1. /\ Len(entries) \in Nat /\ Len(entries') = Len(entries) + 1
      /\ \A e \in 1 .. Len(entries) : entries'[e] = entries[e]
      /\ entries'[Len(entries) + 1] = new
  BY AppendProperties, LenProperties DEF ReportTypeOK
<1>2. \A y \in FileNames : disk'[y] = IF y = x THEN c ELSE disk[y]
  BY DEF ReportTypeOK
<1>3. \A e \in 1 .. Len(entries) : entries[e].name \in FileNames
  BY EntriesAreFiles
<1>. QED  BY <1>1, <1>2, <1>3, NoneIsOld DEF Listed

LEMMA WriteKeepsLast ==
  ASSUME ReportTypeOK, NEW y \in FileNames, LastIsThere(y), oldRun' = oldRun,
         NEW x \in FileNames, NEW new, new.name = x,
         disk' = [disk EXCEPT ![x] = new.from], entries' = Append(entries, new)
  PROVE  LastIsThere(y)'
<1>1. /\ Len(entries) \in Nat /\ Len(entries') = Len(entries) + 1
      /\ \A e \in 1 .. Len(entries) : entries'[e] = entries[e]
      /\ entries'[Len(entries) + 1] = new
  BY AppendProperties, LenProperties DEF ReportTypeOK
<1>2. disk'[y] = IF y = x THEN new.from ELSE disk[y]
  BY DEF ReportTypeOK
<1>3. CASE y = x
  <2>1. Len(entries) + 1 \in 1 .. Len(entries')
    BY <1>1
  <2>. QED  BY <1>1, <1>2, <1>3, <2>1 DEF LastIsThere
<1>4. CASE y # x
  <2>1. \A e \in 1 .. Len(entries') : entries'[e].name = y => e \in 1 .. Len(entries)
    BY <1>1, <1>4
  <2>. QED  BY <1>1, <1>2, <1>4, <2>1 DEF LastIsThere
<1>. QED  BY <1>3, <1>4

\* Nothing is written and the cursor is not moved over entries.
LEMMA HoldKept ==
  ASSUME HoldInv, UNCHANGED <<items, oldRun, disk, entries>>,
         phase = "err" => phase' = "err",
         \/ phase' \notin {"integrity", "hayabusa", "ok"}
         \/ phase' = "integrity" /\ k' = 1
         \/ phase' = "hayabusa" /\ phase = "integrity" /\ k > Len(entries)
         \/ phase' = "ok" /\ phase = "hayabusa"
         \/ phase' = phase /\ k' = k,
         Len(entries) \in Nat, k \in Nat
  PROVE  HoldInv'
<1>1. Listed'
  BY DEF HoldInv, Listed
<1>2. LastOnesThere'
  BY DEF HoldInv, LastOnesThere, LastIsThere, Inside
<1>3. ExaminedSoFar'
  BY DEF HoldInv, ExaminedSoFar
<1>. QED  BY <1>1, <1>2, <1>3 DEF HoldInv

LEMMA ExtractKeeps == ReportTypeOK /\ HoldInv /\ Extract => HoldInv'
<1> SUFFICES ASSUME ReportTypeOK, HoldInv, Extract PROVE HoldInv'
  OBVIOUS
<1> DEFINE x   == items[k].name
           new == Entry(x, Copy(k), "filesystem")
<1>1. items[k] \in Items /\ x \in FileNames /\ k \in 1 .. Len(items)
  <2>1. items[k] \in Items /\ k \in 1 .. Len(items)
    BY LenProperties, ElementOfSeq DEF ReportTypeOK, Extract
  <2>. QED  BY <2>1 DEF Items
<1>2. /\ disk' = [disk EXCEPT ![x] = Copied(k)] /\ entries' = Append(entries, new)
      /\ phase' = "extract" /\ phase = "extract" /\ UNCHANGED <<items, oldRun>>
  BY DEF Extract, input
<1>3. new.name = x /\ new.from = Copy(k)
  BY DEF Entry
<1>4. Copied(k) \in Origins \cup {Empty}
  BY <1>1 DEF Copied, Origins
<1>5. Listed'
  <2>. HIDE DEF new, x
  <2>. QED  BY <1>1, <1>2, <1>3, <1>4, WriteKeepsListed DEF HoldInv
<1>6. ASSUME Inside = {}, NEW y \in FileNames PROVE LastIsThere(y)'
  <2>1. Copied(k) = new.from
    BY <1>1, <1>3, <1>6 DEF Inside, Copied
  <2>2. LastIsThere(y)
    BY <1>2, <1>6 DEF HoldInv, LastOnesThere
  <2>. HIDE DEF new, x
  <2>. QED  BY <1>1, <1>2, <1>3, <2>1, <2>2, WriteKeepsLast
<1>7. LastOnesThere'
  BY <1>2, <1>6 DEF LastOnesThere, Inside
<1>8. ExaminedSoFar'
  BY <1>2 DEF ExaminedSoFar
<1>. QED  BY <1>5, <1>7, <1>8 DEF HoldInv

LEMMA CarveKeeps == ReportTypeOK /\ HoldInv /\ CarveChunk => HoldInv'
<1> SUFFICES ASSUME ReportTypeOK, HoldInv, CarveChunk PROVE HoldInv'
  OBVIOUS
<1> DEFINE new == Entry(i, ChunkOf(k, i), "carved")
<1>0. /\ phase' = "carve" /\ phase = "carve" /\ UNCHANGED <<items, oldRun>>
      /\ Len(entries) \in Nat /\ k \in Nat
  BY LenProperties DEF CarveChunk, input, ReportTypeOK
<1>1. CASE items[k].chunks[i + 1]
  <2>1. disk' = [disk EXCEPT ![i] = ChunkOf(k, i)] /\ entries' = Append(entries, new)
    BY <1>1 DEF CarveChunk
  <2>2. i \in FileNames
    BY LenProperties, ElementOfSeq, ChunkNumbers DEF ReportTypeOK, CarveChunk, FileNames
  <2>3. new.name = i /\ new.from = ChunkOf(k, i) /\ ChunkOf(k, i) \in Origins
    BY DEF Entry, Origins, ReportTypeOK
  <2>. HIDE DEF new
  <2>4. Listed'
    BY <2>1, <2>2, <2>3, WriteKeepsListed DEF HoldInv
  <2>5. ASSUME Inside = {}, NEW y \in FileNames PROVE LastIsThere(y)'
    <3>1. LastIsThere(y)
      BY <1>0, <2>5 DEF HoldInv, LastOnesThere
    <3>. QED  BY <1>0, <2>1, <2>2, <2>3, <3>1, WriteKeepsLast
  <2>6. LastOnesThere'
    BY <1>0, <2>5 DEF LastOnesThere, Inside
  <2>7. ExaminedSoFar'
    BY <1>0 DEF ExaminedSoFar
  <2>. QED  BY <2>4, <2>6, <2>7 DEF HoldInv
<1>2. CASE ~items[k].chunks[i + 1]
  BY <1>0, <1>2, HoldKept DEF CarveChunk
<1>. QED  BY <1>1, <1>2

\* A failure cuts off one file at most, and nothing is said any more of what
\* stands where.
LEMMA FailureKeeps == ReportTypeOK /\ HoldInv /\ (ExtractFails \/ CarveFails) => HoldInv'
<1> SUFFICES ASSUME ReportTypeOK, HoldInv, ExtractFails \/ CarveFails PROVE HoldInv'
  OBVIOUS
<1>1. phase' = "err" /\ entries' = entries
  BY DEF ExtractFails, CarveFails
<1>2. \A x \in FileNames : disk'[x] \in {disk[x], Empty}
  BY DEF ExtractFails, CarveFails, ReportTypeOK
<1>3. Listed'
  BY <1>1, <1>2, EntriesAreFiles, NoneIsOld DEF HoldInv, Listed
<1>. QED  BY <1>1, <1>3 DEF HoldInv, LastOnesThere, ExaminedSoFar

LEMMA ExamineKeepsNames ==
  ASSUME ReportTypeOK, Examine
  PROVE  /\ Len(entries') = Len(entries)
         /\ \A e \in 1 .. Len(entries) :
              /\ entries'[e].name = entries[e].name /\ entries'[e].from = entries[e].from
              /\ entries'[e].examined = IF e = k THEN disk[entries[k].name]
                                       ELSE entries[e].examined
<1>1. entries' = [entries EXCEPT ![k].examined = disk[entries[k].name]]
  BY DEF Examine
<1>2. k \in 1 .. Len(entries) /\ DOMAIN entries = 1 .. Len(entries) /\ Len(entries) \in Nat
  BY LenProperties DEF Examine, ReportTypeOK
<1>3. entries \in Seq(Entries) /\ entries[k] \in Entries
  BY <1>2, ElementOfSeq DEF ReportTypeOK
<1>4. disk[entries[k].name] \in Contents
  BY <1>2, EntriesAreFiles DEF ReportTypeOK
<1>5. [entries[k] EXCEPT !.examined = disk[entries[k].name]] \in Entries
  BY <1>3, <1>4 DEF Entries
<1>6. Len(entries') = Len(entries)
  BY <1>1, <1>2, <1>3, <1>5, ExceptSeq
<1>7. \A e \in 1 .. Len(entries) :
        /\ entries'[e].name = entries[e].name /\ entries'[e].from = entries[e].from
        /\ entries'[e].examined = IF e = k THEN disk[entries[k].name] ELSE entries[e].examined
  <2>1. \A e \in 1 .. Len(entries) : entries[e] \in Entries
    BY <1>3, ElementOfSeq
  <2>. QED  BY <1>1, <1>2, <2>1 DEF Entries
<1>. QED  BY <1>6, <1>7

LEMMA ExamineKeeps == ReportTypeOK /\ HoldInv /\ Examine => HoldInv'
<1> SUFFICES ASSUME ReportTypeOK, HoldInv, Examine PROVE HoldInv'
  OBVIOUS
<1>1. /\ phase = "integrity" /\ phase' = "integrity" /\ k' = k + 1
      /\ UNCHANGED <<items, oldRun, disk>>
  BY DEF Examine, input
<1>2. k \in 1 .. Len(entries) /\ Len(entries) \in Nat
  BY LenProperties DEF Examine, ReportTypeOK
<1>6. Len(entries') = Len(entries)
  BY ExamineKeepsNames
<1>7. \A e \in 1 .. Len(entries) :
        /\ entries'[e].name = entries[e].name /\ entries'[e].from = entries[e].from
        /\ entries'[e].examined = IF e = k THEN disk[entries[k].name] ELSE entries[e].examined
  BY ExamineKeepsNames
<1>8. Listed'
  BY <1>1, <1>6, <1>7 DEF HoldInv, Listed
<1>9. LastOnesThere'
  BY <1>1, <1>6, <1>7 DEF HoldInv, LastOnesThere, LastIsThere, Inside
<1>10. ExaminedSoFar'
  BY <1>1, <1>2, <1>6, <1>7 DEF HoldInv, ExaminedSoFar
<1>. QED  BY <1>8, <1>9, <1>10 DEF HoldInv

LEMMA HoldInductive == ReportTypeOK /\ HoldInv /\ [ReportNext]_reportVars => HoldInv'
<1> SUFFICES ASSUME ReportTypeOK, HoldInv, [ReportNext]_reportVars PROVE HoldInv'
  OBVIOUS
<1>1. Len(entries) \in Nat /\ k \in Nat
  BY LenProperties DEF ReportTypeOK
<1>2. CASE Extract
  BY <1>2, ExtractKeeps
<1>3. CASE CarveChunk
  BY <1>3, CarveKeeps
<1>4. CASE ExtractFails \/ CarveFails
  BY <1>4, FailureKeeps
<1>5. CASE Examine
  BY <1>5, ExamineKeeps
<1>6. CASE Extracted
  BY <1>1, <1>6, HoldKept DEF Extracted, AfterExtract, input
<1>7. CASE CarveNext
  BY <1>1, <1>7, HoldKept DEF CarveNext, input
<1>8. CASE CarveDone
  BY <1>1, <1>8, HoldKept DEF CarveDone, input
<1>9. CASE Examined
  BY <1>1, <1>9, HoldKept DEF Examined, input
<1>10. CASE RunHayabusa
  BY <1>1, <1>10, HoldKept DEF RunHayabusa, input
<1>11. CASE UNCHANGED reportVars
  BY <1>1, <1>11, HoldKept DEF reportVars
<1>. QED  BY <1>2, <1>3, <1>4, <1>5, <1>6, <1>7, <1>8, <1>9, <1>10, <1>11 DEF ReportNext

LEMMA HoldInit == ReportInit => HoldInv
<1> SUFFICES ASSUME ReportInit PROVE HoldInv
  OBVIOUS
<1>1. entries = <<>> /\ phase = "extract"
  BY DEF ReportInit
<1>2. Len(entries) = 0
  BY <1>1
<1>3. Inside = {} => InsideNames = {}
  BY DEF InsideNames
<1>4. \A x \in FileNames : Inside = {} => disk[x] = IF x \in oldRun THEN Old ELSE Absent
  BY <1>3 DEF ReportInit
<1>. QED  BY <1>1, <1>2, <1>4 DEF HoldInv, Listed, LastOnesThere, LastIsThere, ExaminedSoFar

LEMMA HoldIsEntriesHold == HoldInv => EntriesHold
<1> SUFFICES ASSUME HoldInv, phase = "ok" PROVE EntriesHold
  BY DEF EntriesHold
<1>1. \A e \in 1 .. Len(entries) : /\ entries[e].examined = disk[entries[e].name]
                                   /\ entries[e].examined \notin {Old, Absent}
  BY DEF HoldInv, Listed, ExaminedSoFar
<1>2. ASSUME Inside = {}, NEW x \in FileNames
      PROVE  LET writers == { e \in 1 .. Len(entries) : entries[e].name = x }
             IN  IF writers = {} THEN disk[x] = (IF x \in oldRun THEN Old ELSE Absent)
                 ELSE \E e \in writers : /\ \A w \in writers : w <= e
                                         /\ disk[x] = entries[e].from
  <2>1. LastIsThere(x)
    BY <1>2 DEF HoldInv, LastOnesThere
  <2>2. CASE \A e \in 1 .. Len(entries) : entries[e].name # x
    BY <2>1, <2>2 DEF LastIsThere
  <2>3. CASE \E e \in 1 .. Len(entries) : entries[e].name = x
    BY <2>1, <2>3 DEF LastIsThere
  <2>. QED  BY <2>2, <2>3
<1>. QED  BY <1>1, <1>2 DEF EntriesHold

ReportSafety == ReportInit /\ [][ReportNext]_reportVars

(* The report keeps its types, whatever is found and carved.               *)
THEOREM ReportTypeCorrect == ReportSafety => []ReportTypeOK
<1>1. ReportInit => ReportTypeOK
  BY ReportTypeInit
<1>2. ReportTypeOK /\ [ReportNext]_reportVars => ReportTypeOK'
  BY ReportTypeInductive
<1>. QED  BY <1>1, <1>2, PTL DEF ReportSafety

(* What a report says of a file is said of what stands at its path when it *)
(* is returned, however many files collide on however many names.          *)
THEOREM ReportHolds == ReportSafety => []EntriesHold
<1>1. ReportInit => HoldInv
  BY HoldInit
<1>2. ReportTypeOK /\ HoldInv /\ [ReportNext]_reportVars => HoldInv'
  BY HoldInductive
<1>3. HoldInv => EntriesHold
  BY HoldIsEntriesHold
<1>. QED  BY <1>1, <1>2, <1>3, ReportTypeCorrect, PTL DEF ReportSafety

-----------------------------------------------------------------------------
(* When no name is used twice.                                              *)

Froms == { entries[e].from : e \in 1 .. Len(entries) }

NamesDiffer ==
  \A e, w \in 1 .. Len(entries) : e # w => entries[e].name # entries[w].name

Carves == kind = "RawBlob" \/ (kind = "E01" /\ carve)

\* Copies of the items before m.
CopiedBefore(its, m) == { Copy(j) : j \in { n \in 1 .. Len(its) : n < m } }

AllCopied == IF kind = "RawBlob" THEN {} ELSE { Copy(j) : j \in 1 .. Len(items) }

\* Chunks with records: those of items before m, and of item m before n.
PlacesBefore(its, m, n) ==
  { x \in (1 .. Len(its)) \X (0 .. MaxChunks - 1) :
      /\ x[2] < Len(its[x[1]].chunks)
      /\ its[x[1]].chunks[x[2] + 1]
      /\ x[1] < m \/ (x[1] = m /\ x[2] < n) }

ChunksAt(places) == { ChunkOf(x[1], x[2]) : x \in places }

ChunksBefore(its, m, n) == ChunksAt(PlacesBefore(its, m, n))

AllChunks == IF Carves THEN ChunksBefore(items, Len(items) + 1, 0) ELSE {}

\* At each point of the loops the entries are those of what was gone through.
EntriesSoFar ==
  /\ phase = "extract" =>
       /\ i = 0
       /\ Froms = CopiedBefore(items, k)
       /\ kind = "RawBlob" => k = 1
       /\ \A e \in 1 .. Len(entries) :
            \E j \in 1 .. Len(items) : j < k /\ entries[e].name = items[j].name
  /\ phase = "carve" =>
       /\ Carves
       /\ Froms = AllCopied \cup ChunksBefore(items, k, i)
       /\ k = 1 => \A e \in 1 .. Len(entries) :
            entries[e].name \in Names \/ (entries[e].name \in Nat /\ entries[e].name < i)
  /\ phase \in {"integrity", "hayabusa", "ok"} => Froms = AllCopied \cup AllChunks

FilesInv ==
  /\ Possible(items) /\ carve \in BOOLEAN
  /\ NamesClear /\ phase # "err" => NamesDiffer /\ EntriesSoFar

LEMMA AppendEntry ==
  ASSUME ReportTypeOK, NEW new, entries' = Append(entries, new)
  PROVE  /\ Froms' = Froms \cup {new.from}
         /\ NamesDiffer /\ (\A e \in 1 .. Len(entries) : entries[e].name # new.name)
              => NamesDiffer'
<1>1. /\ Len(entries) \in Nat /\ Len(entries') = Len(entries) + 1
      /\ \A e \in 1 .. Len(entries) : entries'[e] = entries[e]
      /\ entries'[Len(entries) + 1] = new
  BY AppendProperties, LenProperties DEF ReportTypeOK
<1>2. 1 .. Len(entries') = (1 .. Len(entries)) \cup {Len(entries) + 1}
  BY <1>1
<1>. QED  BY <1>1, <1>2 DEF Froms, NamesDiffer

LEMMA OneCarved ==
  ASSUME ReportTypeOK, Possible(items), NamesClear, Carves
  PROVE  /\ Len(items) <= 1
         /\ \A j \in 1 .. Len(items) : kind = "E01" => items[j].name \in Names
<1>1. kind = "RawBlob" => Len(items) = 1
  BY DEF Possible
<1>2. kind = "E01" => Len(items) <= 1
  BY DEF NamesClear, Carves
<1>. QED  BY <1>1, <1>2 DEF Possible, Carves

LEMMA AddPlace ==
  ASSUME NEW places, NEW m, NEW n
  PROVE  ChunksAt(places \cup {<<m, n>>}) = ChunksAt(places) \cup {ChunkOf(m, n)}
<1>. DEFINE place == <<m, n>>
<1>0. place[1] = m /\ place[2] = n
  OBVIOUS
<1>. HIDE DEF place
<1>1. \A x : x \in ChunksAt(places \cup {place}) => x \in ChunksAt(places) \cup {ChunkOf(m, n)}
  BY <1>0 DEF ChunksAt
<1>2. \A x : x \in ChunksAt(places) \cup {ChunkOf(m, n)} => x \in ChunksAt(places \cup {place})
  BY <1>0 DEF ChunksAt
<1>3. ChunksAt(places \cup {place}) = ChunksAt(places) \cup {ChunkOf(m, n)}
  BY <1>1, <1>2
<1>. QED  BY <1>3 DEF place

\* The next chunk, with records or without.
LEMMA ChunksStep ==
  ASSUME ReportTypeOK, k \in 1 .. Len(items), i < Len(items[k].chunks)
  PROVE  ChunksBefore(items, k, i + 1)
           = ChunksBefore(items, k, i) \cup IF items[k].chunks[i + 1] THEN {ChunkOf(k, i)} ELSE {}
<1>1. items[k] \in Items
  BY ElementOfSeq DEF ReportTypeOK
<1>2. i \in 0 .. MaxChunks - 1
  BY <1>1, ChunkNumbers DEF ReportTypeOK
<1>3. PlacesBefore(items, k, i + 1)
        = PlacesBefore(items, k, i) \cup (IF items[k].chunks[i + 1] THEN {<<k, i>>} ELSE {})
  <2>1. \A x \in (1 .. Len(items)) \X (0 .. MaxChunks - 1) :
          x[1] = k /\ x[2] < i + 1 <=> (x[1] = k /\ x[2] < i) \/ x = <<k, i>>
    BY <1>2, ReportAssumption
  <2>2. <<k, i>> \in (1 .. Len(items)) \X (0 .. MaxChunks - 1)
    BY <1>2
  <2>. QED  BY <2>1, <2>2 DEF PlacesBefore
<1>4. CASE items[k].chunks[i + 1]
  <2>1. PlacesBefore(items, k, i + 1) = PlacesBefore(items, k, i) \cup {<<k, i>>}
    BY <1>3, <1>4
  <2>2. ChunksAt(PlacesBefore(items, k, i) \cup {<<k, i>>})
          = ChunksAt(PlacesBefore(items, k, i)) \cup {ChunkOf(k, i)}
    BY AddPlace
  <2>. QED  BY <1>4, <2>1, <2>2 DEF ChunksBefore
<1>5. CASE ~items[k].chunks[i + 1]
  BY <1>3, <1>5 DEF ChunksBefore
<1>. QED  BY <1>4, <1>5

LEMMA NamesClearKept ==
  ASSUME FilesInv, UNCHANGED input
  PROVE  /\ (Possible(items) /\ carve \in BOOLEAN)'
         /\ NamesClear' <=> NamesClear
         /\ AllCopied' = AllCopied /\ AllChunks' = AllChunks /\ Carves' = Carves
<1>1. kind' = kind /\ carve' = carve /\ items' = items
  BY DEF input
<1>2. (Possible(items) /\ carve \in BOOLEAN)'
  BY <1>1 DEF FilesInv, Possible
<1>3. NamesClear' <=> NamesClear
  BY <1>1 DEF NamesClear, Inside
<1>4. AllCopied' = AllCopied /\ AllChunks' = AllChunks /\ Carves' = Carves
  BY <1>1 DEF AllCopied, AllChunks, Carves
<1>. QED  BY <1>2, <1>3, <1>4

LEMMA FilesExtract == ReportTypeOK /\ FilesInv /\ Extract => FilesInv'
<1> SUFFICES ASSUME ReportTypeOK, FilesInv, Extract PROVE FilesInv'
  OBVIOUS
<1> DEFINE new == Entry(items[k].name, Copy(k), "filesystem")
<1>1. /\ phase = "extract" /\ phase' = "extract" /\ kind # "RawBlob" /\ k' = k + 1 /\ i' = i
      /\ entries' = Append(entries, new) /\ UNCHANGED input
      /\ k \in 1 .. Len(items) /\ k \in Nat
      /\ items' = items /\ kind' = kind
  BY LenProperties DEF Extract, ReportTypeOK, input
<1>3. ASSUME NamesClear PROVE NamesDiffer' /\ EntriesSoFar'
  <2>1. NamesDiffer /\ i = 0 /\ Froms = CopiedBefore(items, k)
    BY <1>1, <1>3 DEF FilesInv, EntriesSoFar
  <2>2. \A e \in 1 .. Len(entries) : \E j \in 1 .. Len(items) : j < k /\ entries[e].name = items[j].name
    BY <1>1, <1>3 DEF FilesInv, EntriesSoFar
  <2>3. new.name = items[k].name /\ new.from = Copy(k)
    BY DEF Entry
  <2>4. \A e \in 1 .. Len(entries) : entries[e].name # new.name
    BY <1>1, <1>3, <2>2, <2>3 DEF NamesClear
  <2>. HIDE DEF new
  <2>5. NamesDiffer' /\ Froms' = Froms \cup {Copy(k)}
    BY <1>1, <2>1, <2>3, <2>4, AppendEntry
  <2>6. CopiedBefore(items, k + 1) = CopiedBefore(items, k) \cup {Copy(k)}
    <3>1. { n \in 1 .. Len(items) : n < k + 1 } = { n \in 1 .. Len(items) : n < k } \cup {k}
      BY <1>1
    <3>. QED  BY <3>1 DEF CopiedBefore
  <2>7. Froms' = CopiedBefore(items', k')
    BY <1>1, <2>1, <2>5, <2>6
  <2>8. \A e \in 1 .. Len(entries') :
          \E j \in 1 .. Len(items') : j < k' /\ entries'[e].name = items'[j].name
    <3>1. /\ Len(entries) \in Nat /\ Len(entries') = Len(entries) + 1
          /\ \A e \in 1 .. Len(entries) : entries'[e] = entries[e]
          /\ entries'[Len(entries) + 1] = new
      BY <1>1, AppendProperties, LenProperties DEF ReportTypeOK
    <3>2. ASSUME NEW e \in 1 .. Len(entries)
          PROVE  \E j \in 1 .. Len(items) : j < k + 1 /\ entries[e].name = items[j].name
      <4>1. PICK j \in 1 .. Len(items) : j < k /\ entries[e].name = items[j].name
        BY <2>2
      <4>. QED  BY <1>1, <4>1
    <3>. QED  BY <1>1, <2>3, <3>1, <3>2
  <2>9. EntriesSoFar'
    BY <1>1, <2>1, <2>7, <2>8 DEF EntriesSoFar
  <2>. QED  BY <2>5, <2>9
<1>. QED  BY <1>1, <1>3, NamesClearKept DEF FilesInv

LEMMA FilesCarve == ReportTypeOK /\ FilesInv /\ CarveChunk => FilesInv'
<1> SUFFICES ASSUME ReportTypeOK, FilesInv, CarveChunk PROVE FilesInv'
  OBVIOUS
<1> DEFINE new == Entry(i, ChunkOf(k, i), "carved")
<1>1. /\ phase = "carve" /\ phase' = "carve" /\ k' = k /\ i' = i + 1 /\ UNCHANGED input
      /\ k \in 1 .. Len(items) /\ k \in Nat /\ i \in Nat /\ i < Len(items[k].chunks)
      /\ items' = items
  BY LenProperties DEF CarveChunk, ReportTypeOK, input
<1>2. AllCopied' = AllCopied /\ Carves' = Carves
  BY <1>1, NamesClearKept
<1>3. ASSUME NamesClear PROVE NamesDiffer' /\ EntriesSoFar'
  <2>1. NamesDiffer /\ Carves /\ Froms = AllCopied \cup ChunksBefore(items, k, i)
    BY <1>1, <1>3 DEF FilesInv, EntriesSoFar
  <2>2. k = 1
    BY <1>1, <1>3, <2>1, OneCarved, LenProperties DEF FilesInv, ReportTypeOK
  <2>b. \A e \in 1 .. Len(entries) :
          entries[e].name \in Names \/ (entries[e].name \in Nat /\ entries[e].name < i)
    BY <1>1, <1>3, <2>2 DEF FilesInv, EntriesSoFar
  <2>3. i \in 0 .. MaxChunks - 1 /\ i \notin Names
    <3>1. items[k] \in Items
      BY <1>1, ElementOfSeq DEF ReportTypeOK
    <3>. QED  BY <1>1, <3>1, ChunkNumbers, ReportAssumption
  <2>4. ChunksBefore(items, k, i + 1)
          = ChunksBefore(items, k, i) \cup IF items[k].chunks[i + 1] THEN {ChunkOf(k, i)} ELSE {}
    BY <1>1, ChunksStep
  <2>6. CASE items[k].chunks[i + 1]
    <3>1. entries' = Append(entries, new) /\ new.name = i /\ new.from = ChunkOf(k, i)
      BY <2>6 DEF CarveChunk, Entry
    <3>2. \A e \in 1 .. Len(entries) : entries[e].name # new.name
      BY <1>1, <2>b, <2>3, <3>1
    <3>. HIDE DEF new
    <3>3. NamesDiffer' /\ Froms' = Froms \cup {ChunkOf(k, i)}
      BY <2>1, <3>1, <3>2, AppendEntry
    <3>4. Froms' = AllCopied' \cup ChunksBefore(items', k', i')
      BY <1>1, <1>2, <2>1, <2>4, <2>6, <3>3
    <3>5. \A e \in 1 .. Len(entries') :
            entries'[e].name \in Names \/ (entries'[e].name \in Nat /\ entries'[e].name < i')
      <4>1. /\ Len(entries) \in Nat /\ Len(entries') = Len(entries) + 1
            /\ \A e \in 1 .. Len(entries) : entries'[e] = entries[e]
            /\ entries'[Len(entries) + 1] = new
        BY <3>1, AppendProperties, LenProperties DEF ReportTypeOK
      <4>. QED  BY <1>1, <2>b, <3>1, <4>1
    <3>6. EntriesSoFar'
      BY <1>1, <1>2, <2>1, <3>4, <3>5 DEF EntriesSoFar
    <3>. QED  BY <3>3, <3>6
  <2>7. CASE ~items[k].chunks[i + 1]
    <3>1. entries' = entries
      BY <2>7 DEF CarveChunk
    <3>2. NamesDiffer' /\ Froms' = Froms
      BY <2>1, <3>1 DEF NamesDiffer, Froms
    <3>3. Froms' = AllCopied' \cup ChunksBefore(items', k', i')
      BY <1>1, <1>2, <2>1, <2>4, <2>7, <3>2
    <3>4. \A e \in 1 .. Len(entries') :
            entries'[e].name \in Names \/ (entries'[e].name \in Nat /\ entries'[e].name < i')
      BY <1>1, <2>b, <3>1
    <3>5. EntriesSoFar'
      BY <1>1, <1>2, <2>1, <3>3, <3>4 DEF EntriesSoFar
    <3>. QED  BY <3>2, <3>5
  <2>. QED  BY <2>6, <2>7
<1>. QED  BY <1>1, <1>3, NamesClearKept DEF FilesInv

\* Between the loops: nothing is listed, and what was gone through is all.
LEMMA FilesExtracted == ReportTypeOK /\ FilesInv /\ Extracted => FilesInv'
<1> SUFFICES ASSUME ReportTypeOK, FilesInv, Extracted PROVE FilesInv'
  OBVIOUS
<1>1. /\ phase = "extract" /\ k' = 1 /\ i' = i /\ UNCHANGED input /\ items' = items
      /\ entries' = entries
      /\ k > Len(items) \/ kind = "RawBlob"
      /\ k \in Nat /\ Len(items) \in Nat
  BY LenProperties DEF Extracted, ReportTypeOK, input
<1>2. AllCopied' = AllCopied /\ Carves' = Carves /\ AllChunks' = AllChunks
  BY <1>1, NamesClearKept
<1>3. \/ phase' = "err"
      \/ phase' = "carve" /\ Carves
      \/ phase' = "integrity" /\ ~Carves
  BY DEF Extracted, AfterExtract, Carves
<1>4. ASSUME NamesClear, phase' # "err" PROVE NamesDiffer' /\ EntriesSoFar'
  <2>1. /\ NamesDiffer /\ i = 0 /\ Froms = CopiedBefore(items, k)
        /\ kind = "RawBlob" => k = 1
    BY <1>1, <1>4 DEF FilesInv, EntriesSoFar
  <2>2. NamesDiffer' /\ Froms' = Froms
    BY <1>1, <2>1 DEF NamesDiffer, Froms
  <2>3. Froms = AllCopied
    <3>1. CASE kind = "RawBlob"
      BY <1>1, <2>1, <3>1 DEF CopiedBefore, AllCopied
    <3>2. CASE kind # "RawBlob"
      <4>1. { n \in 1 .. Len(items) : n < k } = 1 .. Len(items)
        BY <1>1, <3>2
      <4>. QED  BY <2>1, <3>2, <4>1 DEF CopiedBefore, AllCopied
    <3>. QED  BY <3>1, <3>2
  <2>4. CASE phase' = "carve" /\ Carves
    <3>1. PlacesBefore(items, 1, 0) = {}
      BY <1>1 DEF PlacesBefore
    <3>2. Froms' = AllCopied' \cup ChunksBefore(items', k', i')
      BY <1>1, <1>2, <2>1, <2>2, <2>3, <3>1 DEF ChunksBefore, ChunksAt
    <3>3. \A e \in 1 .. Len(entries) : entries[e].name \in Names
      <4>1. \A e \in 1 .. Len(entries) :
              \E j \in 1 .. Len(items) : j < k /\ entries[e].name = items[j].name
        BY <1>1, <1>4 DEF FilesInv, EntriesSoFar
      <4>2. \A j \in 1 .. Len(items) : items[j].name \in FileNames
        <5>1. \A j \in 1 .. Len(items) : items[j] \in Items
          BY ElementOfSeq DEF ReportTypeOK
        <5>. QED  BY <5>1 DEF Items
      <4>3. kind \in {"RawBlob", "E01"}
        BY <2>4 DEF Carves
      <4>. QED  BY <4>1, <4>2, <4>3 DEF FilesInv, Possible
    <3>. QED  BY <1>1, <1>2, <2>2, <2>4, <3>2, <3>3 DEF EntriesSoFar
  <2>5. CASE phase' = "integrity" /\ ~Carves
    <3>1. AllChunks = {}
      BY <2>5 DEF AllChunks
    <3>. QED  BY <1>2, <2>2, <2>3, <2>5, <3>1 DEF EntriesSoFar
  <2>. QED  BY <1>3, <1>4, <2>4, <2>5
<1>. QED  BY <1>1, <1>4, NamesClearKept DEF FilesInv

LEMMA FilesCarveNext == ReportTypeOK /\ FilesInv /\ CarveNext => FilesInv'
<1> SUFFICES ASSUME ReportTypeOK, FilesInv, CarveNext PROVE FilesInv'
  OBVIOUS
<1>1. /\ phase = "carve" /\ phase' = "carve" /\ k' = k + 1 /\ i' = 0 /\ UNCHANGED input
      /\ items' = items /\ entries' = entries
      /\ k \in Nat \ {0} /\ Len(items) \in Nat /\ i = Len(items[k].chunks)
  BY LenProperties DEF CarveNext, ReportTypeOK, input
<1>2. AllCopied' = AllCopied /\ Carves' = Carves
  BY <1>1, NamesClearKept
<1>3. ASSUME NamesClear PROVE NamesDiffer' /\ EntriesSoFar'
  <2>1. NamesDiffer /\ Carves /\ Froms = AllCopied \cup ChunksBefore(items, k, i)
    BY <1>1, <1>3 DEF FilesInv, EntriesSoFar
  <2>2. NamesDiffer' /\ Froms' = Froms
    BY <1>1, <2>1 DEF NamesDiffer, Froms
  <2>3. PlacesBefore(items, k + 1, 0) = PlacesBefore(items, k, i)
    BY <1>1, ReportAssumption DEF PlacesBefore
  <2>4. Froms' = AllCopied' \cup ChunksBefore(items', k', i')
    BY <1>1, <1>2, <2>1, <2>2, <2>3 DEF ChunksBefore
  <2>. QED  BY <1>1, <1>2, <2>1, <2>2, <2>4 DEF EntriesSoFar
<1>. QED  BY <1>1, <1>3, NamesClearKept DEF FilesInv

LEMMA FilesCarveDone == ReportTypeOK /\ FilesInv /\ CarveDone => FilesInv'
<1> SUFFICES ASSUME ReportTypeOK, FilesInv, CarveDone PROVE FilesInv'
  OBVIOUS
<1>1. /\ phase = "carve" /\ phase' = "integrity" /\ UNCHANGED input
      /\ items' = items /\ entries' = entries
      /\ k \in Nat /\ Len(items) \in Nat /\ k > Len(items) /\ i \in Nat
  BY LenProperties DEF CarveDone, ReportTypeOK, input
<1>2. AllCopied' = AllCopied /\ AllChunks' = AllChunks
  BY <1>1, NamesClearKept
<1>3. ASSUME NamesClear PROVE NamesDiffer' /\ EntriesSoFar'
  <2>1. NamesDiffer /\ Carves /\ Froms = AllCopied \cup ChunksBefore(items, k, i)
    BY <1>1, <1>3 DEF FilesInv, EntriesSoFar
  <2>2. NamesDiffer' /\ Froms' = Froms
    BY <1>1, <2>1 DEF NamesDiffer, Froms
  <2>3. PlacesBefore(items, Len(items) + 1, 0) = PlacesBefore(items, k, i)
    BY <1>1, ReportAssumption DEF PlacesBefore
  <2>4. Froms = AllCopied \cup AllChunks
    BY <2>1, <2>3 DEF ChunksBefore, AllChunks
  <2>. QED  BY <1>1, <1>2, <2>2, <2>4 DEF EntriesSoFar
<1>. QED  BY <1>1, <1>3, NamesClearKept DEF FilesInv

LEMMA FilesExamine == ReportTypeOK /\ FilesInv /\ Examine => FilesInv'
<1> SUFFICES ASSUME ReportTypeOK, FilesInv, Examine PROVE FilesInv'
  OBVIOUS
<1>1. /\ phase = "integrity" /\ phase' = "integrity" /\ UNCHANGED input
      /\ entries' = [entries EXCEPT ![k].examined = disk[entries[k].name]]
  BY DEF Examine
<1>2. /\ Len(entries') = Len(entries)
      /\ \A e \in 1 .. Len(entries) :
           entries'[e].name = entries[e].name /\ entries'[e].from = entries[e].from
  BY ExamineKeepsNames
<1>3. AllCopied' = AllCopied /\ AllChunks' = AllChunks
  BY <1>1, NamesClearKept
<1>4. NamesDiffer => NamesDiffer'
  BY <1>2 DEF NamesDiffer
<1>5. Froms' = Froms
  BY <1>2 DEF Froms
<1>6. ASSUME NamesClear PROVE EntriesSoFar'
  BY <1>1, <1>3, <1>5, <1>6 DEF FilesInv, EntriesSoFar
<1>. QED  BY <1>1, <1>4, <1>6, NamesClearKept DEF FilesInv

LEMMA FilesInductive == ReportTypeOK /\ FilesInv /\ [ReportNext]_reportVars => FilesInv'
<1> SUFFICES ASSUME ReportTypeOK, FilesInv, [ReportNext]_reportVars PROVE FilesInv'
  OBVIOUS
<1>1. CASE ExtractFails \/ CarveFails
  <2>1. UNCHANGED input /\ phase' = "err"
    BY <1>1 DEF ExtractFails, CarveFails
  <2>. QED  BY <2>1, NamesClearKept DEF FilesInv
<1>2. CASE Examined \/ RunHayabusa
  <2>1. /\ UNCHANGED input /\ entries' = entries
        /\ phase \in {"integrity", "hayabusa"} /\ phase' \in {"hayabusa", "ok"}
    BY <1>2 DEF Examined, RunHayabusa
  <2>2. Froms' = Froms /\ (NamesDiffer => NamesDiffer')
    BY <2>1 DEF Froms, NamesDiffer
  <2>3. AllCopied' = AllCopied /\ AllChunks' = AllChunks
    BY <2>1, NamesClearKept
  <2>4. ASSUME NamesClear PROVE EntriesSoFar'
    BY <2>1, <2>2, <2>3, <2>4 DEF FilesInv, EntriesSoFar
  <2>. QED  BY <2>1, <2>2, <2>4, NamesClearKept DEF FilesInv
<1>3. CASE UNCHANGED reportVars
  <2>1. UNCHANGED input /\ UNCHANGED <<items, kind, k, i, phase, entries>>
    BY <1>3 DEF reportVars, input
  <2>2. Froms' = Froms /\ (NamesDiffer => NamesDiffer')
    BY <2>1 DEF Froms, NamesDiffer
  <2>3. AllCopied' = AllCopied /\ AllChunks' = AllChunks /\ Carves' = Carves
    BY <2>1, NamesClearKept
  <2>4. EntriesSoFar => EntriesSoFar'
    BY <2>1, <2>2, <2>3 DEF EntriesSoFar
  <2>. QED  BY <2>1, <2>2, <2>4, NamesClearKept DEF FilesInv
<1>. QED  BY <1>1, <1>2, <1>3, FilesExtract, FilesCarve, FilesExtracted, FilesCarveNext,
            FilesCarveDone, FilesExamine DEF ReportNext

LEMMA FilesInit == ReportInit => FilesInv
<1> SUFFICES ASSUME ReportInit PROVE FilesInv
  OBVIOUS
<1>1. /\ Possible(items) /\ carve \in BOOLEAN /\ phase = "extract" /\ k = 1 /\ i = 0
      /\ Len(entries) = 0
  BY EmptySeq DEF ReportInit
<1>2. Froms = {} /\ CopiedBefore(items, 1) = {}
  BY <1>1 DEF Froms, CopiedBefore
<1>. QED  BY <1>1, <1>2 DEF FilesInv, NamesDiffer, EntriesSoFar

LEMMA FilesInvHolds == ReportTypeOK /\ HoldInv /\ FilesInv => FilesAreOwn
<1> SUFFICES ASSUME ReportTypeOK, HoldInv, FilesInv, phase = "ok", NamesClear
             PROVE  /\ \A e \in 1 .. Len(entries) : disk[entries[e].name] = entries[e].from
                    /\ Froms = AllCopied \cup
                         ChunksAt({ jc \in (1 .. Len(items)) \X (0 .. MaxChunks - 1) :
                                     /\ Carves
                                     /\ jc[2] < Len(items[jc[1]].chunks)
                                     /\ items[jc[1]].chunks[jc[2] + 1] })
  BY DEF FilesAreOwn, Froms, AllCopied, ChunksAt, Carves
<1>1. NamesDiffer /\ Froms = AllCopied \cup AllChunks
  BY DEF FilesInv, EntriesSoFar
<1>2. ASSUME NEW e \in 1 .. Len(entries) PROVE disk[entries[e].name] = entries[e].from
  <2>1. LastIsThere(entries[e].name)
    BY EntriesAreFiles DEF HoldInv, LastOnesThere, NamesClear
  <2>. QED  BY <1>1, <2>1 DEF LastIsThere, NamesDiffer
<1>3. CASE Carves
  <2>1. { jc \in (1 .. Len(items)) \X (0 .. MaxChunks - 1) :
            /\ Carves
            /\ jc[2] < Len(items[jc[1]].chunks)
            /\ items[jc[1]].chunks[jc[2] + 1] } = PlacesBefore(items, Len(items) + 1, 0)
    <3>1. \A j \in 1 .. Len(items) : j < Len(items) + 1
      BY LenProperties DEF ReportTypeOK
    <3>. QED  BY <1>3, <3>1 DEF PlacesBefore
  <2>. QED  BY <1>1, <1>2, <1>3, <2>1 DEF AllChunks, ChunksBefore
<1>4. CASE ~Carves
  <2>1. ChunksAt({}) = {}
    BY DEF ChunksAt
  <2>. QED  BY <1>1, <1>2, <1>4, <2>1 DEF AllChunks
<1>. QED  BY <1>3, <1>4

(* As long as no name is used twice, every entry's file holds what the     *)
(* entry says, and nothing that was found or carved is left out (report.rs,*)
(* the loops of extract and carve_blob).                                   *)
THEOREM FilesAreTheirOwn == ReportSafety => []FilesAreOwn
<1>1. ReportInit => ReportTypeOK /\ HoldInv /\ FilesInv
  BY ReportTypeInit, HoldInit, FilesInit
<1>2. ReportTypeOK /\ HoldInv /\ FilesInv /\ [ReportNext]_reportVars
        => (ReportTypeOK /\ HoldInv /\ FilesInv)'
  BY ReportTypeInductive, HoldInductive, FilesInductive
<1>. QED  BY <1>1, <1>2, FilesInvHolds, PTL DEF ReportSafety

-----------------------------------------------------------------------------
(* The command line.                                                        *)
allvars == <<cmdvars, reportVars>>

-----------------------------------------------------------------------------
(* Types.                                                                   *)

LEMMA OptionIsFind == CmdTypeOK => MaxFinds \in Finds /\ Finds \subseteq Nat
  BY CommandAssumption DEF CmdTypeOK, Finds

LEMMA ArgumentsTyped == Arguments => paths \in Seq(Paths)
<1> SUFFICES ASSUME Arguments PROVE paths \in Seq(Paths)
  OBVIOUS
<1>1. PICK m \in 1 .. MaxPaths : paths \in [1 .. m -> Paths]
  BY DEF Arguments
<1>2. m \in Nat
  BY <1>1, CommandAssumption
<1>. QED  BY <1>1, <1>2, SeqDef

LEMMA InitTyped == CmdInit => CmdTypeOK
<1> SUFFICES ASSUME CmdInit PROVE CmdTypeOK
  OBVIOUS
<1>1. Arguments /\ Start
  BY DEF CmdInit
<1>2. paths \in Seq(Paths)
  BY <1>1, ArgumentsTyped
<1>3. \A q \in DOMAIN paths : paths[q].kind # "dir" => Cardinality(paths[q].files) = 1
  BY <1>1 DEF Arguments
<1>4. Len(paths) \in Nat
  BY <1>2, LenProperties
<1>. QED  BY <1>1, <1>2, <1>3, <1>4 DEF Arguments, Start, CmdTypeOK

(* What is found in a source are finds, whatever the source is.            *)
LEMMA MayFindTyped ==
  ASSUME CmdTypeOK, NEW s \in Sources, NEW finds \in MayFind(s)
  PROVE  finds \subseteq Finds
<1>1. MaxFinds \in Finds
  BY OptionIsFind
<1>2. s \in {"file"} \X Files \/ s \in {"tmp"} \X Bases
  BY DEF Sources
<1>3. \A f \in Files : holds[f].finds \subseteq Finds
  BY DEF CmdTypeOK, Holdings
<1>4. CASE cmd = "info"
  BY <1>1, <1>4 DEF MayFind
<1>5. CASE cmd # "info" /\ s \in {"file"} \X Files
  BY <1>3, <1>5 DEF MayFind
<1>6. CASE cmd # "info" /\ s \in {"tmp"} \X Bases
  <2>1. s[1] = "tmp" /\ s[2] \in Bases
    BY <1>6
  <2>2. tmp[s[2]] \in Files \cup {Nobody}
    BY <2>1 DEF CmdTypeOK
  <2>. QED  BY <1>1, <1>3, <1>6, <2>1, <2>2 DEF MayFind, FindsOfRebuilt
<1>. QED  BY <1>2, <1>4, <1>5, <1>6

LEMMA TypeInductive == CmdTypeOK /\ [CmdNext]_allvars => CmdTypeOK'
<1> SUFFICES ASSUME CmdTypeOK, [CmdNext]_allvars PROVE CmdTypeOK'
  OBVIOUS
<1> USE DEF CmdTypeOK, arguments
<1>0. Len(paths) \in Nat /\ DOMAIN paths = 1 .. Len(paths)
  BY LenProperties
<1>1. CASE Check
  BY <1>0, <1>1 DEF Check
<1>a. ASSUME p <= Len(paths)
      PROVE  /\ paths[p] \in Paths
             /\ p + 1 \in 1 .. Len(paths) + 1
  BY <1>0, <1>a, ElementOfSeq
<1>2. CASE ResolveFiles
  BY <1>a, <1>2 DEF ResolveFiles, Resolving, Paths, Sources
<1>3. CASE RebuildBlob
  <2>1. paths[p] \in Paths /\ p + 1 \in 1 .. Len(paths) + 1
    BY <1>3, <1>a DEF RebuildBlob, Resolving
  <2>2. paths[p].base \in Bases /\ paths[p].files \subseteq Files
    BY <2>1 DEF Paths
  <2>3. tmp' \in [Bases -> Files \cup {Nobody}]
    BY <1>3, <2>2 DEF RebuildBlob
  <2>4. sources' \subseteq Sources /\ sources \subseteq sources'
    BY <1>3, <2>2 DEF RebuildBlob, Sources
  <2>. QED  BY <1>3, <2>1, <2>3, <2>4 DEF RebuildBlob
<1>4. CASE DropBlob
  <2>1. paths[p] \in Paths /\ p + 1 \in 1 .. Len(paths) + 1
    BY <1>4, <1>a DEF DropBlob, Resolving
  <2>2. tmp' \in [Bases -> Files \cup {Nobody}]
    BY <1>4 DEF DropBlob
  <2>. QED  BY <1>4, <2>1, <2>2 DEF DropBlob
<1>5. CASE Resolved
  BY <1>5 DEF Resolved
<1>6. ASSUME NEW s \in Sources, Query(s) PROVE CmdTypeOK'
  <2>1. PICK finds \in MayFind(s) : shown' = shown \cup ({s} \X Kept(finds))
    BY <1>6 DEF Query
  <2>2. Kept(finds) \subseteq Finds
    BY <2>1, MayFindTyped DEF Kept
  <2>3. shown' \subseteq Sources \X Finds
    BY <2>1, <2>2
  <2>. QED  BY <1>6, <2>3 DEF Query
<1>7. ASSUME NEW s \in Sources, PassOver(s) PROVE CmdTypeOK'
  BY <1>7 DEF PassOver
<1>8. ASSUME NEW s \in Sources, GiveUp(s) PROVE CmdTypeOK'
  BY <1>8 DEF GiveUp
<1>9. CASE Exit
  <2>1. shown' \subseteq shown
    BY <1>9 DEF Exit, Cut
  <2>2. exit' \in 0 .. 3
    BY <1>9 DEF Exit, ExitCode
  <2>. QED  BY <1>9, <2>1, <2>2 DEF Exit
<1>10. CASE Diff
  BY <1>10 DEF Diff
<1>11. CASE RepairFile
  BY <1>11 DEF RepairFile
<1>12. CASE Report
  BY <1>12 DEF Report, cmdvars
<1>13. CASE ReportDone
  BY <1>13 DEF ReportDone
<1>14. CASE UNCHANGED allvars
  BY <1>14 DEF allvars, cmdvars
<1>. QED  BY <1>1, <1>2, <1>3, <1>4, <1>5, <1>6, <1>7, <1>8, <1>9, <1>10, <1>11, <1>12,
             <1>13, <1>14 DEF CmdNext

(* The command line keeps its types, for any arguments and any files.      *)
THEOREM CommandTypeCorrect == CmdSpec => []CmdTypeOK
<1>1. CmdInit => CmdTypeOK
  BY InitTyped
<1>2. CmdTypeOK /\ [CmdNext]_allvars => CmdTypeOK'
  BY TypeInductive
<1>. QED  BY <1>1, <1>2, PTL DEF CmdSpec, allvars

-----------------------------------------------------------------------------
(* What has become of the event logs named.                                 *)

\* Commands that print what they find in their sources.
Printing == OnSources \ {"info"}

\* What log l has to show is printed.
LogShown(l) == {<<"file", l>>} \X Kept(holds[l].finds) \subseteq shown

\* While paths are resolved, the logs of those behind the cursor are sources.
LogsResolved ==
  /\ stage = "check" => p = 1
  /\ stage = "report" => cmd = "report"
  /\ stage = "resolve" =>
       /\ cmd \in OnSources
       /\ \A q \in DOMAIN paths :
            q < p /\ paths[q].kind \in {"evtx", "dir"} => {"file"} \X paths[q].files \subseteq sources

\* While sources are gone through, every log is one of them, and is left or
\* shown or cannot be opened.
LogsGoneThrough ==
  stage = "query" /\ cmd \in Printing =>
    \A l \in Logs : /\ <<"file", l>> \in sources
                    /\ <<"file", l>> \in todo \/ ~Opened(l) \/ LogShown(l)

CleanInv == LogsResolved /\ LogsGoneThrough /\ CleanLogsAreClean /\ EarliestListed

LEMMA LogsAreFiles == CmdTypeOK => Logs \subseteq Files
<1> SUFFICES ASSUME CmdTypeOK, NEW l \in Logs PROVE l \in Files
  OBVIOUS
<1>1. PICK q \in DOMAIN paths : l \in paths[q].files
  BY DEF Logs
<1>2. paths[q] \in Paths
  BY <1>1, LenProperties, ElementOfSeq DEF CmdTypeOK
<1>. QED  BY <1>1, <1>2 DEF Paths

\* All paths are resolved: every log is a source.
LEMMA AllResolved ==
  ASSUME CmdTypeOK, LogsResolved, Resolved, NEW l \in Logs
  PROVE  <<"file", l>> \in sources
<1>1. PICK q \in DOMAIN paths : paths[q].kind \in {"evtx", "dir"} /\ l \in paths[q].files
  BY DEF Logs
<1>2. DOMAIN paths = 1 .. Len(paths) /\ Len(paths) \in Nat
  BY LenProperties DEF CmdTypeOK
<1>3. q < p
  BY <1>1, <1>2 DEF Resolved, CmdTypeOK
<1>. QED  BY <1>1, <1>3 DEF LogsResolved, Resolved

LEMMA QueryShows ==
  ASSUME CmdTypeOK, cmd \in Printing, NEW l \in Files, Opened(l), Query(<<"file", l>>)
  PROVE  LogShown(l)'
<1>1. ~MayFail(<<"file", l>>)
  BY DEF MayFail, Opened, Printing
<1>2. MayFind(<<"file", l>>) = {holds[l].finds}
  BY <1>1 DEF MayFind, Printing
<1>3. shown' = shown \cup ({<<"file", l>>} \X Kept(holds[l].finds))
  BY <1>2 DEF Query
<1>4. Kept(holds[l].finds)' = Kept(holds[l].finds)
  BY DEF Query, Kept, arguments
<1>. QED  BY <1>3, <1>4 DEF LogShown

\* A log that can be opened is not passed over.
LEMMA OpenedIsNoFailure ==
  ASSUME CmdTypeOK, cmd \in Printing, NEW l \in Files, MayFail(<<"file", l>>)
  PROVE  ~Opened(l)
  BY DEF MayFail, Opened, Printing

LEMMA ShownIsFinite == CmdTypeOK => IsFiniteSet(shown)
<1> SUFFICES ASSUME CmdTypeOK PROVE IsFiniteSet(shown)
  OBVIOUS
<1>1. IsFiniteSet({"file"}) /\ IsFiniteSet({"tmp"})
  BY FS_Singleton
<1>2. IsFiniteSet({"file"} \X Files) /\ IsFiniteSet({"tmp"} \X Bases)
  BY <1>1, FS_Product, CommandAssumption
<1>3. IsFiniteSet(Sources)
  BY <1>2, FS_Union DEF Sources
<1>4. IsFiniteSet(Finds)
  BY FS_Interval, CommandAssumption DEF Finds
<1>5. IsFiniteSet(Sources \X Finds)
  BY <1>3, <1>4, FS_Product
<1>. QED  BY <1>5, FS_Subset DEF CmdTypeOK

\* Nothing is left to go through: every log that opens is shown.
LEMMA AllShown ==
  ASSUME CmdTypeOK, CleanInv, Exit, cmd \in Printing, NEW l \in Logs, Opened(l)
  PROVE  LogShown(l)
  BY DEF CleanInv, LogsGoneThrough, Exit, Querying

(* The exit code of a search says whether anything was printed.            *)
LEMMA ExitClean ==
  ASSUME CmdTypeOK, CleanInv, Exit
  PROVE  CleanLogsAreClean'
<1>1. /\ cmd' = cmd /\ paths' = paths /\ holds' = holds /\ option' = option
      /\ cmd \in OnSources /\ cmd # "diff"
  BY DEF Exit, Querying, arguments, OnSources, Searching, Listing
<1>2. ASSUME exit' = 0, cmd \in {"verify"} \cup Searching, NEW l \in Logs, Opened(l)
      PROVE  Kept(holds[l].finds) = {}
  <2>1. shown = {}
    BY <1>2 DEF Exit, ExitCode, Searching
  <2>2. cmd \in Printing
    BY <1>1, <1>2 DEF Printing, Searching
  <2>3. LogShown(l)
    BY <1>2, <2>2, AllShown
  <2>4. \A x \in Kept(holds[l].finds) : <<<<"file", l>>, x>> \in shown
    BY <2>3 DEF LogShown
  <2>. QED  BY <2>1, <2>4
<1>3. Logs' = Logs
  BY <1>1 DEF Logs
<1>4. \A l : (Opened(l)' <=> Opened(l)) /\ Kept(holds[l].finds)' = Kept(holds[l].finds)
  BY <1>1 DEF Opened, Kept
<1>. QED  BY <1>1, <1>2, <1>3, <1>4 DEF CleanLogsAreClean

(* The last unit of a time is a unit, of which the time is a multiple. *)
LEMMA LastUnitTyped ==
  ASSUME NEW t \in Nat
  PROVE  LastUnit(t) \in 1 .. Second /\ t % LastUnit(t) = 0 /\ Second % LastUnit(t) = 0
<1>1. /\ Second \in Nat /\ Units \subseteq 1 .. Second /\ 1 \in Units
      /\ \A u \in Units : Second % u = 0
  BY SecondAssumption, UnitsAssumption
<1>2. \E u \in Units : t % u = 0 /\ \A w \in Units : t % w = 0 => w <= u
  BY <1>1, GreatestDivisor
<1>3. LastUnit(t) \in Units /\ t % LastUnit(t) = 0
  BY <1>2 DEF LastUnit
<1>. QED  BY <1>1, <1>3

LEMMA TextKeyTyped ==
  ASSUME NEW t \in Nat
  PROVE  TextKey(t) \in Nat
<1>1. Second \in Nat /\ LastUnit(t) \in 1 .. Second
  BY LastUnitTyped, SecondAssumption
<1> DEFINE x == t + LastUnit(t)
           n == Second + 1
<1>2. x \in Nat /\ n \in Nat /\ LastUnit(t) \in Nat
  BY <1>1
<1>3. TextKey(t) = x * n + LastUnit(t)
  BY DEF TextKey
<1>. HIDE DEF x, n
<1>4. x * n \in Nat
  BY <1>2
<1>. QED  BY <1>2, <1>3, <1>4

(* The texts of times in different seconds sort as the times do. *)
LEMMA SecondsInOrder ==
  ASSUME NEW t \in Nat, NEW u \in Nat, t \div Second < u \div Second
  PROVE  TextKey(t) < TextKey(u)
<1> DEFINE a == LastUnit(t)
           b == LastUnit(u)
<1>1. /\ a \in 1 .. Second /\ t % a = 0 /\ Second % a = 0
      /\ b \in 1 .. Second /\ Second \in Nat \ {0}
  BY LastUnitTyped, SecondAssumption
<1>2. /\ TextKey(t) = (t + a) * (Second + 1) + a
      /\ TextKey(u) = (u + b) * (Second + 1) + b
  BY DEF TextKey
<1>. HIDE DEF a, b
<1>3. (t + a) * (Second + 1) + a < (u + b) * (Second + 1) + b
  BY <1>1, TextOrder
<1>. QED  BY <1>2, <1>3, Zenon

(* Nothing that the cut leaves out is of a second before what it keeps, and *)
(* it leaves something out only when the limit is reached.                 *)
LEMMA CutKeepsEarliest ==
  ASSUME CmdTypeOK, cmd = "timeline", NEW out \in Cut(shown),
         NEW e \in shown, e \notin out
  PROVE  Cardinality(out) = option /\ \A x \in out : x[2] \div Second <= e[2] \div Second
<1>1. /\ out \subseteq shown
      /\ Cardinality(out) = IF Cardinality(shown) < option THEN Cardinality(shown) ELSE option
      /\ \A x \in out : \A other \in shown \ out : TextKey(x[2]) <= TextKey(other[2])
  BY DEF Cut
<1>2. IsFiniteSet(shown)
  BY ShownIsFinite
<1>3. Cardinality(out) = Cardinality(shown) => out = shown
  BY <1>1, <1>2, FS_Subset
<1>4. ASSUME NEW x \in out PROVE x[2] \div Second <= e[2] \div Second
  <2>1. x[2] \in Nat /\ e[2] \in Nat /\ Second \in Nat \ {0}
    BY <1>1, CommandAssumption, SecondAssumption DEF CmdTypeOK, Finds
  <2>2. TextKey(x[2]) <= TextKey(e[2])
    BY <1>1
  <2>3. TextKey(x[2]) \in Nat /\ TextKey(e[2]) \in Nat
    BY <2>1, TextKeyTyped
  <2>4. ~(e[2] \div Second < x[2] \div Second)
    <3>1. SUFFICES ASSUME e[2] \div Second < x[2] \div Second PROVE FALSE
      OBVIOUS
    <3>2. TextKey(e[2]) < TextKey(x[2])
      BY <2>1, <3>1, SecondsInOrder
    <3>. QED  BY <2>2, <2>3, <3>2
  <2>5. x[2] \div Second \in Nat /\ e[2] \div Second \in Nat
    BY <2>1, DivMod
  <2>. QED  BY <2>4, <2>5
<1>. QED  BY <1>1, <1>3, <1>4

LEMMA ExitEarliest ==
  ASSUME CmdTypeOK, CleanInv, Exit
  PROVE  EarliestListed'
<1>1. cmd' = cmd /\ paths' = paths /\ holds' = holds /\ option' = option
  BY DEF Exit, arguments
<1>2. Logs' = Logs /\ \A l : Opened(l)' <=> Opened(l)
  BY <1>1 DEF Logs, Opened
<1>3. ASSUME cmd = "timeline", NEW l \in Logs, NEW x \in holds[l].finds, Opened(l)
      PROVE  \/ <<<<"file", l>>, x>> \in shown'
             \/ /\ Cardinality(shown') = option
                /\ \A e \in shown' : e[2] \div Second <= x \div Second
  <2>1. cmd \in Printing
    BY <1>3 DEF Printing, OnSources, Listing
  <2>2. LogShown(l)
    BY <1>3, <2>1, AllShown
  <2>3. <<<<"file", l>>, x>> \in shown
    BY <1>3, <2>2 DEF LogShown, Kept
  <2>4. shown' \in Cut(shown)
    BY DEF Exit
  <2>5. <<<<"file", l>>, x>>[2] = x
    OBVIOUS
  <2>. QED  BY <1>3, <2>3, <2>4, <2>5, CutKeepsEarliest
<1>. QED  BY <1>1, <1>2, <1>3 DEF EarliestListed

(* Two logs that are compared are one file each.                           *)
LEMMA DiffClean ==
  ASSUME CmdTypeOK, Diff
  PROVE  CleanLogsAreClean'
<1>1. /\ cmd = "diff" /\ cmd' = cmd /\ paths' = paths /\ holds' = holds
  BY DEF Diff, arguments
<1>2. DOMAIN paths = 1 .. 2
  BY <1>1, LenProperties DEF CmdTypeOK
<1> DEFINE finds(q) == UNION { holds[l].finds : l \in paths[q].files }
<1>3. ASSUME NEW q \in 1 .. 2, IsLog(q), NEW l \in paths[q].files
      PROVE  finds(q) = holds[l].finds
  <2>1. paths[q] \in Paths
    BY <1>2, ElementOfSeq DEF CmdTypeOK
  <2>2. IsFiniteSet(paths[q].files)
    BY <2>1, FS_Subset, CommandAssumption DEF Paths
  <2>3. Cardinality(paths[q].files) = 1
    BY <1>2, <1>3 DEF IsLog, CmdTypeOK
  <2>4. PICK x : paths[q].files = {x}
    BY <2>2, <2>3, FS_Singleton
  <2>. QED  BY <1>3, <2>4
<1>4. ASSUME exit' = 0, NEW l \in Logs, NEW m \in Logs
      PROVE  holds[l].finds = holds[m].finds
  <2>1. IsLog(1) /\ IsLog(2) /\ finds(1) = finds(2)
    BY <1>4 DEF Diff
  <2>2. \E q \in 1 .. 2 : l \in paths[q].files
    BY <1>2 DEF Logs
  <2>3. \E q \in 1 .. 2 : m \in paths[q].files
    BY <1>2 DEF Logs
  <2>4. \A q \in 1 .. 2 : IsLog(q) /\ finds(q) = finds(1)
    BY <2>1
  <2>. HIDE DEF finds
  <2>. QED  BY <1>3, <2>2, <2>3, <2>4
<1>5. Logs' = Logs
  BY <1>1 DEF Logs
<1>. QED  BY <1>1, <1>4, <1>5 DEF CleanLogsAreClean, Searching

(* Nothing was resolved: no log was named.                                 *)
LEMMA NoSourcesNoLogs ==
  ASSUME CmdTypeOK, CleanInv, Resolved
  PROVE  CleanInv'
<1>1. /\ cmd' = cmd /\ paths' = paths /\ holds' = holds /\ sources' = sources
      /\ todo' = sources /\ stage' \in {"query", "exited"}
      /\ stage' = "exited" => sources = {}
      /\ cmd # "diff" /\ stage = "resolve"
  BY DEF Resolved, arguments, CleanInv, LogsResolved, OnSources, Searching, Listing
<1>2. Logs' = Logs
  BY <1>1 DEF Logs
<1>3. \A l \in Logs : <<"file", l>> \in sources
  BY AllResolved DEF CleanInv
<1>4. LogsResolved'
  BY <1>1 DEF LogsResolved
<1>5. LogsGoneThrough'
  BY <1>1, <1>2, <1>3 DEF LogsGoneThrough
<1>6. stage' = "exited" => Logs' = {}
  BY <1>1, <1>2, <1>3
<1>7. CleanLogsAreClean' /\ EarliestListed'
  BY <1>1, <1>6 DEF CleanLogsAreClean, EarliestListed
<1>. QED  BY <1>4, <1>5, <1>7 DEF CleanInv

\* Nothing of what the invariant is about is changed.
LEMMA CleanKept ==
  ASSUME CleanInv, UNCHANGED <<arguments, stage, p, sources, todo, shown, exit>>
  PROVE  CleanInv'
<1>1. Logs' = Logs /\ \A l : Opened(l)' <=> Opened(l)
  BY DEF Logs, Opened, arguments
<1>2. \A l : Kept(holds[l].finds)' = Kept(holds[l].finds)
  BY DEF Kept, arguments
<1>3. LogsResolved'
  BY DEF CleanInv, LogsResolved, arguments
<1>4. LogsGoneThrough'
  BY <1>1, <1>2 DEF CleanInv, LogsGoneThrough, LogShown, arguments
<1>5. CleanLogsAreClean' /\ EarliestListed'
  BY <1>1, <1>2 DEF CleanInv, CleanLogsAreClean, EarliestListed, arguments
<1>. QED  BY <1>3, <1>4, <1>5 DEF CleanInv

\* A path is resolved; what it stands for, if it is a log, is a source.
LEMMA ResolveKeeps ==
  ASSUME CmdTypeOK, CleanInv, ResolveFiles \/ RebuildBlob \/ DropBlob
  PROVE  CleanInv'
<1>1. /\ stage = "resolve" /\ stage' = "resolve" /\ cmd' = cmd /\ paths' = paths
      /\ p' = p + 1 /\ sources \subseteq sources'
      /\ paths[p].kind \in {"evtx", "dir"} => {"file"} \X paths[p].files \subseteq sources'
  BY DEF ResolveFiles, RebuildBlob, DropBlob, Resolving, arguments
<1>2. p \in Nat /\ DOMAIN paths \subseteq Nat
  BY LenProperties DEF CmdTypeOK
<1>3. \A q \in DOMAIN paths : q < p' <=> q < p \/ q = p
  BY <1>1, <1>2
<1>4. LogsResolved'
  BY <1>1, <1>3 DEF CleanInv, LogsResolved
<1>. QED  BY <1>1, <1>4 DEF CleanInv, LogsGoneThrough, CleanLogsAreClean, EarliestListed

\* A source is gone through: its logs are shown or cannot be opened.
LEMMA SourceKeeps ==
  ASSUME CmdTypeOK, CleanInv, NEW s \in Sources, Query(s) \/ PassOver(s)
  PROVE  CleanInv'
<1>1. /\ stage = "query" /\ stage' = "query" /\ cmd' = cmd /\ paths' = paths /\ holds' = holds
      /\ option' = option /\ sources' = sources /\ todo' = todo \ {s} /\ shown \subseteq shown'
  BY DEF Query, PassOver, Querying, arguments
<1>2. Logs' = Logs /\ \A l : (Opened(l)' <=> Opened(l))
  BY <1>1 DEF Logs, Opened
<1>3. \A l : Kept(holds[l].finds)' = Kept(holds[l].finds)
  BY <1>1 DEF Kept
<1>4. ASSUME cmd \in Printing, NEW l \in Logs, s = <<"file", l>>, Opened(l)
      PROVE  LogShown(l)'
  <2>1. l \in Files
    BY LogsAreFiles
  <2>2. CASE Query(s)
    BY <1>4, <2>1, <2>2, QueryShows
  <2>3. CASE PassOver(s)
    BY <1>4, <2>1, <2>3, OpenedIsNoFailure DEF PassOver
  <2>. QED  BY <2>2, <2>3
<1>5. \A l : LogShown(l) => LogShown(l)'
  BY <1>1, <1>3 DEF LogShown
<1>6. LogsGoneThrough'
  <2> SUFFICES ASSUME cmd \in Printing, NEW l \in Logs
               PROVE  /\ <<"file", l>> \in sources'
                      /\ <<"file", l>> \in todo' \/ ~Opened(l)' \/ LogShown(l)'
    BY <1>1, <1>2 DEF LogsGoneThrough
  <2>1. /\ <<"file", l>> \in sources
        /\ <<"file", l>> \in todo \/ ~Opened(l) \/ LogShown(l)
    BY <1>1 DEF CleanInv, LogsGoneThrough
  <2>. QED  BY <1>1, <1>2, <1>4, <1>5, <2>1
<1>7. LogsResolved' /\ CleanLogsAreClean' /\ EarliestListed'
  BY <1>1 DEF LogsResolved, CleanLogsAreClean, EarliestListed
<1>. QED  BY <1>6, <1>7 DEF CleanInv

LEMMA CleanInductive == CmdTypeOK /\ CleanInv /\ [CmdNext]_allvars => CleanInv'
<1> SUFFICES ASSUME CmdTypeOK, CleanInv, [CmdNext]_allvars PROVE CleanInv'
  OBVIOUS
<1>1. CASE Check
  <2>1. /\ p' = p /\ cmd' = cmd /\ stage = "check"
        /\ stage' = "resolve" => cmd \in OnSources
        /\ stage' = "query" => cmd \notin OnSources
        /\ stage' = "report" => cmd = "report"
        /\ stage' \in {"resolve", "query", "report", "exited"}
        /\ stage' = "exited" => exit' # 0
    BY <1>1 DEF Check, arguments
  <2>2. p' = 1 /\ DOMAIN paths' \subseteq Nat \ {0}
    BY <1>1, <2>1, LenProperties DEF CleanInv, LogsResolved, CmdTypeOK, Check, arguments
  <2>3. LogsResolved'
    BY <2>1, <2>2 DEF LogsResolved
  <2>. QED  BY <2>1, <2>3 DEF CleanInv, LogsGoneThrough, Printing, CleanLogsAreClean, EarliestListed
<1>2. CASE ResolveFiles \/ RebuildBlob \/ DropBlob
  BY <1>2, ResolveKeeps
<1>3. CASE Resolved
  BY <1>3, NoSourcesNoLogs
<1>4. ASSUME NEW s \in Sources, Query(s) \/ PassOver(s) PROVE CleanInv'
  BY <1>4, SourceKeeps
<1>5. ASSUME NEW s \in Sources, GiveUp(s) PROVE CleanInv'
  BY <1>5 DEF GiveUp, CleanInv, LogsResolved, LogsGoneThrough, CleanLogsAreClean, EarliestListed
<1>6. CASE Exit
  <2>1. CleanLogsAreClean' /\ EarliestListed'
    BY <1>6, ExitClean, ExitEarliest
  <2>. QED  BY <1>6, <2>1 DEF Exit, CleanInv, LogsResolved, LogsGoneThrough
<1>7. CASE Diff
  <2>1. CleanLogsAreClean'
    BY <1>7, DiffClean
  <2>. QED  BY <1>7, <2>1 DEF Diff, arguments, CleanInv, LogsResolved, LogsGoneThrough, EarliestListed
<1>8. CASE RepairFile \/ ReportDone
  <2>1. stage' = "exited" /\ cmd' = cmd
    BY <1>8 DEF RepairFile, ReportDone, arguments
  <2>2. cmd \in {"repair", "report"}
    BY <1>8 DEF RepairFile, ReportDone, CleanInv, LogsResolved
  <2>. QED  BY <2>1, <2>2 DEF CleanInv, LogsResolved, LogsGoneThrough, CleanLogsAreClean,
                 EarliestListed, Printing, OnSources, Searching, Listing
<1>9. CASE Report \/ UNCHANGED allvars
  BY <1>9, CleanKept DEF Report, cmdvars, allvars, arguments
<1>. QED  BY <1>1, <1>2, <1>3, <1>4, <1>5, <1>6, <1>7, <1>8, <1>9 DEF CmdNext

LEMMA InitClean == CmdInit => CleanInv
<1> SUFFICES ASSUME CmdInit PROVE CleanInv
  OBVIOUS
<1>1. p = 1 /\ stage = "check"
  BY DEF CmdInit, Start
<1>. QED  BY <1>1 DEF CleanInv, LogsResolved, LogsGoneThrough, CleanLogsAreClean, EarliestListed

LEMMA CleanInvariant == CmdSpec => []CleanInv
<1>1. CmdInit => CleanInv
  BY InitClean
<1>2. CmdTypeOK /\ CleanInv /\ [CmdNext]_allvars => CleanInv'
  BY CleanInductive
<1>. QED  BY <1>1, <1>2, CommandTypeCorrect, PTL DEF CmdSpec, allvars

(* Exit code 0 of a command that searches means that no log it was given   *)
(* and that can be read has anything to show, and of diff that the logs    *)
(* have the same events, for any number of arguments.                      *)
THEOREM CleanMeansClean == CmdSpec => []CleanLogsAreClean
<1>1. CleanInv => CleanLogsAreClean
  BY DEF CleanInv
<1>. QED  BY <1>1, CleanInvariant, PTL

(* A timeline of any number of logs, cut short at any limit, leaves out no *)
(* event of a second before one it lists, for any number of ticks to the   *)
(* second.                                                                 *)
THEOREM TimelineIsEarliest == CmdSpec => []EarliestListed
<1>1. CleanInv => EarliestListed
  BY DEF CleanInv
<1>. QED  BY <1>1, CleanInvariant, PTL

-----------------------------------------------------------------------------
(* What the temporary files of blobs hold.                                  *)

LEMMA RebuiltInductive == CmdTypeOK /\ RebuiltNow /\ [CmdNext]_allvars => RebuiltNow'
<1> SUFFICES ASSUME CmdTypeOK, RebuiltNow, [CmdNext]_allvars PROVE RebuiltNow'
  OBVIOUS
<1>1. CASE ResolveFiles
  BY <1>1 DEF ResolveFiles, arguments, RebuiltNow
<1>2. CASE RebuildBlob
  <2>1. /\ p \in DOMAIN paths /\ paths' = paths /\ paths[p].kind = "blob"
        /\ sources' = sources \cup {<<"tmp", paths[p].base>>}
    BY <1>2, LenProperties DEF RebuildBlob, Resolving, arguments, CmdTypeOK
  <2>2. PICK f \in paths[p].files : tmp' = [tmp EXCEPT ![paths[p].base] = f]
    BY <1>2 DEF RebuildBlob
  <2>3. ASSUME NEW b \in Bases, b = paths[p].base
        PROVE  tmp'[b] \in paths[p].files
    BY <2>2, <2>3 DEF CmdTypeOK
  <2>4. ASSUME NEW b \in Bases, b # paths[p].base
        PROVE  tmp'[b] = tmp[b] /\ (<<"tmp", b>> \in sources' <=> <<"tmp", b>> \in sources)
    BY <2>1, <2>2, <2>4 DEF CmdTypeOK
  <2>. QED  BY <2>1, <2>3, <2>4 DEF RebuiltNow
<1>3. CASE DropBlob
  <2>1. sources' = sources /\ paths' = paths
        /\ tmp' \in {tmp, [tmp EXCEPT ![paths[p].base] = Nobody]}
    BY <1>3 DEF DropBlob, arguments
  <2>2. \A b \in Bases : tmp'[b] \in {tmp[b], Nobody}
    BY <2>1 DEF CmdTypeOK
  <2>. QED  BY <2>1, <2>2 DEF RebuiltNow
<1>4. CASE UNCHANGED <<paths, sources, tmp>>
  BY <1>4 DEF RebuiltNow
<1>5. Check \/ Resolved \/ (\E s \in Sources : Query(s) \/ PassOver(s) \/ GiveUp(s)) \/ Exit \/ Diff
        \/ RepairFile \/ Report \/ ReportDone \/ UNCHANGED allvars
      => UNCHANGED <<paths, sources, tmp>>
  BY DEF Check, Resolved, Query, PassOver, GiveUp, Exit, Diff, RepairFile, Report, ReportDone,
         allvars, cmdvars, arguments
<1>. QED  BY <1>1, <1>2, <1>3, <1>4, <1>5 DEF CmdNext

(* What is gone through for a blob was carved from a blob of this command  *)
(* with that base name, whatever earlier ones have left behind.            *)
THEOREM BlobsAreRebuilt == CmdSpec => []RebuiltNow
<1>1. CmdInit => RebuiltNow
  BY DEF CmdInit, Start, RebuiltNow
<1>2. CmdTypeOK /\ RebuiltNow /\ [CmdNext]_allvars => RebuiltNow'
  BY RebuiltInductive
<1>. QED  BY <1>1, <1>2, CommandTypeCorrect, PTL DEF CmdSpec, allvars

-----------------------------------------------------------------------------
(* The report as a command.                                                 *)

(* Among the commands, `report` runs as it runs alone: no other step of    *)
(* the command line touches what it keeps.                                 *)
THEOREM CommandsRunReport == CmdSpec => ReportSafety
<1>1. CmdInit => ReportInit
  BY DEF CmdInit
<1>2. [CmdNext]_allvars => [ReportNext]_reportVars
  BY DEF allvars, CmdNext, Check, ResolveFiles, RebuildBlob, DropBlob, Resolved, Query, PassOver,
         GiveUp, Exit, Diff, RepairFile, Report, ReportDone
<1>. QED  BY <1>1, <1>2, PTL DEF CmdSpec, ReportSafety, allvars

(* So what the report says of its files holds of the command's (report.rs, *)
(* integrity_for).                                                         *)
THEOREM CommandReportHolds == CmdSpec => []EntriesHold
  BY CommandsRunReport, ReportHolds, PTL

(* And as long as no name is used twice, every file the command lists is   *)
(* there as listed, and none is left out (report.rs, carve_blob).          *)
THEOREM CommandFilesAreOwn == CmdSpec => []FilesAreOwn
  BY CommandsRunReport, FilesAreTheirOwn, PTL
===============================================================================
