----------------------------- MODULE Repair_proofs -----------------------------
(***************************************************************************)
(* Proofs about carving and repair, for images, files and chunks of any    *)
(* size.  Carving: what pass 1 queues, that it implements the abstract     *)
(* tiling, and that the result does not depend on the order in which the   *)
(* pool works.  Repair: what a pass says it did is what it did, there is   *)
(* nothing left for a second, and carving finds the repaired file sound.   *)
(***************************************************************************)
EXTENDS Repair, CommonLemmas

(* Type invariant: what pass 1 and the pool rest on. *)
ScanTypeOK ==
  /\ head \in [Words -> Heads]
  /\ i \in Nat
  /\ full \in Seq(Words)

LEMMA AppendOffset ==
  ASSUME ScanTypeOK, i \in Words, full' = Append(full, i)
  PROVE  /\ full' \in Seq(Words)
         /\ Len(full') = Len(full) + 1
         /\ \A k \in 1 .. Len(full) : full'[k] = full[k]
         /\ full'[Len(full) + 1] = i
         /\ FullOffsets' = FullOffsets \cup {i}
<1>1. /\ full' \in Seq(Words)
      /\ Len(full') = Len(full) + 1
      /\ \A k \in 1 .. Len(full) : full'[k] = full[k]
      /\ full'[Len(full) + 1] = i
  BY AppendProperties DEF ScanTypeOK
<1>2. Len(full) \in Nat
  BY DEF ScanTypeOK
<1>. QED  BY <1>1, <1>2 DEF FullOffsets

LEMMA OffsetsAreWords ==
  ASSUME ScanTypeOK
  PROVE  \A k \in 1 .. Len(full) : full[k] \in Nat
BY ElementOfSeq, SMTT(20) DEF ScanTypeOK, Words

(* Only ScanFull, ScanTruncated and ScanMiss touch what pass 1 keeps. *)
Quiet == UNCHANGED <<head, i, full>>

LEMMA StepKinds ==
  ASSUME [Next]_vars
  PROVE  ScanFull \/ ScanTruncated \/ ScanMiss \/ Quiet
BY DEF Next, Scan, Pool, StartPool, CarveChunk, Merge, vars, Quiet

LEMMA ScanTypeStep ==
  ASSUME ScanTypeOK, [Next]_vars
  PROVE  ScanTypeOK'
<1>1. CASE ScanFull
  <2>1. i \in Words
    BY <1>1, ScanAssumption DEF ScanFull, Scanning, ScanTypeOK, Words
  <2>2. full' \in Seq(Words)
    BY <1>1, <2>1, AppendOffset DEF ScanFull
  <2>. QED  BY <1>1, <2>2, ScanAssumption DEF ScanFull, ScanTypeOK
<1>2. CASE ScanTruncated \/ ScanMiss
  BY <1>2 DEF ScanTruncated, ScanMiss, ScanTypeOK
<1>3. CASE Quiet
  BY <1>3 DEF Quiet, ScanTypeOK
<1>. QED  BY <1>1, <1>2, <1>3, StepKinds

(* The image, the cursor and the queue keep their types. *)
THEOREM ScanTypeCorrect == Spec => []ScanTypeOK
<1>1. Init => ScanTypeOK
  <2> SUFFICES ASSUME Init PROVE ScanTypeOK
    OBVIOUS
  <2>1. full \in Seq(Words)
    BY EmptySeq DEF Init
  <2>. QED  BY <2>1 DEF Init, ScanTypeOK
<1>2. ScanTypeOK /\ [Next]_vars => ScanTypeOK'
  BY ScanTypeStep
<1>. QED  BY <1>1, <1>2, PTL DEF Spec

-----------------------------------------------------------------------------
(* Disjointness of the queued chunks and the account of the magics.         *)

(* Inductive: every queued chunk ends at or before the cursor. *)
ScanInv ==
  /\ FullDisjoint
  /\ \A k \in 1 .. Len(full) : full[k] + C <= i
  /\ MagicsAccounted

LEMMA ScanInvInductive ==
  ASSUME ScanTypeOK, ScanInv, [Next]_vars
  PROVE  ScanInv'
<1> USE ScanAssumption
<1>1. CASE ScanFull
  <2>1. /\ i \in Words /\ i + C <= N /\ i' = i + C /\ head' = head
        /\ full' = Append(full, i)
    BY <1>1 DEF ScanFull, Scanning, ScanTypeOK, Words
  <2>2. /\ Len(full') = Len(full) + 1 /\ Len(full) \in Nat
        /\ \A k \in 1 .. Len(full) : full'[k] = full[k]
        /\ full'[Len(full) + 1] = i
        /\ FullOffsets' = FullOffsets \cup {i}
    BY <2>1, AppendOffset DEF ScanTypeOK
  <2>3. \A k \in 1 .. Len(full) :
          full[k] \in Nat /\ full[k] + C <= N /\ full[k] + C <= i
    BY OffsetsAreWords DEF ScanInv, FullDisjoint
  <2>4. i \in Nat /\ C \in Nat /\ N \in Nat
    BY DEF ScanTypeOK
  <2>5. \A k \in 1 .. Len(full') : full'[k] + C <= N /\ full'[k] + C <= i'
    BY <2>1, <2>2, <2>3, <2>4
  <2>6. \A j, k \in 1 .. Len(full') : j < k => full'[j] + C <= full'[k]
    <3> SUFFICES ASSUME NEW j \in 1 .. Len(full'), NEW k \in 1 .. Len(full'), j < k
                 PROVE  full'[j] + C <= full'[k]
      OBVIOUS
    <3>1. j \in 1 .. Len(full)
      BY <2>2
    <3>2. CASE k \in 1 .. Len(full)
      BY <2>2, <3>1, <3>2 DEF ScanInv, FullDisjoint
    <3>3. CASE k = Len(full) + 1
      BY <2>2, <2>3, <3>1, <3>3
    <3>. QED  BY <2>2, <3>2, <3>3
  <2>7. Magics' = Magics
    BY <2>1 DEF Magics
  <2>8. ASSUME NEW m \in Magics, m < i'
        PROVE  \/ m \in FullOffsets'
               \/ \E f \in FullOffsets' : f < m /\ m < f + C
               \/ m + C > N
    <3>1. m \in Nat
      BY DEF Magics, Words
    <3>2. CASE m < i
      BY <2>2, <3>2 DEF ScanInv, MagicsAccounted
    <3>3. CASE m = i
      BY <2>2, <3>3
    <3>4. CASE i < m
      BY <2>1, <2>2, <2>8, <3>4
    <3>. QED  BY <2>4, <3>1, <3>2, <3>3, <3>4
  <2>9. MagicsAccounted'
    BY <2>7, <2>8 DEF MagicsAccounted
  <2>. QED  BY <2>5, <2>6, <2>9 DEF ScanInv, FullDisjoint
<1>2. CASE ScanTruncated \/ ScanMiss
  <2>1. head' = head /\ full' = full /\ i' = i + 1 /\ (head[i] = "none" \/ i + C > N)
    BY <1>2 DEF ScanTruncated, ScanMiss
  <2>2. Magics' = Magics /\ FullOffsets' = FullOffsets /\ i \in Nat
    BY <2>1 DEF Magics, FullOffsets, ScanTypeOK
  <2>3. \A k \in 1 .. Len(full) : full[k] \in Nat
    BY OffsetsAreWords
  <2>4. \A m \in Magics : m \in Nat /\ head[m] # "none"
    BY DEF Magics, Words
  <2>5. MagicsAccounted'
    BY <2>1, <2>2, <2>4 DEF ScanInv, MagicsAccounted
  <2>. QED  BY <2>1, <2>2, <2>3, <2>5 DEF ScanInv, FullDisjoint
<1>3. CASE Quiet
  BY <1>3 DEF Quiet, ScanInv, FullDisjoint, MagicsAccounted, Magics, FullOffsets
<1>. QED  BY <1>1, <1>2, <1>3, StepKinds

LEMMA ScanInvariant == Spec => []ScanInv
<1>1. Init => ScanInv
  BY DEF Init, ScanInv, FullDisjoint, MagicsAccounted, Magics, Words
<1>2. ScanTypeOK /\ ScanInv /\ [Next]_vars => ScanInv'
  BY ScanInvInductive
<1>. QED  BY <1>1, <1>2, ScanTypeCorrect, PTL DEF Spec

(* The closures of the pool never slice beyond the data and never share a  *)
(* byte.                                                                   *)
THEOREM FullChunksDisjoint == Spec => []FullDisjoint
<1>1. ScanInv => FullDisjoint
  BY DEF ScanInv
<1>. QED  BY <1>1, ScanInvariant, PTL

(* A chunk magic is only ever passed over inside a chunk that was queued,  *)
(* or where no whole chunk is left.                                        *)
THEOREM NoMagicForgotten == Spec => []MagicsAccounted
<1>1. ScanInv => MagicsAccounted
  BY DEF ScanInv
<1>. QED  BY <1>1, ScanInvariant, PTL

-----------------------------------------------------------------------------
(* The chunks of a well-formed file.                                        *)

LEMMA GridQueuedInductive ==
  ASSUME ScanTypeOK, ScanInv, GridQueued, [Next]_vars
  PROVE  GridQueued'
<1> USE ScanAssumption
<1>1. Magics' = Magics
  BY StepKinds DEF ScanFull, ScanTruncated, ScanMiss, Quiet, Magics
<1>2. SUFFICES ASSUME NEW S \in SUBSET Magics, IsGrid(S), NEW s \in S, s < i'
               PROVE  s \in FullOffsets'
  BY <1>1 DEF GridQueued, IsGrid
<1>3. /\ \A t \in S : t \in Nat /\ head[t] # "none" /\ t + C <= N
      /\ \A t \in S : t < i => t \in FullOffsets
  BY <1>2 DEF GridQueued, IsGrid, Magics, Words
<1>4. i \in Nat
  BY DEF ScanTypeOK
<1>5. CASE ScanFull
  <2>1. i \in Words /\ i \in Magics /\ i' = i + C /\ FullOffsets' = FullOffsets \cup {i}
    BY <1>5, AppendOffset DEF ScanFull, Scanning, ScanTypeOK, Words, Magics
  <2>2. CASE s <= i
    BY <1>3, <1>4, <2>1, <2>2
  <2>3. CASE i < s
    <3>1. s - C \in S
      BY <1>2, <1>3, <1>4, <2>1, <2>3 DEF IsGrid
    <3>2. s - C \in FullOffsets
      BY <1>2, <1>3, <1>4, <2>1, <3>1
    <3>3. (s - C) + C <= i
      BY <3>2 DEF ScanInv, FullOffsets
    <3>. QED  BY <1>3, <1>4, <2>3, <3>3
  <2>. QED  BY <1>3, <1>4, <2>2, <2>3
<1>6. CASE ScanTruncated \/ ScanMiss
  <2>1. full' = full /\ i' = i + 1 /\ (head[i] = "none" \/ i + C > N)
    BY <1>6 DEF ScanTruncated, ScanMiss
  <2>2. s # i
    BY <1>3, <2>1
  <2>. QED  BY <1>2, <1>3, <1>4, <2>1, <2>2 DEF FullOffsets
<1>7. CASE Quiet
  BY <1>2, <1>3, <1>7 DEF Quiet, FullOffsets
<1>. QED  BY <1>5, <1>6, <1>7, StepKinds

(* In a file whose chunks stand end to end, with no magic before the first *)
(* of them, every complete chunk is queued, whatever the chunks contain.   *)
THEOREM GridIsQueued == Spec => []GridQueued
<1>1. Init => GridQueued
  BY DEF Init, GridQueued, Magics, Words
<1>2. ScanTypeOK /\ ScanInv /\ GridQueued /\ [Next]_vars => GridQueued'
  BY GridQueuedInductive
<1>. QED  BY <1>1, <1>2, ScanTypeCorrect, ScanInvariant, PTL DEF Spec

-----------------------------------------------------------------------------
(* Refinement.                                                              *)

(* Queueing a chunk takes the first free magic of the image: what lies     *)
(* between the last extent and the cursor has no room for a chunk or no    *)
(* magic, by MagicsAccounted.                                              *)
LEMMA StepTiles ==
  ASSUME ScanTypeOK, ScanInv, [Next]_vars
  PROVE  [Tiling!Take]_Tiling!vars
<1> USE ScanAssumption
<1>1. CASE ScanFull
  <2>1. /\ i \in Words /\ i \in Magics /\ i + C <= N
        /\ Magics' = Magics
        /\ FullOffsets' = FullOffsets \cup {i}
    BY <1>1, AppendOffset DEF ScanFull, Scanning, ScanTypeOK, Words, Magics
  <2>2. \A t \in FullOffsets : t \in Nat /\ t + C <= i
    BY OffsetsAreWords DEF ScanInv, FullOffsets
  <2>3. Tiling!Free(i)
    BY <2>1, <2>2 DEF Tiling!Free
  <2>4. ASSUME NEW n \in Magics, Tiling!Free(n) PROVE i <= n
    <3>1. n \in Nat /\ i \in Nat
      BY DEF Magics, Words, ScanTypeOK
    <3>2. SUFFICES ASSUME n < i PROVE FALSE
      BY <3>1
    <3>3. \/ n \in FullOffsets
          \/ \E f \in FullOffsets : f < n /\ n < f + C
          \/ n + C > N
      BY <3>2 DEF ScanInv, MagicsAccounted
    <3>. QED  BY <2>2, <2>4, <3>1, <3>3 DEF Tiling!Free
  <2>. QED  BY <2>1, <2>3, <2>4 DEF Tiling!Take
<1>2. CASE ScanTruncated \/ ScanMiss \/ Quiet
  BY <1>2 DEF ScanTruncated, ScanMiss, Quiet, Tiling!vars, Magics, FullOffsets
<1>. QED  BY <1>1, <1>2, StepKinds

(* Pass 1 implements the tiling of module ChunkTiling.                     *)
THEOREM ScanTiles == Spec => TilesImage
<1>1. Init => Tiling!Init
  BY DEF Init, Tiling!Init, Magics, FullOffsets, Words
<1>2. ScanTypeOK /\ ScanInv /\ [Next]_vars => [Tiling!Take]_Tiling!vars
  BY StepTiles
<1>. QED
  BY <1>1, <1>2, ScanTypeCorrect, ScanInvariant, PTL DEF Spec, TilesImage, Tiling!Spec

-----------------------------------------------------------------------------
(* Counting, in the order of a sequence.                                    *)

\* How many of the first k positions are in Q.
UpTo(Q, k) == { j \in 1 .. k : j \in Q }

LEMMA CountUpTo ==
  ASSUME NEW Q, NEW k \in Nat
  PROVE  /\ IsFiniteSet(UpTo(Q, k)) /\ Cardinality(UpTo(Q, k)) \in Nat
         /\ UpTo(Q, 0) = {} /\ Cardinality(UpTo(Q, 0)) = 0
         /\ k # 0 => Cardinality(UpTo(Q, k)) = Cardinality(UpTo(Q, k - 1)) + IF k \in Q THEN 1 ELSE 0
<1>1. \A q \in Nat : IsFiniteSet(UpTo(Q, q)) /\ Cardinality(UpTo(Q, q)) \in Nat
  <2> SUFFICES ASSUME NEW q \in Nat
               PROVE  IsFiniteSet(UpTo(Q, q)) /\ Cardinality(UpTo(Q, q)) \in Nat
    OBVIOUS
  <2>1. IsFiniteSet(1 .. q) /\ UpTo(Q, q) \in SUBSET (1 .. q)
    BY FS_Interval DEF UpTo
  <2>. QED  BY <2>1, FS_Subset, FS_CardinalityType
<1>2. UpTo(Q, 0) = {} /\ Cardinality(UpTo(Q, 0)) = 0
  <2>1. UpTo(Q, 0) = {}
    BY DEF UpTo
  <2>. QED  BY <2>1, FS_EmptySet
<1>3. ASSUME k # 0
      PROVE  Cardinality(UpTo(Q, k)) = Cardinality(UpTo(Q, k - 1)) + IF k \in Q THEN 1 ELSE 0
  <2>1. k - 1 \in Nat /\ k \notin UpTo(Q, k - 1)
    BY <1>3 DEF UpTo
  <2>2. IsFiniteSet(UpTo(Q, k - 1)) /\ Cardinality(UpTo(Q, k - 1)) \in Nat
    BY <1>1, <2>1
  <2>3. CASE k \in Q
    <3>1. UpTo(Q, k) = UpTo(Q, k - 1) \cup {k}
      BY <1>3, <2>3 DEF UpTo
    <3>2. Cardinality(UpTo(Q, k - 1) \cup {k}) = Cardinality(UpTo(Q, k - 1)) + 1
      BY <2>1, <2>2, FS_AddElement
    <3>. QED  BY <2>3, <3>1, <3>2
  <2>4. CASE k \notin Q
    <3>1. UpTo(Q, k) = UpTo(Q, k - 1)
      BY <1>3, <2>4 DEF UpTo
    <3>. QED  BY <2>2, <2>4, <3>1
  <2>. QED  BY <2>3, <2>4
<1>. QED  BY <1>1, <1>2, <1>3

\* The members of the sets that f has at those of the first k positions.
Within(Q, f, k) == UNION { {j} \X f[j] : j \in UpTo(Q, k) }

LEMMA WithinMembers ==
  ASSUME NEW Q, NEW f, NEW k
  PROVE  \A x : x \in Within(Q, f, k) <=> \E j \in UpTo(Q, k) : x \in {j} \X f[j]
BY DEF Within

AllFinite(f, m) == \A j \in 1 .. m : IsFiniteSet(f[j])

Counted(Q, f, k) ==
  /\ IsFiniteSet(Within(Q, f, k)) /\ Cardinality(Within(Q, f, k)) \in Nat
  /\ k # 0 => Cardinality(Within(Q, f, k))
                = Cardinality(Within(Q, f, k - 1)) + IF k \in Q THEN Cardinality(f[k]) ELSE 0

LEMMA CountWithin ==
  ASSUME NEW Q, NEW m \in Nat, NEW f, AllFinite(f, m), NEW k \in 0 .. m
  PROVE  Counted(Q, f, k)
<1>1. Within(Q, f, 0) = {}
  BY DEF Within, UpTo
<1>2. ASSUME NEW q \in 1 .. m
      PROVE  /\ q \in Q => Within(Q, f, q) = Within(Q, f, q - 1) \cup ({q} \X f[q])
             /\ q \notin Q => Within(Q, f, q) = Within(Q, f, q - 1)
             /\ Within(Q, f, q - 1) \cap ({q} \X f[q]) = {}
             /\ IsFiniteSet({q} \X f[q]) /\ Cardinality({q} \X f[q]) = Cardinality(f[q])
             /\ Cardinality(f[q]) \in Nat
  <2>1. /\ q \in Q => UpTo(Q, q) = UpTo(Q, q - 1) \cup {q}
        /\ q \notin Q => UpTo(Q, q) = UpTo(Q, q - 1)
        /\ q \notin UpTo(Q, q - 1)
    BY DEF UpTo
  <2>2. q \in Q => Within(Q, f, q) = Within(Q, f, q - 1) \cup ({q} \X f[q])
    <3> SUFFICES ASSUME q \in Q, NEW x
                 PROVE  x \in Within(Q, f, q) <=> x \in Within(Q, f, q - 1) \/ x \in {q} \X f[q]
      OBVIOUS
    <3>. QED  BY <2>1, WithinMembers
  <2>3. q \notin Q => Within(Q, f, q) = Within(Q, f, q - 1)
    BY <2>1 DEF Within
  <2>4. Within(Q, f, q - 1) \cap ({q} \X f[q]) = {}
    <3> SUFFICES ASSUME NEW x \in Within(Q, f, q - 1), x \in {q} \X f[q] PROVE FALSE
      OBVIOUS
    <3>1. PICK j \in UpTo(Q, q - 1) : x \in {j} \X f[j]
      BY WithinMembers
    <3>2. x[1] = j /\ x[1] = q
      BY <3>1
    <3>. QED  BY <2>1, <3>2
  <2>5. /\ IsFiniteSet({q} \X f[q]) /\ Cardinality({q} \X f[q]) = Cardinality(f[q])
        /\ Cardinality(f[q]) \in Nat
    <3>1. IsFiniteSet({q}) /\ Cardinality({q}) = 1 /\ IsFiniteSet(f[q]) /\ Cardinality(f[q]) \in Nat
      BY FS_Singleton, FS_CardinalityType DEF AllFinite
    <3>2. IsFiniteSet({q} \X f[q]) /\ Cardinality({q} \X f[q]) = 1 * Cardinality(f[q])
      BY <3>1, FS_Product
    <3>. QED  BY <3>1, <3>2
  <2>. QED  BY <2>2, <2>3, <2>4, <2>5
<1>3. \A q \in 0 .. m : IsFiniteSet(Within(Q, f, q))
  <2> DEFINE Bad == { q \in Nat : q <= m /\ ~IsFiniteSet(Within(Q, f, q)) }
  <2>1. SUFFICES ASSUME Bad # {} PROVE FALSE
    OBVIOUS
  <2>2. PICK q \in Bad : \A p \in Bad : q <= p
    <3>1. Bad \subseteq Nat
      OBVIOUS
    <3>. HIDE DEF Bad
    <3>. QED  BY <2>1, <3>1, LeastNat
  <2>3. q # 0
    BY <1>1, FS_EmptySet
  <2>4. q \in 1 .. m /\ q - 1 \in Nat /\ q - 1 <= m /\ q - 1 \notin Bad
    BY <2>2, <2>3
  <2>5. IsFiniteSet(Within(Q, f, q - 1))
    BY <2>4
  <2>6. IsFiniteSet(Within(Q, f, q - 1) \cup ({q} \X f[q]))
    BY <1>2, <2>4, <2>5, FS_Union
  <2>. QED  BY <1>2, <2>4, <2>5, <2>6
<1>4. ASSUME k # 0
      PROVE  Cardinality(Within(Q, f, k))
               = Cardinality(Within(Q, f, k - 1)) + IF k \in Q THEN Cardinality(f[k]) ELSE 0
  <2>1. k \in 1 .. m /\ k - 1 \in 0 .. m
    BY <1>4
  <2>2. IsFiniteSet(Within(Q, f, k - 1)) /\ Cardinality(Within(Q, f, k - 1)) \in Nat
    BY <1>3, <2>1, FS_CardinalityType
  <2>3. CASE k \in Q
    <3>1. Cardinality(Within(Q, f, k - 1) \cup ({k} \X f[k]))
            = Cardinality(Within(Q, f, k - 1)) + Cardinality({k} \X f[k])
                - Cardinality(Within(Q, f, k - 1) \cap ({k} \X f[k]))
      BY <1>2, <2>1, <2>2, FS_Union
    <3>2. Cardinality(Within(Q, f, k - 1) \cap ({k} \X f[k])) = 0
      BY <1>2, <2>1, FS_EmptySet
    <3>3. Cardinality({k} \X f[k]) = Cardinality(f[k]) /\ Cardinality(f[k]) \in Nat
      BY <1>2, <2>1
    <3>4. Within(Q, f, k) = Within(Q, f, k - 1) \cup ({k} \X f[k])
      BY <1>2, <2>1, <2>3
    <3>. QED  BY <2>2, <2>3, <3>1, <3>2, <3>3, <3>4
  <2>4. CASE k \notin Q
    <3>1. Within(Q, f, k) = Within(Q, f, k - 1)
      BY <1>2, <2>1, <2>4
    <3>. QED  BY <2>2, <2>4, <3>1
  <2>. QED  BY <2>3, <2>4
<1>. QED  BY <1>3, <1>4, FS_CardinalityType DEF Counted

\* The positions of the chunks cs whose integrity is in I, and their records.
Bearing(cs, I) == { j \in 1 .. Len(cs) : cs[j].integrity \in I }
RecordSets(cs) == [j \in 1 .. Len(cs) |-> cs[j].recs]

\* The counters when the first k chunks of cs have been counted.
CountersAt(cs, k) ==
  [found      |-> k,
   valid      |-> Cardinality(UpTo(Bearing(cs, {"Valid"}), k)),
   corrupt    |-> Cardinality(UpTo(Bearing(cs, {"HeaderCorrupt"}), k)),
   records    |-> Cardinality(Within(Bearing(cs, Integrities), RecordSets(cs), k)),
   badRecords |-> Cardinality(Within(Bearing(cs, {"HeaderCorrupt"}), RecordSets(cs), k))]

\* What CountAll counts is a sequence of these.
IsChunk(c) == c.integrity \in Integrities /\ IsFiniteSet(c.recs)

LEMMA CountersStep ==
  ASSUME NEW T, \A c \in T : IsChunk(c), NEW cs \in Seq(T), NEW k \in 1 .. Len(cs)
  PROVE  CountersAt(cs, k) = CountChunk(CountersAt(cs, k - 1), cs[k])
<1>1. Len(cs) \in Nat /\ k \in Nat /\ k # 0 /\ k \in 0 .. Len(cs) /\ IsChunk(cs[k])
  BY ElementOfSeq
<1>2. \A j \in 1 .. Len(cs) : IsFiniteSet(RecordSets(cs)[j])
  BY ElementOfSeq DEF RecordSets, IsChunk
<1>3. RecordSets(cs)[k] = cs[k].recs /\ Cardinality(cs[k].recs) \in Nat
  BY <1>1, FS_CardinalityType DEF RecordSets, IsChunk
<1>4. /\ k \in Bearing(cs, {"Valid"}) <=> cs[k].integrity = "Valid"
      /\ k \in Bearing(cs, {"HeaderCorrupt"}) <=> cs[k].integrity = "HeaderCorrupt"
      /\ k \in Bearing(cs, Integrities)
  BY <1>1 DEF Bearing, IsChunk
<1>5. Cardinality(UpTo(Bearing(cs, {"Valid"}), k))
        = Cardinality(UpTo(Bearing(cs, {"Valid"}), k - 1)) + IF cs[k].integrity = "Valid" THEN 1 ELSE 0
  BY <1>1, <1>4, CountUpTo
<1>6. Cardinality(UpTo(Bearing(cs, {"HeaderCorrupt"}), k))
        = Cardinality(UpTo(Bearing(cs, {"HeaderCorrupt"}), k - 1))
            + IF cs[k].integrity = "HeaderCorrupt" THEN 1 ELSE 0
  BY <1>1, <1>4, CountUpTo
<1>7. Cardinality(Within(Bearing(cs, Integrities), RecordSets(cs), k))
        = Cardinality(Within(Bearing(cs, Integrities), RecordSets(cs), k - 1)) + Cardinality(cs[k].recs)
  <2> DEFINE Q == Bearing(cs, Integrities)
             f == RecordSets(cs)
             m == Len(cs)
  <2>1. k \in Q /\ f[k] = cs[k].recs
    BY <1>3, <1>4
  <2>. HIDE DEF Q, f, m
  <2>2. m \in Nat /\ k \in 0 .. m /\ AllFinite(f, m)
    BY <1>1, <1>2 DEF AllFinite, f, m
  <2>3. Counted(Q, f, k)
    BY <2>2, CountWithin
  <2>. QED  BY <1>1, <2>1, <2>3 DEF Counted, Q, f
<1>8. Cardinality(Within(Bearing(cs, {"HeaderCorrupt"}), RecordSets(cs), k))
        = Cardinality(Within(Bearing(cs, {"HeaderCorrupt"}), RecordSets(cs), k - 1))
            + IF cs[k].integrity = "HeaderCorrupt" THEN Cardinality(cs[k].recs) ELSE 0
  <2> DEFINE Q == Bearing(cs, {"HeaderCorrupt"})
             f == RecordSets(cs)
             m == Len(cs)
  <2>1. (k \in Q <=> cs[k].integrity = "HeaderCorrupt") /\ f[k] = cs[k].recs
    BY <1>3, <1>4
  <2>. HIDE DEF Q, f, m
  <2>2. m \in Nat /\ k \in 0 .. m /\ AllFinite(f, m)
    BY <1>1, <1>2 DEF AllFinite, f, m
  <2>3. Counted(Q, f, k)
    BY <2>2, CountWithin
  <2>. QED  BY <1>1, <2>1, <2>3 DEF Counted, Q, f
<1>9. k = (k - 1) + 1
  BY <1>1
<1>. QED  BY <1>5, <1>6, <1>7, <1>8, <1>9 DEF CountersAt, CountChunk

(* The counters that the loop of CountAll ends with are those of all chunks. *)
LEMMA CountAllIs ==
  ASSUME NEW T, \A c \in T : IsChunk(c), NEW cs \in Seq(T)
  PROVE  CountAll(cs) = CountersAt(cs, Len(cs))
<1> DEFINE upTo[k \in 0 .. Len(cs)] ==
             IF k = 0 THEN NoStats ELSE CountChunk(upTo[k - 1], cs[k])
           g == [k \in 0 .. Len(cs) |-> CountersAt(cs, k)]
<1>1. Len(cs) \in Nat
  OBVIOUS
<1>2. upTo = CHOOSE h : h = [k \in 0 .. Len(cs) |-> IF k = 0 THEN NoStats ELSE CountChunk(h[k - 1], cs[k])]
  OBVIOUS
<1>3. CountAll(cs) = upTo[Len(cs)]
  BY DEF CountAll
<1>. HIDE DEF upTo
<1>4. CountersAt(cs, 0) = NoStats
  <2>1. Cardinality(UpTo(Bearing(cs, {"Valid"}), 0)) = 0 /\ Cardinality(UpTo(Bearing(cs, {"HeaderCorrupt"}), 0)) = 0
    BY CountUpTo
  <2>2. \A Q : Within(Q, RecordSets(cs), 0) = {}
    BY DEF Within, UpTo
  <2>. QED  BY <2>1, <2>2, FS_EmptySet DEF CountersAt, NoStats
<1>5. g = [k \in 0 .. Len(cs) |-> IF k = 0 THEN NoStats ELSE CountChunk(g[k - 1], cs[k])]
  <2>1. ASSUME NEW k \in 0 .. Len(cs)
        PROVE  CountersAt(cs, k) = IF k = 0 THEN NoStats ELSE CountChunk(g[k - 1], cs[k])
    <3>1. CASE k = 0
      BY <1>4, <3>1
    <3>2. CASE k # 0
      <4>1. k \in 1 .. Len(cs) /\ k - 1 \in 0 .. Len(cs)
        BY <1>1, <3>2
      <4>. QED  BY <3>2, <4>1, CountersStep
    <3>. QED  BY <3>1, <3>2
  <2>. QED  BY <2>1
<1>6. upTo = [k \in 0 .. Len(cs) |-> IF k = 0 THEN NoStats ELSE CountChunk(upTo[k - 1], cs[k])]
  <2>. HIDE DEF g
  <2>. QED  BY <1>2, <1>5
<1>7. ASSUME NEW k \in 0 .. Len(cs), upTo[k] # CountersAt(cs, k) PROVE FALSE
  <2> DEFINE Bad == { q \in Nat : q <= Len(cs) /\ upTo[q] # CountersAt(cs, q) }
  <2>1. k \in Bad /\ Bad \subseteq Nat
    BY <1>7
  <2>2. PICK q \in Bad : \A p \in Bad : q <= p
    <3>. HIDE DEF Bad
    <3>. QED  BY <2>1, LeastNat
  <2>3. q \in 0 .. Len(cs) /\ upTo[q] = IF q = 0 THEN NoStats ELSE CountChunk(upTo[q - 1], cs[q])
    BY <1>6
  <2>4. q # 0
    BY <1>4, <2>3
  <2>5. q \in 1 .. Len(cs) /\ q - 1 \in Nat /\ q - 1 <= Len(cs) /\ q - 1 \notin Bad
    BY <1>1, <2>2, <2>3, <2>4
  <2>6. upTo[q - 1] = CountersAt(cs, q - 1)
    BY <2>5
  <2>. QED  BY <2>3, <2>4, <2>5, <2>6, CountersStep
<1>. QED  BY <1>1, <1>3, <1>7

-----------------------------------------------------------------------------
(* The pool.                                                                *)

\* The chunks cut off by the end of the image.
Late == { m \in Magics : m + C > N }

\* The queued chunks that parse.
Parsing == { k \in 1 .. Len(full) : head[full[k]] # "garbled" }

\* What pass 1 leaves: magics in the queue, the truncated chunks in the order
\* of their offsets.
QueueInv ==
  /\ \A k \in 1 .. Len(full) : full[k] \in Magics
  /\ truncated \in Seq({ TruncatedChunk(w) : w \in Late })
  /\ \A a \in 1 .. Len(truncated) : truncated[a].offset < i + OffsetBase
  /\ \A a, b \in 1 .. Len(truncated) : a < b => truncated[a].offset < truncated[b].offset

\* What the closures that have run leave, whatever order they ran in.
PoolInv ==
  /\ phase \in {"scan", "pool", "done"}
  /\ phase = "scan" => carved = <<>>
  /\ phase # "scan" =>
       /\ i >= N
       /\ todo \subseteq 1 .. Len(full)
       /\ carved \in Seq({ FullChunk(full[k]) : k \in Parsing \ todo })
       /\ \A k \in Parsing \ todo : \E a \in 1 .. Len(carved) : carved[a] = FullChunk(full[k])
       /\ \A a, b \in 1 .. Len(carved) : carved[a].offset = carved[b].offset => a = b

\* Everything said of the scan and the pool.
CarveInv == ScanTypeOK /\ ScanInv /\ QueueInv /\ PoolInv

LEMMA QueueInvInductive ==
  ASSUME ScanTypeOK, ScanInv, QueueInv, [Next]_vars
  PROVE  QueueInv'
<1> USE ScanAssumption
<1>1. Magics' = Magics /\ Late' = Late
  BY StepKinds DEF ScanFull, ScanTruncated, ScanMiss, Quiet, Magics, Late
<1>2. i \in Nat /\ C \in Nat \ {0} /\ N \in Nat /\ Len(full) \in Nat /\ OffsetBase \in Nat
  BY DEF ScanTypeOK
<1>3. \A a \in 1 .. Len(truncated) : truncated[a].offset \in Int
  <2> SUFFICES ASSUME NEW a \in 1 .. Len(truncated) PROVE truncated[a].offset \in Int
    OBVIOUS
  <2>1. truncated[a] \in { TruncatedChunk(w) : w \in Late }
    BY ElementOfSeq DEF QueueInv
  <2>2. PICK w \in Late : truncated[a] = TruncatedChunk(w)
    BY <2>1
  <2>. QED  BY <1>2, <2>2 DEF TruncatedChunk, Late, Magics, Words
<1>4. CASE ScanFull
  <2>1. /\ i \in Words /\ i \in Magics /\ i' = i + C /\ truncated' = truncated
        /\ full' = Append(full, i)
    BY <1>4 DEF ScanFull, Scanning, ScanTypeOK, Words, Magics
  <2>2. /\ Len(full') = Len(full) + 1
        /\ \A k \in 1 .. Len(full) : full'[k] = full[k]
        /\ full'[Len(full) + 1] = i
    BY <2>1, AppendOffset
  <2>3. \A k \in 1 .. Len(full') : full'[k] \in Magics
    BY <1>2, <2>1, <2>2 DEF QueueInv
  <2>4. \A a \in 1 .. Len(truncated) : truncated[a].offset < i' + OffsetBase
    BY <1>2, <1>3, <2>1 DEF QueueInv
  <2>. QED  BY <1>1, <2>1, <2>3, <2>4 DEF QueueInv
<1>5. CASE ScanMiss \/ Quiet \/ (ScanTruncated /\ truncated' = truncated)
  <2>1. truncated' = truncated /\ full' = full /\ (i' = i + 1 \/ i' = i)
    <3>1. CASE Quiet
      <4>1. truncated' = truncated \/ ScanTruncated
        BY DEF Next, Scan, Pool, ScanFull, ScanTruncated, ScanMiss, StartPool, CarveChunk, Merge, vars
      <4>. QED  BY <1>2, <3>1, <4>1 DEF Quiet, ScanTruncated
    <3>2. CASE ScanMiss \/ (ScanTruncated /\ truncated' = truncated)
      BY <3>2 DEF ScanMiss, ScanTruncated
    <3>. QED  BY <1>5, <3>1, <3>2
  <2>2. \A a \in 1 .. Len(truncated) : truncated[a].offset < i' + OffsetBase
    BY <1>2, <1>3, <2>1, SMTT(20) DEF QueueInv
  <2>. QED  BY <1>1, <2>1, <2>2 DEF QueueInv
<1>6. CASE ScanTruncated /\ truncated' # truncated
  <2> DEFINE x == TruncatedChunk(i)
             Ts == { TruncatedChunk(w) : w \in Late }
  <2>1. /\ i \in Late /\ i' = i + 1 /\ full' = full /\ truncated' = Append(truncated, x)
    BY <1>6 DEF ScanTruncated, Scanning, ScanTypeOK, Words, Magics, Late
  <2>2. x \in Ts /\ x.offset = i + OffsetBase
    BY <2>1 DEF TruncatedChunk
  <2>3. truncated \in Seq(Ts) /\ Len(truncated) \in Nat
    BY DEF QueueInv
  <2>. HIDE DEF x, Ts
  <2>4. /\ truncated' \in Seq(Ts) /\ Len(truncated') = Len(truncated) + 1
        /\ \A a \in 1 .. Len(truncated) : truncated'[a] = truncated[a]
        /\ truncated'[Len(truncated) + 1] = x
    BY <2>1, <2>2, <2>3, AppendProperties
  <2>5. \A a \in 1 .. Len(truncated') : truncated'[a].offset < i' + OffsetBase
    <3> SUFFICES ASSUME NEW a \in 1 .. Len(truncated') PROVE truncated'[a].offset < i' + OffsetBase
      OBVIOUS
    <3>1. CASE a \in 1 .. Len(truncated)
      BY <1>2, <1>3, <2>1, <2>4, <3>1 DEF QueueInv
    <3>2. CASE a = Len(truncated) + 1
      BY <1>2, <2>1, <2>2, <2>4, <3>2
    <3>. QED  BY <2>3, <2>4, <3>1, <3>2
  <2>6. \A a, b \in 1 .. Len(truncated') : a < b => truncated'[a].offset < truncated'[b].offset
    <3> SUFFICES ASSUME NEW a \in 1 .. Len(truncated'), NEW b \in 1 .. Len(truncated'), a < b
                 PROVE  truncated'[a].offset < truncated'[b].offset
      OBVIOUS
    <3>1. a \in 1 .. Len(truncated)
      BY <2>3, <2>4
    <3>2. CASE b \in 1 .. Len(truncated)
      BY <2>4, <3>1, <3>2 DEF QueueInv
    <3>3. CASE b = Len(truncated) + 1
      BY <2>2, <2>4, <3>1, <3>3 DEF QueueInv
    <3>. QED  BY <2>3, <2>4, <3>2, <3>3
  <2>7. truncated' \in Seq({ TruncatedChunk(w) : w \in Late })
    BY <2>4 DEF Ts
  <2>. QED  BY <1>1, <2>1, <2>5, <2>6, <2>7 DEF QueueInv
<1>. QED  BY <1>4, <1>5, <1>6, StepKinds

\* The offsets of the chunks of the pool tell the chunks apart.
LEMMA QueueApart ==
  ASSUME ScanTypeOK, ScanInv, NEW j \in 1 .. Len(full), NEW k \in 1 .. Len(full)
  PROVE  /\ full[j] \in Nat /\ FullChunk(full[j]).offset = full[j] + OffsetBase
         /\ full[j] = full[k] => j = k
<1>1. full[j] \in Nat /\ full[k] \in Nat /\ Len(full) \in Nat
  BY OffsetsAreWords DEF ScanTypeOK
<1>2. /\ j < k => full[j] + C <= full[k]
      /\ k < j => full[k] + C <= full[j]
  BY DEF ScanInv, FullDisjoint
<1>. QED  BY <1>1, <1>2, ScanAssumption DEF FullChunk

LEMMA PoolInvInductive ==
  ASSUME ScanTypeOK, ScanInv, PoolInv, [Next]_vars
  PROVE  PoolInv'
<1> USE ScanAssumption
<1>1. \A w : head' = head => FullChunk(w)' = FullChunk(w)
  BY DEF FullChunk
<1>2. CASE ScanFull \/ ScanTruncated \/ ScanMiss
  <2>1. phase = "scan" /\ phase' = "scan" /\ carved' = carved
    BY <1>2 DEF ScanFull, ScanTruncated, ScanMiss, Scanning
  <2>. QED  BY <2>1 DEF PoolInv
<1>3. CASE StartPool
  <2>1. /\ phase = "scan" /\ phase' = "pool" /\ i >= N /\ i' = i /\ todo' = 1 .. Len(full)
        /\ full' = full /\ head' = head /\ carved' = <<>>
    BY <1>3 DEF StartPool, PoolInv
  <2>2. (Parsing \ todo)' = {} /\ Len(carved') = 0
    BY <2>1 DEF Parsing
  <2>3. carved' \in Seq({ FullChunk(full[k]) : k \in Parsing \ todo })'
    BY <2>1, EmptySeq
  <2>. QED  BY <2>1, <2>2, <2>3 DEF PoolInv
<1>4. CASE Pool
  <2>1. PICK k \in 1 .. Len(full) : CarveChunk(k)
    BY <1>4 DEF Pool
  <2>2. /\ phase = "pool" /\ phase' = "pool" /\ k \in todo /\ todo' = todo \ {k}
        /\ i' = i /\ full' = full /\ head' = head
    BY <2>1 DEF CarveChunk
  <2>3. /\ i >= N /\ todo \subseteq 1 .. Len(full) /\ Parsing' = Parsing /\ Parsing \subseteq 1 .. Len(full)
        /\ carved \in Seq({ FullChunk(full[j]) : j \in Parsing \ todo })
        /\ \A j \in Parsing \ todo : \E a \in 1 .. Len(carved) : carved[a] = FullChunk(full[j])
        /\ \A a, b \in 1 .. Len(carved) : carved[a].offset = carved[b].offset => a = b
        /\ Len(carved) \in Nat
    BY <2>2 DEF PoolInv, Parsing
  <2>4. CASE head[full[k]] = "garbled"
    <3>1. carved' = carved /\ Parsing \ todo' = Parsing \ todo
      BY <2>1, <2>2, <2>4 DEF CarveChunk, Parsing
    <3>. QED  BY <1>1, <2>2, <2>3, <3>1 DEF PoolInv
  <2>5. CASE head[full[k]] # "garbled"
    <3> DEFINE x == FullChunk(full[k])
               Fs == { FullChunk(full[j]) : j \in Parsing \ todo' }
    <3>1. carved' = Append(carved, x) /\ Parsing \ todo' = (Parsing \ todo) \cup {k} /\ k \in Parsing
      BY <2>1, <2>2, <2>5 DEF CarveChunk, Parsing
    <3>2. x \in Fs /\ carved \in Seq(Fs)
      <4>1. { FullChunk(full[j]) : j \in Parsing \ todo } \subseteq Fs
        BY <3>1
      <4>2. \A a \in 1 .. Len(carved) : carved[a] \in { FullChunk(full[j]) : j \in Parsing \ todo }
        BY <2>3, ElementOfSeq
      <4>3. carved \in [1 .. Len(carved) -> Fs]
        <5>1. carved \in [1 .. Len(carved) -> { FullChunk(full[j]) : j \in Parsing \ todo }]
          BY <2>3, LenProperties
        <5>. HIDE DEF Fs
        <5>. QED  BY <4>1, <5>1
      <4>4. carved \in Seq(Fs)
        BY <2>3, <4>3, SeqDef
      <4>. QED  BY <3>1, <4>4
    <3>3. \A a \in 1 .. Len(carved) : carved[a].offset # x.offset
      <4> SUFFICES ASSUME NEW a \in 1 .. Len(carved), carved[a].offset = x.offset PROVE FALSE
        OBVIOUS
      <4>1. carved[a] \in { FullChunk(full[j]) : j \in Parsing \ todo }
        BY <2>3, ElementOfSeq
      <4>2. PICK j \in Parsing \ todo : carved[a] = FullChunk(full[j])
        BY <4>1
      <4>3. j \in 1 .. Len(full)
        BY <2>3
      <4>4. full[j] + OffsetBase = full[k] + OffsetBase /\ full[j] \in Nat /\ full[k] \in Nat
        BY <4>2, <4>3, QueueApart
      <4>5. full[j] = full[k]
        BY <4>4
      <4>6. j = k
        BY <4>3, <4>5, QueueApart
      <4>. QED  BY <2>2, <4>6
    <3>. HIDE DEF x, Fs
    <3>4. /\ carved' \in Seq(Fs) /\ Len(carved') = Len(carved) + 1
          /\ \A a \in 1 .. Len(carved) : carved'[a] = carved[a]
          /\ carved'[Len(carved) + 1] = x
      BY <3>1, <3>2, AppendProperties
    <3>5. \A j \in Parsing \ todo' : \E a \in 1 .. Len(carved') : carved'[a] = FullChunk(full[j])
      <4> SUFFICES ASSUME NEW j \in Parsing \ todo'
                   PROVE  \E a \in 1 .. Len(carved') : carved'[a] = FullChunk(full[j])
        OBVIOUS
      <4>1. CASE j = k
        <5>1. Len(carved) + 1 \in 1 .. Len(carved')
          BY <2>3, <3>4
        <5>. QED  BY <3>4, <4>1, <5>1 DEF x
      <4>2. CASE j # k
        <5>1. PICK a \in 1 .. Len(carved) : carved[a] = FullChunk(full[j])
          BY <2>3, <3>1, <4>2
        <5>2. a \in 1 .. Len(carved') /\ carved'[a] = carved[a]
          BY <2>3, <3>4
        <5>. QED  BY <5>1, <5>2
      <4>. QED  BY <4>1, <4>2
    <3>6. \A a, b \in 1 .. Len(carved') : carved'[a].offset = carved'[b].offset => a = b
      <4> SUFFICES ASSUME NEW a \in 1 .. Len(carved'), NEW b \in 1 .. Len(carved'),
                          carved'[a].offset = carved'[b].offset
                   PROVE  a = b
        OBVIOUS
      <4>1. /\ a \in 1 .. Len(carved) \/ a = Len(carved) + 1
            /\ b \in 1 .. Len(carved) \/ b = Len(carved) + 1
        BY <2>3, <3>4
      <4>. QED  BY <2>3, <3>3, <3>4, <4>1
    <3>7. todo' \subseteq 1 .. Len(full') /\ i' >= N
      BY <2>2, <2>3
    <3>8. carved' \in Seq({ FullChunk(full[j]) : j \in Parsing \ todo })'
      BY <1>1, <2>2, <2>3, <3>4 DEF Fs
    <3>9. (\A j \in Parsing \ todo : \E a \in 1 .. Len(carved) : carved[a] = FullChunk(full[j]))'
      BY <1>1, <2>2, <2>3, <3>5
    <3>. QED  BY <2>2, <3>6, <3>7, <3>8, <3>9 DEF PoolInv
  <2>. QED  BY <2>4, <2>5
<1>5. CASE Merge \/ UNCHANGED vars
  <2>1. /\ i' = i /\ full' = full /\ head' = head /\ todo' = todo /\ carved' = carved
        /\ phase' = phase \/ (phase = "pool" /\ phase' = "done")
    BY <1>5 DEF Merge, vars
  <2>2. Parsing' = Parsing
    BY <2>1 DEF Parsing
  <2>. QED  BY <1>1, <2>1, <2>2 DEF PoolInv
<1>. QED  BY <1>2, <1>3, <1>4, <1>5 DEF Next, Scan

\* Where a scan begins.
Fresh ==
  /\ phase = "scan" /\ i = 0 /\ full = <<>> /\ truncated = <<>> /\ todo = {}
  /\ carved = <<>> /\ chunks = <<>> /\ stats = NoStats

LEMMA FreshCarve ==
  ASSUME Fresh, head \in [Words -> Heads]
  PROVE  CarveInv
<1>1. full \in Seq(Words) /\ Len(full) = 0 /\ Len(truncated) = 0
  BY EmptySeq DEF Fresh
<1>2. truncated \in Seq({ TruncatedChunk(w) : w \in Late })
  BY EmptySeq DEF Fresh
<1>3. ScanTypeOK
  BY <1>1 DEF Fresh, ScanTypeOK
<1>4. ScanInv
  BY <1>1, ScanAssumption DEF Fresh, ScanInv, FullDisjoint, MagicsAccounted, Magics, Words
<1>5. QueueInv
  BY <1>1, <1>2 DEF QueueInv
<1>6. PoolInv
  BY DEF Fresh, PoolInv
<1>. QED  BY <1>3, <1>4, <1>5, <1>6 DEF CarveInv

LEMMA FreshCarveNext == Fresh' /\ head' \in [Words -> Heads] => CarveInv'
<1>1. Fresh /\ head \in [Words -> Heads] => CarveInv
  BY FreshCarve
<1>2. (Fresh /\ head \in [Words -> Heads])' => CarveInv'
  BY <1>1, PTL
<1>. QED  BY <1>2

LEMMA CarveStep ==
  ASSUME CarveInv, [Next]_vars
  PROVE  CarveInv'
<1>1. ScanTypeOK'
  BY ScanTypeStep DEF CarveInv
<1>. QED  BY <1>1, ScanInvInductive, QueueInvInductive, PoolInvInductive DEF CarveInv

-----------------------------------------------------------------------------
(* The result.                                                              *)

(* Sorting keeps the elements, and tells apart what had different offsets. *)
LEMMA SortedChunks ==
  ASSUME NEW T, \A c \in T : c.offset \in Int, NEW s \in Seq(T)
  PROVE  /\ Sorted(s) \in Seq(T) /\ Len(Sorted(s)) = Len(s) /\ Len(s) \in Nat
         /\ \A q \in 1 .. Len(s) : \E r \in 1 .. Len(s) : Sorted(s)[r] = s[q]
         /\ \A r \in 1 .. Len(s) : \E q \in 1 .. Len(s) : Sorted(s)[r] = s[q]
         /\ (\A p, q \in 1 .. Len(s) : s[p].offset = s[q].offset => p = q)
              => \A p, r \in 1 .. Len(s) : p < r => Sorted(s)[p].offset < Sorted(s)[r].offset
<1> DEFINE key == [k \in 1 .. Len(s) |-> s[k].offset]
           t == Sorted(s)
           L == Len(s)
<1>1. L \in Nat /\ \A k \in 1 .. L : s[k].offset \in Int
  BY ElementOfSeq
<1>2. key \in [1 .. Len(s) -> Int] /\ t = SortedBy(s, key)
  BY <1>1 DEF Sorted
<1>. HIDE DEF t
<1>3. /\ t \in Seq(T) /\ Len(t) = Len(s)
      /\ \E a \in Bijection(1 .. Len(s), 1 .. Len(s)) :
           /\ \A r \in 1 .. Len(s) : t[r] = s[a[r]]
           /\ \A q, r \in 1 .. Len(s) : q < r => key[a[q]] <= key[a[r]]
  <2>1. key \in [1 .. Len(s) -> Int]
    BY <1>2
  <2>. HIDE DEF key
  <2>2. /\ SortedBy(s, key) \in Seq(T) /\ Len(SortedBy(s, key)) = Len(s)
        /\ \E a \in Bijection(1 .. Len(s), 1 .. Len(s)) :
             /\ \A r \in 1 .. Len(s) : SortedBy(s, key)[r] = s[a[r]]
             /\ \A q, r \in 1 .. Len(s) : q < r => key[a[q]] <= key[a[r]]
    BY <2>1, SortedInOrder
  <2>. QED  BY <1>2, <2>2
<1>4. PICK a \in Bijection(1 .. L, 1 .. L) :
        /\ \A r \in 1 .. L : t[r] = s[a[r]]
        /\ \A q, r \in 1 .. L : q < r => key[a[q]] <= key[a[r]]
  BY <1>3
<1>5. /\ a \in [1 .. L -> 1 .. L]
      /\ \A q \in 1 .. L : \E r \in 1 .. L : a[r] = q
      /\ \A q, r \in 1 .. L : a[q] = a[r] => q = r
  BY <1>4 DEF Bijection, Injection, Surjection, IsInjective
<1>6. \A q \in 1 .. L : \E r \in 1 .. L : t[r] = s[q]
  BY <1>4, <1>5
<1>7. \A r \in 1 .. L : \E q \in 1 .. L : t[r] = s[q]
  BY <1>4, <1>5
<1>8. ASSUME \A p, q \in 1 .. L : s[p].offset = s[q].offset => p = q,
             NEW p \in 1 .. L, NEW r \in 1 .. L, p < r
      PROVE  t[p].offset < t[r].offset
  <2>0. p # r
    BY <1>1, <1>8
  <2>1. a[p] \in 1 .. L /\ a[r] \in 1 .. L /\ a[p] # a[r]
    BY <1>5, <2>0
  <2>2. s[a[p]].offset <= s[a[r]].offset
    BY <1>4, <1>8, <2>1
  <2>3. s[a[p]].offset # s[a[r]].offset
    BY <1>8, <2>1
  <2>4. s[a[p]].offset < s[a[r]].offset
    BY <1>1, <2>1, <2>2, <2>3
  <2>. QED  BY <1>4, <2>4
<1>. QED  BY <1>1, <1>3, <1>6, <1>7, <1>8 DEF t

\* What the result is made of.
Results == { FullChunk(w) : w \in { f \in FullOffsets : head[f] # "garbled" } }
             \cup { truncated[k] : k \in 1 .. Len(truncated) }

(* The chunks that Merge is given, and their offsets. *)
LEMMA MergeParts ==
  ASSUME CarveInv, phase = "pool", todo = {}
  PROVE  /\ carved \in Seq(Results) /\ truncated \in Seq(Results)
         /\ \A c \in Results : c.offset \in Int /\ IsChunk(c)
         /\ \A c \in Results : \/ \E a \in 1 .. Len(carved) : carved[a] = c
                               \/ \E a \in 1 .. Len(truncated) : truncated[a] = c
         /\ \A a, b \in 1 .. Len(carved) : carved[a].offset = carved[b].offset => a = b
         /\ \A a, b \in 1 .. Len(truncated) : truncated[a].offset = truncated[b].offset => a = b
         /\ \A a \in 1 .. Len(carved), b \in 1 .. Len(truncated) :
              carved[a].offset # truncated[b].offset
         /\ \A a \in 1 .. Len(carved) : carved[a].integrity \in {"Valid", "HeaderCorrupt"}
         /\ \A b \in 1 .. Len(truncated) : truncated[b].integrity = "Truncated"
<1> USE ScanAssumption
<1> DEFINE Fs == { FullChunk(full[k]) : k \in Parsing }
           Ts == { TruncatedChunk(w) : w \in Late }
<1>1. /\ carved \in Seq(Fs) /\ Len(carved) \in Nat
      /\ \A k \in Parsing : \E a \in 1 .. Len(carved) : carved[a] = FullChunk(full[k])
      /\ \A a, b \in 1 .. Len(carved) : carved[a].offset = carved[b].offset => a = b
  <2>1. Parsing \ todo = Parsing
    OBVIOUS
  <2>. QED  BY <2>1 DEF CarveInv, PoolInv
<1>2. truncated \in Seq(Ts) /\ Len(truncated) \in Nat
  BY DEF CarveInv, QueueInv
<1>3. ASSUME NEW w \in Words
      PROVE  /\ w \in Nat /\ IsFiniteSet(Found[w])
             /\ IsFiniteSet({ r + OffsetBase : r \in Found[w] })
  <2>1. w \in Nat /\ IsFiniteSet(Found[w]) /\ Found[w] \subseteq Nat
    BY DEF Words
  <2> DEFINE S == { r + OffsetBase : r \in Found[w] }
             g == [r \in Found[w] |-> r + OffsetBase]
  <2>2. g \in Surjection(Found[w], S)
    BY DEF Surjection
  <2>. HIDE DEF S, g
  <2>3. IsFiniteSet(S)
    BY <2>1, <2>2, FS_Surjection
  <2>. QED  BY <2>1, <2>3 DEF S
<1>4. ASSUME NEW a \in 1 .. Len(carved)
      PROVE  \E k \in Parsing : carved[a] = FullChunk(full[k])
  <2>1. carved[a] \in Fs
    BY <1>1, ElementOfSeq
  <2>. QED  BY <2>1
<1>5. ASSUME NEW b \in 1 .. Len(truncated)
      PROVE  \E w \in Late : truncated[b] = TruncatedChunk(w)
  <2>1. truncated[b] \in Ts
    BY <1>2, ElementOfSeq
  <2>. QED  BY <2>1
<1>. HIDE DEF Fs, Ts
<1>6. ASSUME NEW k \in Parsing
      PROVE  /\ FullChunk(full[k]).offset = full[k] + OffsetBase /\ full[k] \in Nat
             /\ full[k] + C <= N
             /\ FullChunk(full[k]).integrity \in {"Valid", "HeaderCorrupt"}
             /\ IsChunk(FullChunk(full[k]))
             /\ FullChunk(full[k]) \in Results
  <2>1. k \in 1 .. Len(full) /\ full[k] \in Words /\ head[full[k]] # "garbled"
    BY ElementOfSeq DEF Parsing, CarveInv, ScanTypeOK
  <2>2. full[k] + C <= N
    BY <2>1 DEF CarveInv, ScanInv, FullDisjoint
  <2>3. IsFiniteSet({ r + OffsetBase : r \in Found[full[k]] }) /\ full[k] \in Nat
    BY <1>3, <2>1
  <2>4. FullChunk(full[k]).integrity \in {"Valid", "HeaderCorrupt"}
    BY DEF FullChunk
  <2>5. IsChunk(FullChunk(full[k]))
    BY <2>3, <2>4 DEF FullChunk, IsChunk, Integrities
  <2>6. FullChunk(full[k]) \in Results
    BY <2>1 DEF Results, FullOffsets
  <2>. QED  BY <2>2, <2>3, <2>4, <2>5, <2>6 DEF FullChunk
<1>7. ASSUME NEW w \in Late
      PROVE  /\ TruncatedChunk(w).offset = w + OffsetBase /\ w \in Nat /\ w + C > N
             /\ TruncatedChunk(w).integrity = "Truncated"
             /\ IsChunk(TruncatedChunk(w))
  <2>1. w \in Words /\ w + C > N
    BY DEF Late, Magics
  <2>2. IsFiniteSet(Found[w]) /\ w \in Nat
    BY <1>3, <2>1
  <2>. QED  BY <2>1, <2>2 DEF TruncatedChunk, IsChunk, Integrities
<1>8. carved \in Seq(Results)
  <2>1. \A a \in 1 .. Len(carved) : carved[a] \in Results
    BY <1>4, <1>6
  <2>2. carved \in [1 .. Len(carved) -> Results]
    <3>1. carved \in [1 .. Len(carved) -> Fs]
      BY <1>1, LenProperties
    <3>. QED  BY <2>1, <3>1
  <2>. QED  BY <1>1, <2>2, SeqDef
<1>9. truncated \in Seq(Results)
  <2>1. truncated \in [1 .. Len(truncated) -> Ts]
    BY <1>2, LenProperties
  <2>2. \A b \in 1 .. Len(truncated) : truncated[b] \in Results
    BY DEF Results
  <2>3. truncated \in [1 .. Len(truncated) -> Results]
    BY <2>1, <2>2
  <2>. QED  BY <1>2, <2>3, SeqDef
<1>10. ASSUME NEW c \in Results
       PROVE  /\ \/ \E a \in 1 .. Len(carved) : carved[a] = c
                 \/ \E a \in 1 .. Len(truncated) : truncated[a] = c
              /\ c.offset \in Int /\ IsChunk(c)
  <2>1. CASE c \in { truncated[k] : k \in 1 .. Len(truncated) }
    <3>1. PICK b \in 1 .. Len(truncated) : c = truncated[b]
      BY <2>1
    <3>2. PICK w \in Late : c = TruncatedChunk(w)
      BY <1>5, <3>1
    <3>3. c.offset = w + OffsetBase /\ w \in Nat /\ IsChunk(c)
      BY <1>7, <3>2
    <3>. QED  BY <3>1, <3>3
  <2>2. CASE c \in { FullChunk(w) : w \in { f \in FullOffsets : head[f] # "garbled" } }
    <3>1. PICK k \in 1 .. Len(full) : c = FullChunk(full[k]) /\ head[full[k]] # "garbled"
      BY <2>2 DEF FullOffsets
    <3>2. k \in Parsing
      BY <3>1 DEF Parsing
    <3>3. c.offset = full[k] + OffsetBase /\ full[k] \in Nat /\ IsChunk(c)
      BY <1>6, <3>1, <3>2
    <3>4. \E a \in 1 .. Len(carved) : carved[a] = c
      BY <1>1, <3>1, <3>2
    <3>. QED  BY <3>3, <3>4
  <2>. QED  BY <2>1, <2>2 DEF Results
<1>11. ASSUME NEW a \in 1 .. Len(truncated), NEW b \in 1 .. Len(truncated),
              truncated[a].offset = truncated[b].offset
       PROVE  a = b
  <2>1. /\ a < b => truncated[a].offset < truncated[b].offset
        /\ b < a => truncated[b].offset < truncated[a].offset
    BY DEF CarveInv, QueueInv
  <2>2. truncated[a].offset \in Int /\ truncated[b].offset \in Int
    BY <1>9, <1>10, ElementOfSeq
  <2>. QED  BY <1>2, <1>11, <2>1, <2>2
<1>12. ASSUME NEW a \in 1 .. Len(carved), NEW b \in 1 .. Len(truncated)
       PROVE  carved[a].offset # truncated[b].offset
  <2>1. PICK k \in Parsing : carved[a] = FullChunk(full[k])
    BY <1>4
  <2>2. PICK w \in Late : truncated[b] = TruncatedChunk(w)
    BY <1>5
  <2>3. carved[a].offset = full[k] + OffsetBase /\ full[k] \in Nat /\ full[k] + C <= N
    BY <1>6, <2>1
  <2>4. truncated[b].offset = w + OffsetBase /\ w \in Nat /\ w + C > N
    BY <1>7, <2>2
  <2>. QED  BY <2>3, <2>4
<1>13. \A a \in 1 .. Len(carved) : carved[a].integrity \in {"Valid", "HeaderCorrupt"}
  BY <1>4, <1>6
<1>14. \A b \in 1 .. Len(truncated) : truncated[b].integrity = "Truncated"
  BY <1>5, <1>7
<1>. QED  BY <1>1, <1>8, <1>9, <1>10, <1>11, <1>12, <1>13, <1>14

\* What ResultDetermined says of the chunks.
ResultIs(cs, R) ==
  /\ { cs[k] : k \in 1 .. Len(cs) } = R
  /\ \A a, b \in 1 .. Len(cs) : a < b => cs[a].offset < cs[b].offset

HaveOffsets(R) == \A c \in R : c.offset \in Int

\* The chunks of s have different offsets; those of s and u have.
Apart(s)      == \A a, b \in 1 .. Len(s) : s[a].offset = s[b].offset => a = b
ApartOf(s, u) == \A a \in 1 .. Len(s), b \in 1 .. Len(u) : s[a].offset # u[b].offset

Between(R, s, u) == \A c \in R : \/ \E a \in 1 .. Len(s) : s[a] = c
                                 \/ \E a \in 1 .. Len(u) : u[a] = c

(* Two sequences that hold the members of R between them, each once, are   *)
(* merged into the one that has them by their offsets.                     *)
LEMMA MergedInOrder ==
  ASSUME NEW R, HaveOffsets(R), NEW s \in Seq(R), NEW u \in Seq(R),
         Between(R, s, u), Apart(s), Apart(u), ApartOf(s, u)
  PROVE  Sorted(Sorted(s) \o u) \in Seq(R) /\ ResultIs(Sorted(Sorted(s) \o u), R)
<1> DEFINE t == Sorted(s)
           v == t \o u
           w == Sorted(v)
<1>1. /\ t \in Seq(R) /\ Len(t) = Len(s) /\ Len(s) \in Nat /\ Len(u) \in Nat
      /\ \A q \in 1 .. Len(s) : \E r \in 1 .. Len(s) : t[r] = s[q]
      /\ \A r \in 1 .. Len(s) : \E q \in 1 .. Len(s) : t[r] = s[q]
      /\ \A p, r \in 1 .. Len(s) : p < r => t[p].offset < t[r].offset
  BY SortedChunks DEF Apart, HaveOffsets
<1>. HIDE DEF t
<1>2. /\ v \in Seq(R) /\ Len(v) = Len(s) + Len(u)
      /\ \A k \in 1 .. Len(s) + Len(u) : v[k] = IF k <= Len(s) THEN t[k] ELSE u[k - Len(s)]
  <2>1. /\ v \in Seq(R) /\ Len(v) = Len(t) + Len(u)
        /\ \A k \in 1 .. Len(t) + Len(u) : v[k] = IF k <= Len(t) THEN t[k] ELSE u[k - Len(t)]
    BY <1>1, ConcatProperties
  <2>. QED  BY <1>1, <2>1
<1>. HIDE DEF v
<1>3. Apart(v)
  <2> SUFFICES ASSUME NEW p \in 1 .. Len(v), NEW q \in 1 .. Len(v), v[p].offset = v[q].offset
               PROVE  p = q
    BY DEF Apart
  <2>1. ASSUME NEW x \in 1 .. Len(s), NEW y \in 1 .. Len(s), t[x].offset = t[y].offset PROVE x = y
    <3>1. t[x].offset \in Int /\ t[y].offset \in Int
      BY <1>1, ElementOfSeq DEF HaveOffsets
    <3>2. (x < y => t[x].offset < t[y].offset) /\ (y < x => t[y].offset < t[x].offset)
      BY <1>1
    <3>3. ~(x < y) /\ ~(y < x)
      BY <2>1, <3>1, <3>2
    <3>. QED  BY <1>1, <3>3
  <2>2. ASSUME NEW x \in 1 .. Len(s), NEW y \in 1 .. Len(u) PROVE t[x].offset # u[y].offset
    <3>1. PICK a \in 1 .. Len(s) : t[x] = s[a]
      BY <1>1
    <3>. QED  BY <3>1 DEF ApartOf
  <2>3. /\ p <= Len(s) => p \in 1 .. Len(s) /\ v[p] = t[p]
        /\ ~(p <= Len(s)) => p - Len(s) \in 1 .. Len(u) /\ v[p] = u[p - Len(s)]
        /\ q <= Len(s) => q \in 1 .. Len(s) /\ v[q] = t[q]
        /\ ~(q <= Len(s)) => q - Len(s) \in 1 .. Len(u) /\ v[q] = u[q - Len(s)]
    <3>1. Len(s) \in Nat /\ Len(u) \in Nat /\ p \in 1 .. Len(s) + Len(u) /\ q \in 1 .. Len(s) + Len(u)
      BY <1>1, <1>2
    <3>2. /\ v[p] = IF p <= Len(s) THEN t[p] ELSE u[p - Len(s)]
          /\ v[q] = IF q <= Len(s) THEN t[q] ELSE u[q - Len(s)]
      BY <1>2, <3>1
    <3>3. /\ p <= Len(s) => p \in 1 .. Len(s)
          /\ ~(p <= Len(s)) => p - Len(s) \in 1 .. Len(u)
          /\ q <= Len(s) => q \in 1 .. Len(s)
          /\ ~(q <= Len(s)) => q - Len(s) \in 1 .. Len(u)
      BY <3>1
    <3>. QED  BY <3>2, <3>3
  <2>4. CASE p <= Len(s) /\ q <= Len(s)
    BY <2>1, <2>3, <2>4
  <2>5. CASE ~(p <= Len(s)) /\ ~(q <= Len(s))
    <3>1. p - Len(s) = q - Len(s)
      BY <2>3, <2>5 DEF Apart
    <3>. QED  BY <1>1, <1>2, <3>1
  <2>6. CASE p <= Len(s) /\ ~(q <= Len(s))
    BY <2>2, <2>3, <2>6
  <2>7. CASE ~(p <= Len(s)) /\ q <= Len(s)
    BY <2>2, <2>3, <2>7
  <2>. QED  BY <2>4, <2>5, <2>6, <2>7
<1>4. /\ w \in Seq(R) /\ Len(w) = Len(v) /\ Len(v) \in Nat
      /\ \A q \in 1 .. Len(v) : \E r \in 1 .. Len(v) : w[r] = v[q]
      /\ \A p, r \in 1 .. Len(v) : p < r => w[p].offset < w[r].offset
  BY <1>2, <1>3, SortedChunks DEF Apart, HaveOffsets
<1>. HIDE DEF w
<1>5. ASSUME NEW c \in R PROVE \E r \in 1 .. Len(w) : w[r] = c
  <2>1. \E q \in 1 .. Len(v) : v[q] = c
    <3>1. CASE \E a \in 1 .. Len(s) : s[a] = c
      <4>0. PICK a \in 1 .. Len(s) : s[a] = c
        BY <3>1
      <4>1. PICK r \in 1 .. Len(s) : t[r] = c
        BY <1>1, <4>0
      <4>2. r \in 1 .. Len(v) /\ r \in 1 .. Len(s) + Len(u) /\ r <= Len(s)
        BY <1>1, <1>2
      <4>3. v[r] = t[r]
        BY <1>2, <4>2
      <4>. QED  BY <4>1, <4>2, <4>3
    <3>2. CASE \E a \in 1 .. Len(u) : u[a] = c
      <4>1. PICK a \in 1 .. Len(u) : u[a] = c
        BY <3>2
      <4>2. Len(s) + a \in 1 .. Len(v) /\ ~(Len(s) + a <= Len(s)) /\ (Len(s) + a) - Len(s) = a
        BY <1>1, <1>2
      <4>3. v[Len(s) + a] = c
        BY <1>2, <4>1, <4>2
      <4>. QED  BY <4>2, <4>3
    <3>. QED  BY <3>1, <3>2 DEF Between
  <2>. QED  BY <1>4, <2>1
<1>6. \A r \in 1 .. Len(w) : w[r] \in R
  BY <1>4, ElementOfSeq
<1>7. ResultIs(w, R)
  <2>1. { w[k] : k \in 1 .. Len(w) } = R
    BY <1>5, <1>6
  <2>2. \A p, r \in 1 .. Len(w) : p < r => w[p].offset < w[r].offset
    BY <1>4
  <2>. QED  BY <2>1, <2>2 DEF ResultIs
<1>. QED  BY <1>4, <1>7 DEF w, v, t

(* As many chunks of the result are marked truncated as there are.         *)
LEMMA TruncatedCount ==
  ASSUME NEW R, HaveOffsets(R), NEW cs \in Seq(R), ResultIs(cs, R), NEW u \in Seq(R), Apart(u),
         \A b \in 1 .. Len(u) : u[b].integrity = "Truncated",
         \A c \in R : c.integrity = "Truncated" => \E b \in 1 .. Len(u) : u[b] = c
  PROVE  Cardinality(Bearing(cs, {"Truncated"})) = Len(u)
<1> DEFINE B == Bearing(cs, {"Truncated"})
           g == [k \in B |-> CHOOSE b \in 1 .. Len(u) : u[b] = cs[k]]
<1>1. Len(cs) \in Nat /\ Len(u) \in Nat
  OBVIOUS
<1>2. \A k \in B : k \in 1 .. Len(cs) /\ cs[k].integrity = "Truncated" /\ cs[k] \in R
  BY ElementOfSeq DEF Bearing
<1>3. \A k \in B : g[k] \in 1 .. Len(u) /\ u[g[k]] = cs[k]
  BY <1>2
<1>. HIDE DEF B
<1>4. g \in [B -> 1 .. Len(u)]
  BY <1>3
<1>. HIDE DEF g
<1>5. ASSUME NEW j \in B, NEW k \in B, g[j] = g[k] PROVE j = k
  <2>1. cs[j] = cs[k]
    BY <1>3, <1>5
  <2>2. j \in 1 .. Len(cs) /\ k \in 1 .. Len(cs)
    BY <1>2
  <2>3. (j < k => cs[j].offset < cs[k].offset) /\ (k < j => cs[k].offset < cs[j].offset)
    BY <2>2 DEF ResultIs
  <2>4. cs[j].offset \in Int /\ cs[k].offset \in Int
    BY <1>2 DEF HaveOffsets
  <2>5. ~(j < k) /\ ~(k < j)
    BY <2>1, <2>3, <2>4
  <2>. QED  BY <1>1, <2>2, <2>5
<1>6. ASSUME NEW b \in 1 .. Len(u) PROVE \E k \in B : g[k] = b
  <2>1. u[b] \in R
    BY ElementOfSeq
  <2>2. PICK k \in 1 .. Len(cs) : cs[k] = u[b]
    BY <2>1 DEF ResultIs
  <2>3. k \in B
    BY <2>2 DEF B, Bearing
  <2>4. g[k] \in 1 .. Len(u) /\ u[g[k]] = u[b]
    BY <1>3, <2>2, <2>3
  <2>5. g[k] = b
    BY <2>4 DEF Apart
  <2>. QED  BY <2>3, <2>5
<1>7. g \in Bijection(B, 1 .. Len(u))
  BY <1>4, <1>5, <1>6 DEF Bijection, Injection, Surjection, IsInjective
<1>8. IsFiniteSet(B)
  <2>1. IsFiniteSet(1 .. Len(cs))
    BY <1>1, FS_Interval
  <2>2. B \in SUBSET (1 .. Len(cs))
    BY <1>2
  <2>. QED  BY <2>1, <2>2, FS_Subset
<1>9. Cardinality(1 .. Len(u)) = Len(u)
  BY <1>1, FS_Interval
<1>10. ExistsBijection(B, 1 .. Len(u))
  BY <1>7 DEF ExistsBijection
<1>11. Cardinality(1 .. Len(u)) = Cardinality(B)
  BY <1>8, <1>10, FS_Bijection
<1>. QED  BY <1>9, <1>11 DEF B

RecordsOf(cs, I) ==
  UNION { {k} \X cs[k].recs : k \in { j \in DOMAIN cs : cs[j].integrity \in I } }

(* The counters of a sequence of chunks are those of its chunks.           *)
LEMMA CountersAgree ==
  ASSUME NEW T, \A c \in T : IsChunk(c), NEW cs \in Seq(T)
  PROVE  /\ CountAll(cs).found = Len(cs)
         /\ CountAll(cs).valid + CountAll(cs).corrupt + Cardinality(Bearing(cs, {"Truncated"}))
              = Len(cs)
         /\ CountAll(cs).records = Cardinality(RecordsOf(cs, Integrities))
         /\ CountAll(cs).badRecords = Cardinality(RecordsOf(cs, {"HeaderCorrupt"}))
<1> DEFINE L == Len(cs)
           V == Bearing(cs, {"Valid"})
           K == Bearing(cs, {"HeaderCorrupt"})
           U == Bearing(cs, {"Truncated"})
<1>1. L \in Nat /\ DOMAIN cs = 1 .. L
  OBVIOUS
<1>2. CountAll(cs) = CountersAt(cs, L)
  BY CountAllIs
<1>3. \A I : UpTo(Bearing(cs, I), L) = Bearing(cs, I)
  BY DEF UpTo, Bearing
<1>4. \A I : Within(Bearing(cs, I), RecordSets(cs), L) = RecordsOf(cs, I)
  <2> SUFFICES ASSUME NEW I, NEW x
               PROVE  x \in Within(Bearing(cs, I), RecordSets(cs), L) <=> x \in RecordsOf(cs, I)
    BY DEF Within, RecordsOf
  <2>1. x \in Within(Bearing(cs, I), RecordSets(cs), L)
          <=> \E j \in Bearing(cs, I) : x \in {j} \X RecordSets(cs)[j]
    BY <1>3, WithinMembers
  <2>2. \A j \in Bearing(cs, I) : RecordSets(cs)[j] = cs[j].recs
    BY DEF Bearing, RecordSets
  <2>3. Bearing(cs, I) = { j \in DOMAIN cs : cs[j].integrity \in I }
    BY <1>1 DEF Bearing
  <2>4. x \in Within(Bearing(cs, I), RecordSets(cs), L)
          <=> \E j \in Bearing(cs, I) : x \in {j} \X cs[j].recs
    BY <2>1, <2>2
  <2>. QED  BY <2>3, <2>4 DEF RecordsOf
<1>5. Cardinality(V) + Cardinality(K) + Cardinality(U) = L
  <2>1. /\ V \cup K \cup U = 1 .. L /\ V \cap K = {} /\ (V \cup K) \cap U = {}
    <3>1. \A j \in 1 .. L : cs[j].integrity \in Integrities
      BY ElementOfSeq DEF IsChunk
    <3>. QED  BY <3>1 DEF Integrities, Bearing
  <2>2. IsFiniteSet(1 .. L) /\ Cardinality(1 .. L) = L
    BY <1>1, FS_Interval
  <2>. HIDE DEF V, K, U
  <2>3. IsFiniteSet(V) /\ IsFiniteSet(K) /\ IsFiniteSet(U) /\ IsFiniteSet(V \cup K)
    <3>1. V \in SUBSET (1 .. L) /\ K \in SUBSET (1 .. L) /\ U \in SUBSET (1 .. L)
          /\ V \cup K \in SUBSET (1 .. L)
      BY <2>1
    <3>. QED  BY <2>2, <3>1, FS_Subset
  <2>4. Cardinality(V \cup K) = Cardinality(V) + Cardinality(K) - Cardinality(V \cap K)
    BY <2>3, FS_Union
  <2>5. Cardinality((V \cup K) \cup U)
          = Cardinality(V \cup K) + Cardinality(U) - Cardinality((V \cup K) \cap U)
    BY <2>3, FS_Union
  <2>6. Cardinality(V \cap K) = 0 /\ Cardinality((V \cup K) \cap U) = 0
    BY <2>1, FS_EmptySet
  <2>7. Cardinality(V) \in Nat /\ Cardinality(K) \in Nat /\ Cardinality(U) \in Nat
    BY <2>3, FS_CardinalityType
  <2>8. Cardinality((V \cup K) \cup U) = L
    BY <2>1, <2>2
  <2>. QED  BY <2>4, <2>5, <2>6, <2>7, <2>8
<1>6. CountAll(cs).valid = Cardinality(V) /\ CountAll(cs).corrupt = Cardinality(K)
      /\ CountAll(cs).found = L
  BY <1>2, <1>3 DEF CountersAt
<1>7. /\ CountAll(cs).records = Cardinality(Within(Bearing(cs, Integrities), RecordSets(cs), L))
      /\ CountAll(cs).badRecords = Cardinality(Within(Bearing(cs, {"HeaderCorrupt"}), RecordSets(cs), L))
  BY <1>2 DEF CountersAt
<1>. HIDE DEF V, K
<1>8. CountAll(cs).valid + CountAll(cs).corrupt + Cardinality(Bearing(cs, {"Truncated"})) = Len(cs)
  BY <1>5, <1>6
<1>. QED  BY <1>4, <1>6, <1>7, <1>8

LEMMA MergeDetermined ==
  ASSUME CarveInv, Merge
  PROVE  ResultDetermined'
<1> DEFINE cs == Sorted(Sorted(carved) \o truncated)
           R == Results
<1>1. /\ phase = "pool" /\ todo = {} /\ chunks' = cs /\ stats' = CountAll(cs)
      /\ head' = head /\ full' = full /\ truncated' = truncated
  BY DEF Merge
<1>2. /\ carved \in Seq(R) /\ truncated \in Seq(R) /\ HaveOffsets(R)
      /\ \A c \in R : IsChunk(c)
      /\ Between(R, carved, truncated) /\ Apart(carved) /\ Apart(truncated)
      /\ ApartOf(carved, truncated)
      /\ \A a \in 1 .. Len(carved) : carved[a].integrity \in {"Valid", "HeaderCorrupt"}
      /\ \A b \in 1 .. Len(truncated) : truncated[b].integrity = "Truncated"
  BY <1>1, MergeParts DEF HaveOffsets, Between, Apart, ApartOf
<1>3. R' = R
  <2>1. \A w : FullChunk(w)' = FullChunk(w)
    BY <1>1 DEF FullChunk
  <2>2. FullOffsets' = FullOffsets
    BY <1>1 DEF FullOffsets
  <2>. QED  BY <1>1, <2>1, <2>2 DEF Results
<1>. HIDE DEF R
<1>4. cs \in Seq(R) /\ ResultIs(cs, R)
  BY <1>2, MergedInOrder
<1>. HIDE DEF cs
<1>5. \A c \in R : c.integrity = "Truncated" => \E b \in 1 .. Len(truncated) : truncated[b] = c
  <2> SUFFICES ASSUME NEW c \in R, c.integrity = "Truncated"
               PROVE  \E b \in 1 .. Len(truncated) : truncated[b] = c
    OBVIOUS
  <2>1. ~ \E a \in 1 .. Len(carved) : carved[a] = c
    BY <1>2
  <2>. QED  BY <1>2, <2>1 DEF Between
<1>6. Cardinality(Bearing(cs, {"Truncated"})) = Len(truncated)
  BY <1>2, <1>4, <1>5, TruncatedCount
<1>7. StatsAgree'
  <2>1. /\ CountAll(cs).found = Len(cs)
        /\ CountAll(cs).valid + CountAll(cs).corrupt + Len(truncated) = Len(cs)
        /\ CountAll(cs).records = Cardinality(RecordsOf(cs, Integrities))
        /\ CountAll(cs).badRecords = Cardinality(RecordsOf(cs, {"HeaderCorrupt"}))
    BY <1>2, <1>4, <1>6, CountersAgree
  <2>2. chunks' = cs /\ stats' = CountAll(cs) /\ Len(truncated') = Len(truncated)
    BY <1>1
  <2>3. Len(truncated) \in Nat /\ Len(cs) \in Nat
    BY <1>2, <1>4
  <2>4. stats'.valid + stats'.corrupt + Len(truncated') = stats'.found
    BY <2>1, <2>2
  <2>5. RecordsOf(chunks, Integrities)' = RecordsOf(cs, Integrities)
        /\ RecordsOf(chunks, {"HeaderCorrupt"})' = RecordsOf(cs, {"HeaderCorrupt"})
    BY <2>2 DEF RecordsOf
  <2>6. /\ stats'.found = Len(chunks')
        /\ stats'.records = Cardinality(RecordsOf(chunks, Integrities)')
        /\ stats'.badRecords = Cardinality(RecordsOf(chunks, {"HeaderCorrupt"})')
    BY <2>1, <2>2, <2>5
  <2>. QED  BY <2>4, <2>6 DEF StatsAgree, RecordsOf
<1>8. /\ { chunks'[k] : k \in 1 .. Len(chunks') } = Results'
      /\ \A a, b \in 1 .. Len(chunks') : a < b => chunks'[a].offset < chunks'[b].offset
  BY <1>1, <1>3, <1>4 DEF ResultIs, R
<1>. QED  BY <1>7, <1>8 DEF ResultDetermined, Results

LEMMA ResultStep ==
  ASSUME CarveInv, ResultDetermined, [Next]_vars
  PROVE  ResultDetermined'
<1>1. CASE Merge
  BY <1>1, MergeDetermined
<1>2. CASE Scan \/ Pool
  <2>1. phase' # "done"
    BY <1>2 DEF Scan, Pool, ScanFull, ScanTruncated, ScanMiss, StartPool, CarveChunk, Scanning
  <2>. QED  BY <2>1 DEF ResultDetermined
<1>3. CASE UNCHANGED vars
  <2>1. /\ phase' = phase /\ chunks' = chunks /\ stats' = stats /\ truncated' = truncated
        /\ head' = head /\ full' = full
    BY <1>3 DEF vars
  <2>2. FullOffsets' = FullOffsets /\ \A w : FullChunk(w)' = FullChunk(w)
    BY <2>1 DEF FullOffsets, FullChunk
  <2>3. StatsAgree' <=> StatsAgree
    BY <2>1 DEF StatsAgree
  <2>4. { FullChunk(w) : w \in { f \in FullOffsets : head[f] # "garbled" } }'
          = { FullChunk(w) : w \in { f \in FullOffsets : head[f] # "garbled" } }
    BY <2>1, <2>2
  <2>. QED  BY <2>1, <2>3, <2>4, ZenonT(40) DEF ResultDetermined
<1>. QED  BY <1>1, <1>2, <1>3 DEF Next

LEMMA CarveInvariant == Spec => []CarveInv
<1>1. Init => CarveInv
  BY FreshCarve DEF Init, Fresh
<1>2. CarveInv /\ [Next]_vars => CarveInv'
  BY CarveStep
<1>. QED  BY <1>1, <1>2, PTL DEF Spec

(* The result of carving is the same whatever order the closures of the    *)
(* pool run in: every queued chunk that parses and every truncated one,    *)
(* once, by offset, and the counters are those of the chunks, for every    *)
(* image, every chunk size and all records found in them.                  *)
THEOREM ResultIsDetermined == Spec => []ResultDetermined
<1>1. Init => ResultDetermined
  BY DEF Init, ResultDetermined
<1>2. CarveInv /\ ResultDetermined /\ [Next]_vars => ResultDetermined'
  BY ResultStep
<1>. QED  BY <1>1, <1>2, CarveInvariant, PTL DEF Spec

-----------------------------------------------------------------------------
(* Repair.                                                                  *)

repair == <<vars, repairVars>>

Slots == GridChunks \cup {NoChunk}

RepairTypeOK ==
  /\ chunk \in [Grid -> Slots]
  /\ given \in [Grid -> Slots]
  /\ fileCrc \in {"ok", "bad", "absent"}
  /\ rphase \in {"file", "chunks", "write", "written", "failed", "verify"}
  /\ off \in Nat
  /\ pass \in {1, 2}
  /\ checked \in Nat
  /\ repaired \in Nat
  /\ headerRepaired \in BOOLEAN

-----------------------------------------------------------------------------
(* One chunk.                                                               *)

\* Both of its checksums hold.
IsFixed(c) == c = NoChunk \/ (c.area # "bad" /\ c.crc)

(* The order in which the two checksums are renewed is right: both hold    *)
(* then.  A chunk is changed if and only if it counts as repaired.         *)
LEMMA FixedHolds ==
  ASSUME NEW c \in GridChunks
  PROVE  /\ Fixed(c) \in GridChunks
         /\ IsFixed(Fixed(c))
         /\ NeedsFix(c) <=> Fixed(c) # c
         /\ IsFixed(c) => ~NeedsFix(c)
<1>1. c # NoChunk
  BY NoChunkAssumption
<1>2. CASE c.area = "bad"
  BY <1>1, <1>2 DEF Fixed, FixCrc, FixArea, NeedsFix, IsFixed, GridChunks
<1>3. CASE c.area # "bad"
  BY <1>1, <1>3 DEF Fixed, FixCrc, FixArea, NeedsFix, IsFixed, GridChunks
<1>. QED  BY <1>2, <1>3

-----------------------------------------------------------------------------
(* The grid.                                                                *)

OnGrid(o) == o >= FileHeader /\ (o - FileHeader) % C = 0

LEMMA Sizes == /\ N \in Nat /\ C \in Nat \ {0} /\ FileHeader \in Nat
               /\ Grid \subseteq Nat /\ IsFiniteSet(Grid)
<1>1. N \in Nat /\ C \in Nat \ {0}
  BY ScanAssumption
<1>2. Grid \subseteq 0 .. N - 1
  BY DEF Grid, Words
<1>3. IsFiniteSet(0 .. N - 1)
  BY <1>1, FS_Interval
<1>4. IsFiniteSet(Grid)
  BY <1>2, <1>3, FS_Subset
<1>5. FileHeader \in Nat
  BY <1>1, FileHeaderAssumption
<1>6. Grid \subseteq Nat
  BY <1>1, <1>2
<1>. QED  BY <1>1, <1>4, <1>5, <1>6

(* Where a chunk fits behind the cursor, the cursor stands on the grid,    *)
(* and the next place of the grid is a chunk further on.                   *)
LEMMA SlotStep ==
  ASSUME NEW o \in Nat, OnGrid(o), o + C <= N
  PROVE  /\ o \in Grid
         /\ OnGrid(o + C)
         /\ \A g \in Grid : g < o + C <=> g < o \/ g = o
<1>1. o \in Grid
  BY Sizes DEF Grid, Words, OnGrid
<1>2. o - FileHeader \in Nat /\ (o - FileHeader) % C = 0
  BY Sizes DEF OnGrid
<1>3. C % C = 0
  BY Sizes
<1>4. ((o - FileHeader) + C) % C = 0
  BY <1>2, <1>3, GridSum, Sizes
<1>5. (o + C) - FileHeader = (o - FileHeader) + C
  BY Sizes
<1>6. OnGrid(o + C)
  BY <1>2, <1>4, <1>5, Sizes DEF OnGrid
<1>7. ASSUME NEW g \in Grid, o < g PROVE o + C <= g
  <2>1. g \in Nat /\ g - FileHeader \in Nat /\ (g - FileHeader) % C = 0
    BY Sizes DEF Grid
  <2>2. o - FileHeader < g - FileHeader
    BY <1>7, <2>1, Sizes
  <2>3. (o - FileHeader) + C <= g - FileHeader
    BY <1>2, <2>1, <2>2, GridGap, Sizes
  <2>. QED  BY <2>1, <2>3, Sizes
<1>. QED  BY <1>1, <1>6, <1>7, Sizes

\* How many places of the grid before o satisfy P, when the places are those
\* of S.
LEMMA CountStep ==
  ASSUME NEW o \in Nat, OnGrid(o), o + C <= N, NEW S \in SUBSET Grid,
         NEW before, before = { g \in S : g < o }, NEW after, after = { g \in S : g < o + C }
  PROVE  /\ Cardinality(before) \in Nat
         /\ Cardinality(after) = Cardinality(before) + IF o \in S THEN 1 ELSE 0
<1>1. IsFiniteSet(before) /\ Cardinality(before) \in Nat
  BY FS_Subset, FS_CardinalityType, Sizes
<1>2. after = before \cup (IF o \in S THEN {o} ELSE {})
  BY SlotStep
<1>3. o \notin before
  OBVIOUS
<1>4. Cardinality(before \cup {o}) = Cardinality(before) + 1
  BY <1>1, <1>3, FS_AddElement
<1>. QED  BY <1>1, <1>2, <1>4

-----------------------------------------------------------------------------
(* A pass.                                                                  *)

AllFixed == \A g \in Grid : IsFixed(chunk[g])

Present == { g \in Grid : given[g] # NoChunk }
Changed == { g \in Grid : chunk[g] # given[g] }

\* The first pass: places before the cursor are repaired and counted, the
\* others are as they were given.
FirstPass ==
  /\ rphase = "file" => chunk = given /\ checked = 0 /\ repaired = 0
  /\ rphase = "chunks" =>
       /\ \A g \in Grid : IF g < off THEN IsFixed(chunk[g]) ELSE chunk[g] = given[g]
       /\ checked = Cardinality({ g \in Present : g < off })
       /\ repaired = Cardinality({ g \in Changed : g < off })
  /\ rphase \notin {"file", "chunks"} =>
       AllFixed /\ checked = Cardinality(Present) /\ repaired = Cardinality(Changed)

\* The second finds everything repaired.
SecondPass == AllFixed /\ fileCrc # "bad" /\ repaired = 0 /\ ~headerRepaired

PassInv ==
  /\ rphase # "file" => fileCrc # "bad"
  /\ rphase = "chunks" => OnGrid(off)
  /\ pass = 1 => FirstPass
  /\ pass = 2 => SecondPass

\* A chunk is repaired: its place becomes one that is fixed, and counts as
\* changed if and only if it was not.
LEMMA RepairOne ==
  ASSUME RepairTypeOK, PassInv, RepairChunk
  PROVE  /\ off \in Grid /\ chunk[off] \in GridChunks
         /\ chunk' = [chunk EXCEPT ![off] = Fixed(chunk[off])]
         /\ IsFixed(chunk'[off])
         /\ \A g \in Grid : g # off => chunk'[g] = chunk[g]
         /\ chunk' \in [Grid -> Slots]
<1>1. off \in Grid /\ chunk[off] # NoChunk
  BY SlotStep DEF RepairTypeOK, PassInv, RepairChunk
<1>2. chunk[off] \in GridChunks
  BY <1>1 DEF RepairTypeOK, Slots
<1>3. chunk' = [chunk EXCEPT ![off] = Fixed(chunk[off])]
  BY DEF RepairChunk
<1>4. Fixed(chunk[off]) \in GridChunks /\ IsFixed(Fixed(chunk[off]))
  BY <1>2, FixedHolds
<1>. QED  BY <1>1, <1>2, <1>3, <1>4 DEF RepairTypeOK, Slots

LEMMA RepairTypeInductive ==
  RepairTypeOK /\ PassInv /\ [RepairNext]_repair => RepairTypeOK'
<1> SUFFICES ASSUME RepairTypeOK, PassInv, [RepairNext]_repair PROVE RepairTypeOK'
  OBVIOUS
<1> USE Sizes DEF RepairTypeOK, fileVars, report
<1>1. CASE RepairFileHeader
  BY <1>1 DEF RepairFileHeader
<1>2. CASE RepairChunk
  BY <1>2, RepairOne DEF RepairChunk
<1>3. CASE PassSlot
  BY <1>3 DEF PassSlot
<1>4. CASE GridDone \/ Write \/ WriteFails
  BY <1>4 DEF GridDone, Write, WriteFails
<1>5. CASE Again
  BY <1>5 DEF Again
<1>6. CASE Reopen
  BY <1>6 DEF Reopen
<1>7. CASE Verify \/ UNCHANGED repair
  BY <1>7 DEF Verify, repair, repairVars
<1>. QED  BY <1>1, <1>2, <1>3, <1>4, <1>5, <1>6, <1>7 DEF RepairNext

LEMMA RepairChunkKeeps == RepairTypeOK /\ PassInv /\ RepairChunk => PassInv'
<1> SUFFICES ASSUME RepairTypeOK, PassInv, RepairChunk PROVE PassInv'
  OBVIOUS
<1>1. /\ off \in Grid /\ chunk[off] \in GridChunks
      /\ chunk' = [chunk EXCEPT ![off] = Fixed(chunk[off])]
      /\ IsFixed(chunk'[off])
      /\ \A g \in Grid : g # off => chunk'[g] = chunk[g]
  BY RepairOne
<1>2. /\ rphase = "chunks" /\ off + C <= N /\ off' = off + C
      /\ checked' = checked + 1
      /\ repaired' = repaired + IF NeedsFix(chunk[off]) THEN 1 ELSE 0
      /\ UNCHANGED <<fileCrc, given, rphase, pass, headerRepaired>>
  BY DEF RepairChunk
<1>3. off \in Nat /\ OnGrid(off) /\ OnGrid(off') /\ \A g \in Grid : g < off' <=> g < off \/ g = off
  BY <1>2, SlotStep DEF RepairTypeOK, PassInv
<1>4. ASSUME pass = 1 PROVE FirstPass'
  <2>1. /\ \A g \in Grid : IF g < off THEN IsFixed(chunk[g]) ELSE chunk[g] = given[g]
        /\ checked = Cardinality({ g \in Present : g < off })
        /\ repaired = Cardinality({ g \in Changed : g < off })
    BY <1>2, <1>4 DEF PassInv, FirstPass
  <2>2. given[off] = chunk[off] /\ off \in Present
    BY <1>1, <1>3, <2>1, NoChunkAssumption DEF Present
  <2>3. Present' = Present /\ Present \subseteq Grid
    BY <1>2 DEF Present
  <2>4. checked' = Cardinality({ g \in Present : g < off' })
    BY <1>2, <1>3, <2>1, <2>2, <2>3, CountStep
  <2>5. off \in Changed' <=> NeedsFix(chunk[off])
    BY <1>1, <1>2, <2>2, FixedHolds DEF Changed, RepairTypeOK
  <2>6. { g \in Changed' : g < off } = { g \in Changed : g < off }
    BY <1>1, <1>2, <1>3, Sizes DEF Changed
  <2>7. Changed' \subseteq Grid
    BY DEF Changed
  <2>8. repaired' = Cardinality({ g \in Changed' : g < off' })
    BY <1>2, <1>3, <2>1, <2>5, <2>6, <2>7, CountStep
  <2>9. \A g \in Grid : IF g < off' THEN IsFixed(chunk'[g]) ELSE chunk'[g] = given'[g]
    BY <1>1, <1>2, <1>3, <2>1
  <2>. QED  BY <1>2, <2>3, <2>4, <2>8, <2>9 DEF FirstPass, IsFixed
<1>5. ASSUME pass = 2 PROVE SecondPass'
  <2>1. SecondPass
    BY <1>5 DEF PassInv
  <2>2. ~NeedsFix(chunk[off])
    BY <1>1, <2>1, FixedHolds DEF SecondPass, AllFixed
  <2>3. AllFixed'
    BY <1>1, <2>1 DEF SecondPass, AllFixed, IsFixed
  <2>. QED  BY <1>2, <2>1, <2>2, <2>3 DEF SecondPass
<1>. QED  BY <1>2, <1>3, <1>4, <1>5 DEF PassInv

LEMMA PassSlotKeeps == RepairTypeOK /\ PassInv /\ PassSlot => PassInv'
<1> SUFFICES ASSUME RepairTypeOK, PassInv, PassSlot PROVE PassInv'
  OBVIOUS
<1>1. /\ rphase = "chunks" /\ off + C <= N /\ off' = off + C /\ chunk[off] = NoChunk
      /\ UNCHANGED <<chunk, given, fileCrc, rphase, pass, checked, repaired, headerRepaired>>
  BY DEF PassSlot, fileVars, report
<1>2. /\ off \in Nat /\ OnGrid(off) /\ OnGrid(off') /\ off \in Grid
      /\ \A g \in Grid : g < off' <=> g < off \/ g = off
  BY <1>1, SlotStep DEF RepairTypeOK, PassInv
<1>3. Present' = Present /\ Present \subseteq Grid /\ Changed' = Changed /\ Changed \subseteq Grid
  BY <1>1 DEF Present, Changed
<1>4. ASSUME pass = 1 PROVE FirstPass'
  <2>1. /\ \A g \in Grid : IF g < off THEN IsFixed(chunk[g]) ELSE chunk[g] = given[g]
        /\ checked = Cardinality({ g \in Present : g < off })
        /\ repaired = Cardinality({ g \in Changed : g < off })
    BY <1>1, <1>4 DEF PassInv, FirstPass
  <2>2. off \notin Present /\ off \notin Changed
    BY <1>1, <1>2, <2>1 DEF Present, Changed
  <2>3. { g \in Present : g < off' } = { g \in Present : g < off }
    BY <1>2, <1>3, <2>2
  <2>4. { g \in Changed : g < off' } = { g \in Changed : g < off }
    BY <1>2, <1>3, <2>2
  <2>5. \A g \in Grid : IF g < off' THEN IsFixed(chunk[g]) ELSE chunk[g] = given[g]
    BY <1>1, <1>2, <2>1 DEF IsFixed
  <2>. QED  BY <1>1, <1>3, <2>1, <2>3, <2>4, <2>5 DEF FirstPass, IsFixed
<1>5. ASSUME pass = 2 PROVE SecondPass'
  BY <1>1, <1>5 DEF PassInv, SecondPass, AllFixed, IsFixed
<1>. QED  BY <1>1, <1>2, <1>4, <1>5 DEF PassInv

LEMMA GridDoneKeeps == RepairTypeOK /\ PassInv /\ GridDone => PassInv'
<1> SUFFICES ASSUME RepairTypeOK, PassInv, GridDone PROVE PassInv'
  OBVIOUS
<1>1. /\ rphase = "chunks" /\ rphase' = "write" /\ off + C > N
      /\ UNCHANGED <<chunk, given, fileCrc, pass, checked, repaired, headerRepaired>>
  BY DEF GridDone, fileVars, report
<1>2. \A g \in Grid : g < off
  BY <1>1, Sizes DEF Grid, RepairTypeOK
<1>3. { g \in Present : g < off } = Present /\ { g \in Changed : g < off } = Changed
  BY <1>2 DEF Present, Changed
<1>4. Present' = Present /\ Changed' = Changed /\ (AllFixed' <=> AllFixed)
  BY <1>1 DEF Present, Changed, AllFixed, IsFixed
<1>5. pass = 1 => FirstPass'
  BY <1>1, <1>2, <1>3, <1>4 DEF PassInv, FirstPass, AllFixed
<1>6. pass = 2 => SecondPass'
  BY <1>1, <1>4 DEF PassInv, SecondPass
<1>. QED  BY <1>1, <1>5, <1>6 DEF PassInv

LEMMA PassInductive == RepairTypeOK /\ PassInv /\ [RepairNext]_repair => PassInv'
<1> SUFFICES ASSUME RepairTypeOK, PassInv, [RepairNext]_repair PROVE PassInv'
  OBVIOUS
<1>1. CASE RepairFileHeader
  <2>1. /\ rphase = "file" /\ rphase' = "chunks" /\ off' = FileHeader /\ fileCrc' # "bad"
        /\ headerRepaired' = (fileCrc = "bad")
        /\ UNCHANGED <<chunk, given, pass, checked, repaired>>
    BY <1>1 DEF RepairFileHeader
  <2>2. OnGrid(off')
    BY <2>1, Sizes DEF OnGrid
  <2>3. ASSUME pass = 1 PROVE FirstPass'
    <3>1. chunk = given /\ checked = 0 /\ repaired = 0
      BY <2>1, <2>3 DEF PassInv, FirstPass
    <3>2. \A g \in Grid : ~(g < FileHeader)
      BY Sizes DEF Grid
    <3>3. { g \in Present' : g < off' } = {} /\ { g \in Changed' : g < off' } = {}
      BY <2>1, <3>2 DEF Present, Changed
    <3>4. Cardinality({}) = 0
      BY FS_EmptySet
    <3>5. \A g \in Grid : IF g < off' THEN IsFixed(chunk'[g]) ELSE chunk'[g] = given'[g]
      BY <2>1, <3>1, <3>2
    <3>. QED  BY <2>1, <3>1, <3>3, <3>4, <3>5 DEF FirstPass, IsFixed
  <2>4. ASSUME pass = 2 PROVE SecondPass'
    BY <2>1, <2>4 DEF PassInv, SecondPass, AllFixed, IsFixed
  <2>. QED  BY <2>1, <2>2, <2>3, <2>4 DEF PassInv
<1>2. CASE RepairChunk
  BY <1>2, RepairChunkKeeps
<1>3. CASE PassSlot
  BY <1>3, PassSlotKeeps
<1>4. CASE GridDone
  BY <1>4, GridDoneKeeps
<1>5. CASE Again
  <2>1. FirstPass /\ fileCrc # "bad"
    BY <1>5 DEF Again, PassInv
  <2>2. AllFixed
    BY <1>5, <2>1 DEF Again, FirstPass
  <2>. QED  BY <1>5, <2>1, <2>2 DEF Again, PassInv, SecondPass, AllFixed, IsFixed, fileVars
<1>6. CASE Write \/ WriteFails \/ Reopen
  <2>1. /\ rphase \in {"write", "written"} /\ rphase' \in {"written", "failed", "verify"}
        /\ UNCHANGED <<chunk, given, fileCrc, pass, checked, repaired, headerRepaired>>
    BY <1>6 DEF Write, WriteFails, Reopen, fileVars, report
  <2>. QED  BY <2>1 DEF PassInv, FirstPass, SecondPass, AllFixed, IsFixed, Present, Changed
<1>7. CASE Verify \/ UNCHANGED repair
  <2>1. UNCHANGED repairVars
    BY <1>7 DEF Verify, repair
  <2>. QED  BY <2>1 DEF repairVars, fileVars, report, PassInv, FirstPass, SecondPass, AllFixed,
                 IsFixed, Present, Changed, OnGrid
<1>. QED  BY <1>1, <1>2, <1>3, <1>4, <1>5, <1>6, <1>7 DEF RepairNext

LEMMA RepairInvariant == RepairSpec => [](RepairTypeOK /\ PassInv)
<1>1. RepairInit => RepairTypeOK /\ PassInv
  <2> SUFFICES ASSUME RepairInit PROVE RepairTypeOK /\ PassInv
    OBVIOUS
  <2>1. /\ rphase = "file" /\ pass = 1 /\ chunk \in [Grid -> Slots] /\ given = chunk
        /\ checked = 0 /\ repaired = 0 /\ headerRepaired = FALSE /\ off = 0
        /\ fileCrc \in {"ok", "bad", "absent"}
    BY DEF RepairInit, Slots
  <2>2. RepairTypeOK
    BY <2>1 DEF RepairTypeOK
  <2>3. PassInv
    BY <2>1 DEF PassInv, FirstPass
  <2>. QED  BY <2>2, <2>3
<1>2. RepairTypeOK /\ PassInv /\ [RepairNext]_repair => RepairTypeOK' /\ PassInv'
  BY RepairTypeInductive, PassInductive
<1>. QED  BY <1>1, <1>2, PTL DEF RepairSpec, repair

(* The report of a repair says how many chunks it looked at and how many   *)
(* it changed, and a second repair of what it wrote changes nothing, for   *)
(* files of any size with chunks of any condition on the grid.             *)
THEOREM RepairIsTrue == RepairSpec => []ReportTrue
<1>1. PassInv => ReportTrue
  BY DEF PassInv, FirstPass, SecondPass, ReportTrue, Present, Changed
<1>. QED  BY <1>1, RepairInvariant, PTL

(* Both checksums of every chunk on the grid hold when a repair is done,   *)
(* though storing one of them changes what the other covers.               *)
THEOREM RepairFixesAll == RepairSpec => [](rphase \notin {"file", "chunks"} => AllFixed)
<1>1. RepairTypeOK /\ PassInv => (rphase \notin {"file", "chunks"} => AllFixed)
  BY DEF RepairTypeOK, PassInv, FirstPass, SecondPass
<1>. QED  BY <1>1, RepairInvariant, PTL
-----------------------------------------------------------------------------
(* The repaired file is verified.                                           *)

\* What stands at the words of a repaired file without strays.
RepairedHead == [w \in Words |-> IF w \in Grid THEN HeadOf(chunk[w]) ELSE "none"]

VerifyInv ==
  /\ CarveInv
  /\ ResultDetermined
  /\ rphase # "verify" => Fresh
  /\ rphase = "verify" /\ strays = {} => head = RepairedHead

LEMMA VerifyInvInductive ==
  ASSUME VerifyInv, [RepairNext]_repair
  PROVE  VerifyInv'
<1>1. CASE Reopen
  <2>1. /\ rphase = "written" /\ rphase' = "verify" /\ strays' = strays /\ chunk' = chunk
        /\ UNCHANGED <<phase, i, full, truncated, todo, carved, chunks, stats>>
    BY <1>1 DEF Reopen, fileVars
  <2>2. PICK h \in [strays -> Heads \ {"none"}] :
          head' = [w \in Words |-> IF w \in Grid THEN HeadOf(chunk[w])
                                   ELSE IF w \in strays THEN h[w] ELSE "none"]
    BY <1>1 DEF Reopen
  <2>3. \A c : HeadOf(c) \in Heads
    BY DEF HeadOf, Heads
  <2>4. \A w \in strays : h[w] \in Heads
    BY <2>2
  <2>5. head' \in [Words -> Heads]
    BY <2>2, <2>3, <2>4 DEF Heads
  <2>6. Fresh'
    BY <2>1 DEF VerifyInv, Fresh
  <2>7. CarveInv'
    BY <2>5, <2>6, FreshCarveNext
  <2>8. ResultDetermined'
    BY <2>6 DEF ResultDetermined, Fresh
  <2>9. strays = {} => head' = [w \in Words |-> IF w \in Grid THEN HeadOf(chunk[w]) ELSE "none"]
    BY <2>2
  <2>10. strays' = {} => head' = RepairedHead'
    BY <2>1, <2>9 DEF RepairedHead, HeadOf
  <2>. QED  BY <2>1, <2>7, <2>8, <2>10 DEF VerifyInv
<1>2. CASE Verify
  <2>1. rphase = "verify" /\ Next /\ rphase' = rphase /\ strays' = strays /\ chunk' = chunk
    BY <1>2 DEF Verify, repairVars, fileVars
  <2>2. CarveInv' /\ ResultDetermined'
    BY <2>1, CarveStep, ResultStep DEF VerifyInv
  <2>3. head' = head
    BY <2>1 DEF Next, Scan, Pool, ScanFull, ScanTruncated, ScanMiss, StartPool, CarveChunk, Merge
  <2>4. RepairedHead' = RepairedHead
    BY <2>1 DEF RepairedHead, HeadOf
  <2>. QED  BY <2>1, <2>2, <2>3, <2>4 DEF VerifyInv
<1>3. CASE UNCHANGED vars /\ ~Verify /\ ~Reopen
  <2>1. CarveInv' /\ ResultDetermined'
    BY <1>3, CarveStep, ResultStep DEF VerifyInv
  <2>2. Fresh' <=> Fresh
    BY <1>3 DEF Fresh, vars
  <2>3. CASE UNCHANGED repairVars
    <3>1. rphase' = rphase /\ strays' = strays /\ chunk' = chunk /\ head' = head
      BY <1>3, <2>3 DEF repairVars, fileVars, vars
    <3>2. RepairedHead' = RepairedHead
      BY <3>1 DEF RepairedHead, HeadOf
    <3>. QED  BY <2>1, <2>2, <3>1, <3>2 DEF VerifyInv
  <2>4. CASE rphase # "verify" /\ rphase' # "verify"
    BY <2>1, <2>2, <2>4 DEF VerifyInv
  <2>5. UNCHANGED repairVars \/ (rphase # "verify" /\ rphase' # "verify")
    BY <1>3 DEF RepairNext, repair, RepairFileHeader, RepairChunk, PassSlot, GridDone, Write,
                WriteFails, Again
  <2>. QED  BY <2>3, <2>4, <2>5
<1>4. Verify \/ Reopen \/ UNCHANGED vars
  BY DEF RepairNext, repair, RepairFileHeader, RepairChunk, PassSlot, GridDone, Write, WriteFails, Again
<1>. QED  BY <1>1, <1>2, <1>3, <1>4

\* Without strays the magics are the chunks of the grid, and all are queued.
LEMMA GridFound ==
  ASSUME RepairTypeOK, VerifyInv, rphase = "verify", phase = "done", strays = {}
  PROVE  /\ Magics = { g \in Grid : chunk[g] # NoChunk }
         /\ FullOffsets = Magics
         /\ Len(truncated) = 0
         /\ \A w \in Grid : head[w] = HeadOf(chunk[w])
<1>1. head = RepairedHead /\ CarveInv /\ i >= N /\ i \in Nat
  BY DEF VerifyInv, CarveInv, PoolInv, ScanTypeOK
<1>2. Grid \subseteq Words /\ \A w \in Grid : head[w] = HeadOf(chunk[w])
  BY <1>1 DEF RepairedHead, Grid
<1>3. \A w \in Words \ Grid : head[w] = "none"
  BY <1>1 DEF RepairedHead
<1>4. \A c : HeadOf(c) = "none" <=> c = NoChunk
  BY DEF HeadOf
<1>5. Magics = { g \in Grid : chunk[g] # NoChunk }
  BY <1>2, <1>3, <1>4 DEF Magics
<1>6. \A m \in Magics : m \in Nat /\ m < N /\ m + C <= N /\ m \in Grid
  BY <1>5, Sizes DEF Grid, Words
<1>7. FullOffsets \subseteq Magics
  BY <1>1 DEF CarveInv, QueueInv, FullOffsets
<1>8. ASSUME NEW m \in Magics PROVE m \in FullOffsets
  <2>1. m < i
    BY <1>1, <1>6, Sizes
  <2>2. \/ m \in FullOffsets
        \/ \E f \in FullOffsets : f < m /\ m < f + C
        \/ m + C > N
    BY <1>1, <2>1 DEF CarveInv, ScanInv, MagicsAccounted
  <2>3. ~(m + C > N)
    BY <1>6, Sizes
  <2>4. ASSUME NEW f \in FullOffsets, f < m, m < f + C PROVE FALSE
    <3>1. f \in Grid /\ f \in Nat /\ f + C <= N /\ OnGrid(f)
      BY <1>6, <1>7 DEF Grid, OnGrid
    <3>2. m < f + C <=> m < f \/ m = f
      BY <1>6, <3>1, SlotStep
    <3>. QED  BY <1>6, <2>4, <3>1, <3>2
  <2>. QED  BY <2>2, <2>3, <2>4
<1>9. Len(truncated) = 0
  <2>1. truncated \in Seq({ TruncatedChunk(w) : w \in Late })
    BY <1>1 DEF CarveInv, QueueInv
  <2>2. Late = {}
    BY <1>6, Sizes DEF Late
  <2>3. SUFFICES ASSUME Len(truncated) # 0 PROVE FALSE
    OBVIOUS
  <2>4. 1 \in 1 .. Len(truncated)
    BY <2>1, <2>3, LenProperties
  <2>5. truncated[1] \in { TruncatedChunk(w) : w \in Late }
    BY <2>1, <2>4, ElementOfSeq
  <2>. QED  BY <2>2, <2>5
<1>. QED  BY <1>2, <1>5, <1>7, <1>8, <1>9

LEMMA VerifyInvariant == RepairSpec => []VerifyInv
<1>1. RepairInit => VerifyInv
  <2> SUFFICES ASSUME RepairInit PROVE VerifyInv
    OBVIOUS
  <2>1. Fresh /\ head \in [Words -> Heads] /\ rphase = "file"
    BY DEF RepairInit, Fresh, Heads
  <2>2. CarveInv /\ ResultDetermined
    BY <2>1, FreshCarve DEF ResultDetermined, Fresh
  <2>. QED  BY <2>1, <2>2 DEF VerifyInv
<1>2. VerifyInv /\ [RepairNext]_repair => VerifyInv'
  BY VerifyInvInductive
<1>. QED  BY <1>1, <1>2, PTL DEF RepairSpec, repair

(* Carving a repaired file finds its chunks again, in whatever order the   *)
(* pool works, and finds their checksums right: repair, which goes by the  *)
(* grid, and carving, which looks for magics, agree on what a chunk is.    *)
THEOREM RepairedIsSound == RepairSpec => []RepairedVerifies
<1>1. RepairTypeOK /\ PassInv /\ VerifyInv => RepairedVerifies
  <2> SUFFICES ASSUME RepairTypeOK, PassInv, VerifyInv,
                      rphase = "verify", phase = "done", strays = {}
               PROVE  /\ { chunks[k].offset : k \in 1 .. Len(chunks) }
                           = { g + OffsetBase : g \in { w \in Grid : chunk[w] # NoChunk /\ chunk[w].parses } }
                      /\ \A k \in 1 .. Len(chunks) :
                           /\ chunks[k].integrity = "Valid"
                           /\ chunk[chunks[k].offset - OffsetBase].area # "bad"
                      /\ fileCrc # "bad"
    BY DEF RepairedVerifies
  <2> DEFINE Sound == { w \in Grid : chunk[w] # NoChunk /\ chunk[w].parses }
  <2>1. /\ Magics = { g \in Grid : chunk[g] # NoChunk } /\ FullOffsets = Magics
        /\ Len(truncated) = 0 /\ \A w \in Grid : head[w] = HeadOf(chunk[w])
    BY GridFound
  <2>2. AllFixed /\ fileCrc # "bad"
    BY DEF RepairTypeOK, PassInv, FirstPass, SecondPass
  <2>3. \A w \in Grid : chunk[w] # NoChunk => chunk[w].area # "bad" /\ chunk[w].crc
    BY <2>2 DEF AllFixed, IsFixed
  <2>4. { w \in FullOffsets : head[w] # "garbled" } = Sound
    BY <2>1, <2>3 DEF HeadOf
  <2>5. \A w \in Sound : head[w] = "sound" /\ chunk[w].area # "bad"
    BY <2>1, <2>3 DEF HeadOf
  <2>6. { chunks[k] : k \in 1 .. Len(chunks) } = { FullChunk(w) : w \in Sound }
    <3>1. { chunks[k] : k \in 1 .. Len(chunks) } =
             { FullChunk(w) : w \in { f \in FullOffsets : head[f] # "garbled" } }
               \cup { truncated[k] : k \in 1 .. Len(truncated) }
      BY DEF VerifyInv, ResultDetermined
    <3>2. { truncated[k] : k \in 1 .. Len(truncated) } = {}
      BY <2>1
    <3>. QED  BY <2>4, <3>1, <3>2
  <2>7. \A w \in Sound : /\ FullChunk(w).offset = w + OffsetBase /\ FullChunk(w).integrity = "Valid"
                         /\ (w + OffsetBase) - OffsetBase = w
    BY <2>5, Sizes, ScanAssumption DEF FullChunk
  <2>. HIDE DEF Sound
  <2>8. \A k \in 1 .. Len(chunks) : \E w \in Sound : chunks[k] = FullChunk(w)
    BY <2>6
  <2>9. \A w \in Sound : \E k \in 1 .. Len(chunks) : chunks[k] = FullChunk(w)
    BY <2>6
  <2>10. { chunks[k].offset : k \in 1 .. Len(chunks) } = { g + OffsetBase : g \in Sound }
    <3>1. \A k \in 1 .. Len(chunks) : \E w \in Sound : chunks[k].offset = w + OffsetBase
      BY <2>7, <2>8
    <3>2. \A w \in Sound : \E k \in 1 .. Len(chunks) : chunks[k].offset = w + OffsetBase
      BY <2>7, <2>9
    <3>. QED  BY <3>1, <3>2
  <2>11. \A k \in 1 .. Len(chunks) :
           /\ chunks[k].integrity = "Valid"
           /\ chunk[chunks[k].offset - OffsetBase].area # "bad"
    BY <2>5, <2>7, <2>8
  <2>. QED  BY <2>2, <2>10, <2>11 DEF Sound
<1>. QED  BY <1>1, RepairInvariant, VerifyInvariant, PTL
=============================================================================
