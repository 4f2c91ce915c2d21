---------------------------- MODULE Rebuild_proofs ----------------------------
(***************************************************************************)
(* Proofs about the file that records are written to, for every list of    *)
(* records, every record size and every size of the records area: about    *)
(* the split into batches and the chunks (module EvtxWriter), and about    *)
(* what reading the file back finds (module Rebuild).                      *)
(***************************************************************************)
EXTENDS Rebuild, CommonLemmas

LEMMA AppendAt ==
  ASSUME NEW T, NEW s \in Seq(T), NEW x \in T
  PROVE  /\ Append(s, x) \in Seq(T)
         /\ Len(Append(s, x)) = Len(s) + 1
         /\ Append(s, x) # <<>>
         /\ \A j \in 1 .. Len(s) : Append(s, x)[j] = s[j]
         /\ Append(s, x)[Len(s) + 1] = x
BY AppendProperties

LEMMA SizesAreNat ==
  ASSUME TypeOK
  PROVE  \A r \in 1 .. n : SizeOf(r) \in Int /\ ends[r] \in Nat /\ ends[r - 1] \in Nat
<1> SUFFICES ASSUME NEW r \in 1 .. n
             PROVE  SizeOf(r) \in Int /\ ends[r] \in Nat /\ ends[r - 1] \in Nat
  OBVIOUS
<1>1. n \in Nat
  BY WriterAssumption DEF TypeOK
<1>2. r \in 0 .. n /\ r - 1 \in 0 .. n
  BY <1>1
<1>. QED  BY <1>2 DEF TypeOK, SizeOf

(* The highest of the ids exists and is an id. *)
LEMMA HighestIsId ==
  ASSUME TypeOK, n # 0
  PROVE  /\ HighestId \in 0 .. IdMod - 1
         /\ \A r \in 1 .. n : id[r] <= HighestId
         /\ \E r \in 1 .. n : HighestId = id[r]
<1>1. n \in Nat /\ IdMod \in Nat \ {0}
  BY WriterAssumption DEF TypeOK
<1>2. Ids \subseteq 0 .. IdMod - 1
  BY <1>1 DEF Ids, TypeOK
<1>3. id[1] \in Ids
  BY <1>1 DEF Ids
<1>4. PICK x \in Ids : \A y \in Ids : y <= x
  <2>1. IdMod - 1 \in Nat
    BY <1>1
  <2>. QED  BY <2>1, <1>2, <1>3, GreatestNat
<1>5. HighestId \in Ids /\ \A y \in Ids : y <= HighestId
  BY <1>4 DEF HighestId
<1>6. \A r \in 1 .. n : id[r] \in Ids
  BY DEF Ids
<1>7. \E r \in 1 .. n : HighestId = id[r]
  BY <1>5 DEF Ids
<1>. QED  BY <1>2, <1>5, <1>6, <1>7

(* Every record takes some bytes. *)
SizesPositive == \A r \in 1 .. n : SizeOf(r) \in Nat \ {0}

\* The writer, whether or not it goes on.
WriterSteps == Init /\ [][Next]_vars

LEMMA InputSound == WriterSteps => [](TypeOK /\ SizesPositive)
<1> DEFINE Positive == SizesPositive
<1> USE DEF SizesPositive
<1>1. Init => TypeOK /\ Positive
  <2> SUFFICES ASSUME Init PROVE TypeOK /\ Positive
    OBVIOUS
  <2>1. batches \in Seq(Batch) /\ current \in Batch
    BY EmptySeq DEF Init, Batch
  <2>2. n \in Nat /\ n \in 0 .. MaxRecords
    BY WriterAssumption DEF Init
  <2>3. ends \in [0 .. n -> Nat]
    BY DEF Init
  <2>4. Positive
    BY DEF Init
  <2>. QED  BY <2>1, <2>2, <2>3, <2>4, WriterAssumption DEF Init, TypeOK, NoHeader
<1>2. TypeOK /\ Positive /\ [Next]_vars => (TypeOK /\ Positive)'
  <2> SUFFICES ASSUME TypeOK, Positive, [Next]_vars PROVE (TypeOK /\ Positive)'
    OBVIOUS
  <2> USE WriterAssumption
  <2>0. n \in Nat
    BY DEF TypeOK
  <2>1. CASE SplitAdd
    <3>1. next \in 1 .. n /\ next + 1 \in 1 .. n + 1
      BY <2>0, <2>1 DEF SplitAdd, TypeOK
    <3>2. Append(current, next) \in Seq(1 .. n)
      BY <3>1, AppendAt DEF TypeOK, Batch
    <3>3. size + SizeOf(next) \in Nat
      BY <3>1 DEF TypeOK
    <3>. QED  BY <2>0, <2>1, <3>1, <3>2, <3>3 DEF SplitAdd, TypeOK, input, Batch, SizeOf
  <2>2. CASE SplitFlush
    <3>1. next \in 1 .. n /\ next + 1 \in 1 .. n + 1
      BY <2>0, <2>2 DEF SplitFlush, TypeOK
    <3>2. <<next>> \in Seq(1 .. n)
      BY <3>1
    <3>3. Append(batches, current) \in Seq(Batch)
      BY AppendAt DEF TypeOK
    <3>. QED  BY <2>0, <2>2, <3>1, <3>2, <3>3 DEF SplitFlush, TypeOK, input, Batch, SizeOf
  <2>3. CASE SplitEnd
    <3>1. Append(batches, current) \in Seq(Batch)
      BY AppendAt DEF TypeOK
    <3>2. <<>> \in Seq(1 .. n)
      BY EmptySeq
    <3>. QED  BY <2>0, <2>3, <3>1, <3>2 DEF SplitEnd, TypeOK, input, Batch, SizeOf
  <2>4. CASE WriteHeader
    <3>1. NextId \in Nat
      <4>1. CASE n = 0
        BY <4>1 DEF NextId
      <4>2. CASE n # 0
        BY <4>2, HighestIsId DEF NextId
      <4>. QED  BY <4>1, <4>2
    <3>2. NextId % IdMod \in 0 .. IdMod - 1
      BY <3>1
    <3>3. Len(batches) % CountMod \in 0 .. CountMod - 1
      <4>1. Len(batches) \in Nat
        BY DEF TypeOK
      <4>. QED  BY <4>1
    <3>4. header' \in [chunkCount : 0 .. CountMod - 1, nextId : 0 .. IdMod - 1]
      BY <2>4, <3>2, <3>3 DEF WriteHeader
    <3>. QED  BY <2>4, <3>4 DEF WriteHeader, TypeOK, input, Batch, SizeOf
  <2>5. CASE Panic \/ BuildChunk \/ Finish \/ UNCHANGED vars
    BY <2>5 DEF Panic, BuildChunk, Finish, vars, TypeOK, input, Batch, SizeOf
  <2>. QED  BY <2>1, <2>2, <2>3, <2>4, <2>5 DEF Next
<1>. QED  BY <1>1, <1>2, PTL DEF WriterSteps

(* Every variable of the split and the header keeps its type: batches are  *)
(* sequences of indices of the input, the size being tallied is a natural  *)
(* number, the header fields stay within their width.                      *)
THEOREM WriterTypeCorrect == Spec => []TypeOK
BY InputSound, PTL DEF Spec, WriterSteps

-----------------------------------------------------------------------------
(* Slices that join.                                                        *)

Chain(all, nx) ==
  /\ \A j \in 1 .. Len(all) :
       /\ all[j] # <<>>
       /\ IsSlice(all[j], IF j = 1 THEN 1 ELSE Last(all[j - 1]) + 1, Last(all[j]))
  /\ nx = IF all = <<>> THEN 1 ELSE Last(all[Len(all)]) + 1

(* A batch of one record continues a chain. *)
LEMMA ChainNew ==
  ASSUME NEW S, S \subseteq Nat, NEW all \in Seq(Seq(S)), NEW nx \in S, Chain(all, nx)
  PROVE  Chain(Append(all, <<nx>>), nx + 1)
<1> DEFINE c == <<nx>>
           more == Append(all, c)
<1>1. c \in Seq(S) /\ c # <<>> /\ Len(c) = 1 /\ c[1] = nx
  OBVIOUS
<1>3. Len(all) \in Nat /\ nx \in Nat
  OBVIOUS
<1> HIDE DEF c
<1>2. /\ Len(more) = Len(all) + 1 /\ more # <<>>
      /\ \A j \in 1 .. Len(all) : more[j] = all[j]
      /\ more[Len(all) + 1] = c
  <2> DEFINE T == Seq(S)
  <2>1. c \in T /\ all \in Seq(T)
    BY <1>1
  <2> HIDE DEF T
  <2>. QED  BY <2>1, AppendAt
<1> HIDE DEF more
<1>4. Last(c) = nx /\ IsSlice(c, nx, nx)
  BY <1>1, <1>3 DEF Last, IsSlice
<1>5. ASSUME NEW j \in 1 .. Len(more)
      PROVE  /\ more[j] # <<>>
             /\ IsSlice(more[j], IF j = 1 THEN 1 ELSE Last(more[j - 1]) + 1, Last(more[j]))
  <2>1. CASE j \in 1 .. Len(all)
    <3>1. j # 1 => more[j - 1] = all[j - 1]
      <4>1. j # 1 => j - 1 \in 1 .. Len(all)
        BY <1>3, <2>1
      <4>. QED  BY <1>2, <4>1
    <3>. QED  BY <1>2, <2>1, <3>1 DEF Chain
  <2>2. CASE j = Len(all) + 1
    <3>1. CASE all = <<>>
      <4>1. nx = 1 /\ j = 1
        BY <2>2, <3>1 DEF Chain
      <4>. QED  BY <1>1, <1>2, <1>4, <2>2, <4>1
    <3>2. CASE all # <<>>
      <4>1. Len(all) \in 1 .. Len(all) /\ j # 1 /\ j - 1 = Len(all)
        BY <2>2, <3>2
      <4>2. Last(more[j - 1]) + 1 = nx
        BY <1>2, <3>2, <4>1 DEF Chain
      <4>. QED  BY <1>1, <1>2, <1>4, <2>2, <4>1, <4>2
    <3>. QED  BY <3>1, <3>2
  <2>. QED  BY <1>2, <1>3, <2>1, <2>2
<1>6. nx + 1 = Last(more[Len(more)]) + 1
  BY <1>2, <1>4
<1>. QED  BY <1>2, <1>5, <1>6 DEF Chain, more, c

(* So does the next record put into the last batch of a chain. *)
LEMMA ChainGrow ==
  ASSUME NEW S, S \subseteq Nat, NEW all \in Seq(Seq(S)), NEW b \in Seq(S), b # <<>>,
         NEW nx \in S, Chain(Append(all, b), nx)
  PROVE  Chain(Append(all, Append(b, nx)), nx + 1)
<1> DEFINE old == Append(all, b)
           c == Append(b, nx)
           more == Append(all, c)
<1>1. /\ c \in Seq(S) /\ c # <<>> /\ Len(c) = Len(b) + 1 /\ c[Len(b) + 1] = nx
      /\ \A k \in 1 .. Len(b) : c[k] = b[k]
  BY AppendAt
<1>2. /\ Len(old) = Len(all) + 1 /\ old # <<>>
      /\ \A j \in 1 .. Len(all) : old[j] = all[j]
      /\ old[Len(all) + 1] = b
  BY AppendAt
<1>3. /\ Len(more) = Len(all) + 1 /\ more # <<>>
      /\ \A j \in 1 .. Len(all) : more[j] = all[j]
      /\ more[Len(all) + 1] = c
  BY <1>1, AppendAt
<1>4. Len(all) \in Nat /\ Len(b) \in Nat /\ nx \in Nat
  OBVIOUS
<1>5. Chain(old, nx)
  OBVIOUS
<1> HIDE DEF old, c, more
<1>6. Last(c) = nx /\ Last(b) + 1 = nx
  BY <1>1, <1>2, <1>5 DEF Last, Chain
<1>7. ASSUME NEW f \in Int, IsSlice(b, f, Last(b))
      PROVE  IsSlice(c, f, Last(c))
  <2>1. Last(b) \in Int
    <3>1. Len(b) \in 1 .. Len(b)
      BY <1>4
    <3>2. b[Len(b)] \in S
      BY <3>1, ElementOfSeq
    <3>3. b[Len(b)] \in Nat
      BY <3>2
    <3>. QED  BY <3>3 DEF Last
  <2>2. Len(b) = Last(b) - f + 1
    BY <1>7 DEF IsSlice
  <2>3. Len(c) = Last(c) - f + 1
    BY <1>1, <1>4, <1>6, <2>1, <2>2
  <2>4. ASSUME NEW k \in 1 .. Len(c) PROVE c[k] = f + k - 1
    <3>1. CASE k \in 1 .. Len(b)
      BY <1>1, <1>7, <3>1 DEF IsSlice
    <3>2. CASE k = Len(b) + 1
      BY <1>1, <1>4, <1>6, <2>1, <2>2, <3>2
    <3>. QED  BY <1>1, <1>4, <3>1, <3>2
  <2>. QED  BY <2>3, <2>4 DEF IsSlice
<1>8. ASSUME NEW j \in 1 .. Len(more)
      PROVE  /\ more[j] # <<>>
             /\ IsSlice(more[j], IF j = 1 THEN 1 ELSE Last(more[j - 1]) + 1, Last(more[j]))
  <2>1. j \in 1 .. Len(old) /\ (j # 1 => j - 1 \in 1 .. Len(all) /\ more[j - 1] = old[j - 1])
    <3>1. j \in 1 .. Len(old) /\ (j # 1 => j - 1 \in 1 .. Len(all))
      BY <1>2, <1>3, <1>4
    <3>. QED  BY <1>2, <1>3, <3>1
  <2>2. CASE j \in 1 .. Len(all)
    BY <1>2, <1>3, <1>5, <2>1, <2>2 DEF Chain
  <2>3. CASE j = Len(all) + 1
    <3> DEFINE f == IF j = 1 THEN 1 ELSE Last(more[j - 1]) + 1
    <3>1. f = IF j = 1 THEN 1 ELSE Last(old[j - 1]) + 1
      BY <2>1
    <3>2. IsSlice(b, f, Last(b))
      BY <1>2, <1>5, <2>1, <2>3, <3>1 DEF Chain
    <3>3. f \in Int
      <4>1. CASE j = 1
        BY <4>1
      <4>2. CASE j # 1
        <5>0. j - 1 \in 1 .. Len(all) /\ j - 1 \in 1 .. Len(old)
          BY <1>2, <1>4, <2>1, <4>2
        <5>1. all[j - 1] \in Seq(S) /\ all[j - 1] # <<>> /\ more[j - 1] = all[j - 1]
          <6>1. all[j - 1] \in Seq(S)
            BY <5>0, ElementOfSeq
          <6>2. old[j - 1] # <<>>
            BY <1>5, <5>0 DEF Chain
          <6>. QED  BY <1>2, <1>3, <5>0, <6>1, <6>2
        <5>2. Len(all[j - 1]) \in 1 .. Len(all[j - 1])
          BY <5>1
        <5>3. all[j - 1][Len(all[j - 1])] \in S
          BY <5>1, <5>2, ElementOfSeq
        <5>4. Last(more[j - 1]) \in Nat
          BY <5>1, <5>3 DEF Last
        <5>. QED  BY <4>2, <5>4
      <4>. QED  BY <4>1, <4>2
    <3> HIDE DEF f
    <3>4. IsSlice(c, f, Last(c))
      BY <1>7, <3>2, <3>3
    <3>. QED  BY <1>1, <1>3, <2>3, <3>4 DEF f
  <2>. QED  BY <1>3, <1>4, <2>2, <2>3
<1>9. nx + 1 = Last(more[Len(more)]) + 1
  BY <1>3, <1>6
<1>. QED  BY <1>3, <1>8, <1>9 DEF Chain, more, c

-----------------------------------------------------------------------------
(* The invariant of the split: the batches join, the size tallied is that  *)
(* of the batch being filled, and every batch fits.                        *)

All == IF current = <<>> THEN batches ELSE Append(batches, current)

SplitInv ==
  /\ Chain(All, next)
  /\ \A j \in 1 .. Len(batches) : batches[j] # <<>>
  /\ size = Extent(current, Len(current))
  /\ current # <<>> => Fits(current)
  /\ BatchesFit

LEMMA BatchTypes ==
  ASSUME TypeOK
  PROVE  /\ n \in Nat /\ 1 .. n \subseteq Nat
         /\ batches \in Seq(Seq(1 .. n)) /\ current \in Seq(1 .. n)
         /\ size \in Nat /\ next \in Nat
         /\ Len(batches) \in Nat /\ Len(current) \in Nat
<1>1. n \in Nat /\ 1 .. n \subseteq Nat
  BY WriterAssumption DEF TypeOK
<1>. QED  BY <1>1 DEF TypeOK, Batch

(* The batch being filled ends right before the next record. *)
LEMMA CurrentEnds ==
  ASSUME TypeOK, SplitInv, current # <<>>
  PROVE  /\ Len(current) \in 1 .. Len(current)
         /\ current[Len(current)] = next - 1
         /\ current[Len(current)] \in 1 .. n /\ current[1] \in 1 .. n
<1>1. All = Append(batches, current)
  BY DEF All
<1>2. Len(All) = Len(batches) + 1 /\ All[Len(batches) + 1] = current /\ All # <<>>
  BY <1>1, BatchTypes, AppendAt
<1>3. Len(current) \in 1 .. Len(current) /\ 1 \in 1 .. Len(current)
  BY BatchTypes
<1>4. current[Len(current)] \in 1 .. n /\ current[1] \in 1 .. n
  BY <1>3, BatchTypes, ElementOfSeq
<1>5. next = current[Len(current)] + 1
  BY <1>2 DEF SplitInv, Chain, Last
<1>. QED  BY <1>3, <1>4, <1>5, BatchTypes

LEMMA AddFits ==
  ASSUME TypeOK, SizesPositive, SplitInv, next <= n, ~MustFlush
  PROVE  LET c == Append(current, next)
         IN  size + SizeOf(next) = Extent(c, Len(c)) /\ Fits(c)
<1> DEFINE c == Append(current, next)
<1>1. next \in 1 .. n
  BY BatchTypes DEF TypeOK
<1>2. /\ Len(c) = Len(current) + 1 /\ c[Len(current) + 1] = next /\ Len(c) # 0
      /\ \A k \in 1 .. Len(current) : c[k] = current[k]
  BY <1>1, BatchTypes, AppendAt
<1> HIDE DEF c
<1>3. SizeOf(next) \in Nat /\ ends[next] \in Nat /\ ends[next - 1] \in Nat
  BY <1>1, SizesAreNat DEF SizesPositive
<1>4. CASE current = <<>>
  <2>1. Len(current) = 0 /\ size = 0 /\ Len(c) = 1 /\ c[1] = next
    BY <1>2, <1>4 DEF SplitInv, Extent
  <2>. QED  BY <1>3, <2>1 DEF Extent, SizeOf, Fits, c
<1>5. CASE current # <<>>
  <2>1. /\ Len(current) \in 1 .. Len(current) /\ Len(current) # 0
        /\ current[Len(current)] = next - 1 /\ current[1] \in 1 .. n
    BY <1>5, CurrentEnds
  <2>2. size = ends[next - 1] - ends[current[1] - 1]
    BY <2>1 DEF SplitInv, Extent
  <2>3. 1 \in 1 .. Len(current) /\ c[1] = current[1]
    BY <1>2, <2>1, BatchTypes
  <2>4. ends[current[1] - 1] \in Nat
    BY <2>1, SizesAreNat
  <2>5. Extent(c, Len(c)) = ends[next] - ends[current[1] - 1]
    BY <1>2, <2>3 DEF Extent
  <2>6. size + SizeOf(next) = Extent(c, Len(c))
    BY <1>3, <2>2, <2>4, <2>5 DEF SizeOf
  <2>7. size + SizeOf(next) <= Area
    <3>1. ~(size + SizeOf(next) > Area)
      BY <1>5 DEF MustFlush
    <3>. QED  BY <1>3, <3>1, BatchTypes, WriterAssumption
  <2>. QED  BY <2>6, <2>7 DEF Fits, c
<1>. QED  BY <1>4, <1>5

LEMMA SplitInvInductive ==
  ASSUME TypeOK, SizesPositive, SplitInv, [Next]_vars
  PROVE  SplitInv'
<1> USE BatchTypes
<1>1. CASE SplitAdd
  <2>1. next \in 1 .. n
    BY <1>1 DEF SplitAdd, TypeOK
  <2>2. /\ current' = Append(current, next)
        /\ batches' = batches /\ next' = next + 1 /\ ends' = ends
        /\ size' = size + SizeOf(next)
    BY <1>1 DEF SplitAdd, input
  <2>5. current' # <<>>
    <3> DEFINE c == Append(current, next)
    <3>1. Len(c) = Len(current) + 1
      BY <2>1, AppendAt
    <3> HIDE DEF c
    <3>2. Len(c) # 0
      BY <3>1
    <3>3. c # <<>>
      BY <3>2
    <3>. QED  BY <2>2, <3>3 DEF c
  <2>3. size' = Extent(current, Len(current))' /\ Fits(current)'
    <3>1. size + SizeOf(next) = Extent(Append(current, next), Len(Append(current, next)))
          /\ Fits(Append(current, next))
      BY <1>1, AddFits DEF SplitAdd
    <3>. QED  BY <2>2, <3>1 DEF Extent, Fits
  <2>4. Chain(All, next)'
    <3>1. All' = Append(batches, Append(current, next))
      BY <2>2, <2>5 DEF All
    <3>2. Chain(Append(batches, Append(current, next)), next + 1)
      <4>1. CASE current = <<>>
        <5>1. Append(current, next) = <<next>>
          BY <4>1
        <5>. QED  BY <2>1, <4>1, <5>1, ChainNew DEF SplitInv, All
      <4>2. CASE current # <<>>
        BY <2>1, <4>2, ChainGrow DEF SplitInv, All
      <4>. QED  BY <4>1, <4>2
    <3>. QED  BY <2>2, <3>1, <3>2
  <2>. QED  BY <2>2, <2>3, <2>4 DEF SplitInv, BatchesFit, Fits, Extent
<1>2. CASE SplitFlush
  <2>1. next \in 1 .. n
    BY <1>2 DEF SplitFlush, TypeOK
  <2>2. /\ current # <<>> /\ batches' = Append(batches, current)
        /\ current' = <<next>> /\ current' # <<>> /\ Len(current') = 1 /\ current'[1] = next
        /\ next' = next + 1 /\ ends' = ends /\ size' = SizeOf(next)
    BY <1>2 DEF SplitFlush, input, MustFlush
  <2>3. size' = Extent(current, Len(current))' /\ Fits(current)'
    BY <2>2 DEF Extent, Fits, SizeOf
  <2>4. /\ Len(batches') = Len(batches) + 1 /\ batches'[Len(batches) + 1] = current
        /\ \A j \in 1 .. Len(batches) : batches'[j] = batches[j]
        /\ batches' \in Seq(Seq(1 .. n))
    BY <2>2, AppendAt
  <2>5. Chain(All, next)'
    <3>1. Chain(batches', next)
      BY <2>2 DEF SplitInv, All
    <3>2. Chain(Append(batches', <<next>>), next + 1)
      BY <2>1, <2>4, <3>1, ChainNew
    <3>3. All' = Append(batches', <<next>>)
      BY <2>2 DEF All
    <3>. QED  BY <2>2, <3>2, <3>3
  <2>6. \A j \in 1 .. Len(batches') : batches'[j] # <<>> /\ Fits(batches[j])'
    <3>1. \A j \in 1 .. Len(batches) : batches[j] # <<>> /\ Fits(batches[j])
      BY DEF SplitInv, BatchesFit
    <3>2. Fits(current)
      BY <2>2 DEF SplitInv
    <3>3. \A j \in 1 .. Len(batches') : j \in 1 .. Len(batches) \/ j = Len(batches) + 1
      BY <2>4
    <3>. QED  BY <2>2, <2>4, <3>1, <3>2, <3>3 DEF Fits, Extent
  <2>. QED  BY <2>2, <2>3, <2>5, <2>6 DEF SplitInv, BatchesFit
<1>3. CASE SplitEnd
  <2>1. batches' = All /\ current' = <<>> /\ size' = 0 /\ next' = next /\ ends' = ends
    BY <1>3 DEF SplitEnd, All, input
  <2>2. All' = All
    BY <2>1 DEF All
  <2>3. \A j \in 1 .. Len(All) : All[j] # <<>> /\ Fits(All[j])
    <3>1. CASE current = <<>>
      BY <3>1 DEF All, SplitInv, BatchesFit
    <3>2. CASE current # <<>>
      <4>1. /\ Len(All) = Len(batches) + 1 /\ All[Len(batches) + 1] = current
            /\ \A j \in 1 .. Len(batches) : All[j] = batches[j]
        BY <3>2, AppendAt DEF All
      <4>2. \A j \in 1 .. Len(All) : j \in 1 .. Len(batches) \/ j = Len(batches) + 1
        BY <4>1
      <4>. QED  BY <3>2, <4>1, <4>2 DEF SplitInv, BatchesFit
    <3>. QED  BY <3>1, <3>2
  <2>4. Chain(All, next)'
    BY <2>1, <2>2 DEF SplitInv, Chain, IsSlice, Last
  <2>5. Len(current') = 0
    BY <2>1
  <2>. QED  BY <2>1, <2>3, <2>4, <2>5 DEF SplitInv, BatchesFit, Fits, Extent
<1>4. CASE WriteHeader \/ Panic \/ BuildChunk \/ Finish \/ UNCHANGED vars
  <2>1. UNCHANGED <<batches, current, next, size, ends>>
    BY <1>4 DEF WriteHeader, Panic, BuildChunk, Finish, vars, input
  <2>. QED  BY <2>1, ZenonT(40) DEF SplitInv, All, Chain, IsSlice, Last, BatchesFit, Fits, Extent
<1>. QED  BY <1>1, <1>2, <1>3, <1>4 DEF Next

LEMMA SplitInvariant == WriterSteps => [](TypeOK /\ SizesPositive /\ SplitInv)
<1>1. Init => SplitInv
  <2> SUFFICES ASSUME Init PROVE SplitInv
    OBVIOUS
  <2>1. batches = <<>> /\ current = <<>> /\ next = 1 /\ size = 0
    BY DEF Init
  <2>. QED  BY <2>1 DEF SplitInv, All, Chain, BatchesFit, Extent
<1>2. TypeOK /\ SizesPositive /\ SplitInv /\ [Next]_vars => SplitInv'
  BY SplitInvInductive
<1>. QED  BY <1>1, <1>2, InputSound, PTL DEF WriterSteps

(* The batches and the one being filled are non-empty slices of the input  *)
(* that join without gap: the split loses, repeats and moves no record,    *)
(* whatever the sizes.                                                     *)
THEOREM SplitJoins == Spec => []SlicesJoin
<1>1. SplitInv => SlicesJoin
  BY DEF SplitInv, SlicesJoin, Chain, All
<1>. QED  BY <1>1, SplitInvariant, PTL DEF Spec, WriterSteps

(* A batch exceeds the records area only if it is a single record.         *)
THEOREM BatchesFitArea == Spec => []BatchesFit
<1>1. SplitInv => BatchesFit
  BY DEF SplitInv
<1>. QED  BY <1>1, SplitInvariant, PTL DEF Spec, WriterSteps

-----------------------------------------------------------------------------
(* What is written.                                                         *)

(* A batch, read off the chain: a slice of the input that fits an area. *)
Whole(b) ==
  /\ b \in Seq(1 .. n)
  /\ Len(b) \in Nat \ {0}
  /\ \A k \in 1 .. Len(b) : b[k] \in 1 .. n /\ b[k] = b[1] + k - 1
  /\ Extent(b, Len(b)) <= Area

LEMMA BatchesAreWhole ==
  ASSUME TypeOK, SizesPositive, SplitInv, AllFit, NEW j \in 1 .. Len(batches)
  PROVE  Whole(batches[j])
<1> DEFINE b == batches[j]
<1>1. /\ b \in Seq(1 .. n) /\ b # <<>> /\ Fits(b)
      /\ \A i \in 1 .. Len(batches) : batches[i] \in Seq(1 .. n) /\ batches[i] # <<>>
  BY BatchTypes, ElementOfSeq DEF SplitInv, BatchesFit
<1>2. PICK f \in Int : \A k \in 1 .. Len(b) : b[k] = f + k - 1
  <2>1. j \in 1 .. Len(All) /\ \A i \in 1 .. Len(batches) : All[i] = batches[i]
    <3>1. CASE current = <<>>
      BY <3>1 DEF All
    <3>2. CASE current # <<>>
      <4>1. /\ Len(All) = Len(batches) + 1
            /\ \A i \in 1 .. Len(batches) : All[i] = batches[i]
        BY <3>2, BatchTypes, AppendAt DEF All
      <4>. QED  BY <4>1, BatchTypes
    <3>. QED  BY <3>1, <3>2
  <2> DEFINE f == IF j = 1 THEN 1 ELSE Last(All[j - 1]) + 1
  <2>2. f \in Int
    <3>1. CASE j # 1
      <4>1. j - 1 \in 1 .. Len(batches)
        BY <3>1, BatchTypes
      <4> DEFINE p == batches[j - 1]
      <4>2. p \in Seq(1 .. n) /\ p # <<>> /\ All[j - 1] = p
        BY <1>1, <2>1, <4>1
      <4> HIDE DEF p
      <4>3. Len(p) \in 1 .. Len(p)
        BY <4>2
      <4>4. p[Len(p)] \in 1 .. n
        BY <4>2, <4>3, ElementOfSeq
      <4>. QED  BY <3>1, <4>2, <4>4 DEF Last
    <3>. QED  BY <3>1
  <2>3. IsSlice(b, f, Last(b))
    BY <2>1 DEF SplitInv, Chain
  <2> HIDE DEF f
  <2>. QED  BY <2>2, <2>3 DEF IsSlice
<1> HIDE DEF b
<1>3. Len(b) \in Nat \ {0}
  BY <1>1
<1>4. \A k \in 1 .. Len(b) : b[k] \in 1 .. n
  BY <1>1, ElementOfSeq
<1>5. 1 \in 1 .. Len(b) /\ Len(b) \in 1 .. Len(b)
  BY <1>3
<1>6. ASSUME NEW k \in 1 .. Len(b) PROVE b[k] = b[1] + k - 1
  BY <1>2, <1>5
<1>7. Extent(b, Len(b)) <= Area
  <2>1. CASE Len(b) = 1
    <3>1. Extent(b, 1) = SizeOf(b[1])
      BY DEF Extent, SizeOf
    <3>. QED  BY <1>4, <1>5, <2>1, <3>1 DEF AllFit
  <2>. QED  BY <1>1, <2>1 DEF Fits
<1>. QED  BY <1>1, <1>3, <1>4, <1>6, <1>7 DEF Whole, b

(* Totals of sizes never fall. *)
LEMMA EndsGrow ==
  ASSUME TypeOK, SizesPositive, NEW r \in 0 .. n, NEW s \in 0 .. n, r <= s
  PROVE  ends[r] <= ends[s]
<1>1. n \in Nat /\ ends \in [0 .. n -> Int]
  BY BatchTypes DEF TypeOK
<1>2. \A q \in 1 .. n : ends[q - 1] <= ends[q]
  BY SizesAreNat DEF SizesPositive, SizeOf
<1>. QED  BY <1>1, <1>2, Monotone

(* build_chunk places all records of a batch that fits. *)
LEMMA AllPlaced ==
  ASSUME TypeOK, SizesPositive, NEW b, Whole(b)
  PROVE  Placed(b) = Len(b)
<1>1. /\ Len(b) \in Nat \ {0} /\ 1 \in 1 .. Len(b) /\ Len(b) \in 1 .. Len(b)
      /\ Area \in Nat
  BY WriterAssumption DEF Whole
<1>0. n \in Nat
  BY BatchTypes
<1>2. ASSUME NEW m \in 0 .. Len(b), m < Len(b) PROVE ~(Extent(b, m + 1) > Area)
  <2>1. m + 1 \in 1 .. Len(b) /\ m + 1 # 0 /\ Len(b) # 0
    BY <1>1, <1>2
  <2>2. b[m + 1] \in 0 .. n /\ b[Len(b)] \in 0 .. n /\ b[m + 1] <= b[Len(b)]
    <3>1. /\ b[1] \in 1 .. n /\ b[m + 1] \in 1 .. n /\ b[Len(b)] \in 1 .. n
          /\ b[m + 1] = b[1] + (m + 1) - 1 /\ b[Len(b)] = b[1] + Len(b) - 1
      BY <1>1, <2>1 DEF Whole
    <3>. QED  BY <1>0, <1>1, <1>2, <3>1
  <2>3. ends[b[m + 1]] <= ends[b[Len(b)]]
    BY <2>2, EndsGrow
  <2>4. ends[b[m + 1]] \in Nat /\ ends[b[Len(b)]] \in Nat
    BY <2>2 DEF TypeOK
  <2>5. ends[b[1] - 1] \in Nat
    BY <1>1, SizesAreNat DEF Whole
  <2>6. ends[b[Len(b)]] - ends[b[1] - 1] <= Area
    BY <2>1 DEF Whole, Extent
  <2>7. Extent(b, m + 1) = ends[b[m + 1]] - ends[b[1] - 1]
    BY <2>1 DEF Extent
  <2>. QED  BY <1>1, <2>3, <2>4, <2>5, <2>6, <2>7
<1> DEFINE Stops(m) == /\ Extent(b, m) <= Area
                       /\ m < Len(b) => Extent(b, m + 1) > Area
<1>3. Len(b) \in 0 .. Len(b) /\ Stops(Len(b))
  BY <1>1 DEF Whole
<1>4. \A m \in 0 .. Len(b) : Stops(m) => m = Len(b)
  BY <1>1, <1>2
<1>5. Placed(b) = CHOOSE m \in 0 .. Len(b) : Stops(m)
  BY DEF Placed
<1> HIDE DEF Stops
<1>. QED  BY <1>3, <1>4, <1>5

ChunkFields == [recs : Seq(1 .. n), firstNum : Nat, lastNum : Nat,
                firstId : Nat, lastId : Nat, lastOff : Nat, free : Nat]

Describes(c, b) ==
  /\ c.recs = b
  /\ c.free = ends[Last(b)] - ends[b[1] - 1]
  /\ c.lastOff = c.free - SizeOf(Last(b))
  /\ c.firstId = id[b[1]] /\ c.lastId = id[Last(b)]

LEMMA ChunkDescribesBatch ==
  ASSUME TypeOK, SizesPositive, NEW b, Whole(b), NEW k \in Nat
  PROVE  ChunkOf(b, k) \in ChunkFields /\ Describes(ChunkOf(b, k), b)
<1> DEFINE m == Len(b)
<1>1. m \in Nat \ {0} /\ 1 \in 1 .. m /\ m \in 1 .. m /\ b \in Seq(1 .. n)
  BY DEF Whole
<1>0. n \in Nat
  BY BatchTypes
<1>2. b[1] \in 1 .. n /\ b[m] \in 1 .. n /\ b[m] = b[1] + m - 1
  BY <1>1 DEF Whole
<1>3. SubSeq(b, 1, m) = b
  BY <1>1
<1> DEFINE c == [recs     |-> b,
                 firstNum |-> k * m + 1,
                 lastNum  |-> k * m + m,
                 firstId  |-> id[b[1]],
                 lastId   |-> id[b[m]],
                 lastOff  |-> Extent(b, m - 1),
                 free     |-> Extent(b, m)]
<1>4. ChunkOf(b, k) = c
  <2>1. Placed(b) = m
    BY AllPlaced
  <2>2. m # 0
    BY <1>1
  <2>. QED  BY <1>3, <2>1, <2>2 DEF ChunkOf
<1>5. /\ id[b[1]] \in Nat /\ id[b[m]] \in Nat
      /\ ends[b[m]] \in Nat /\ ends[b[m] - 1] \in Nat /\ ends[b[1] - 1] \in Nat
  <2>1. \A r \in 1 .. n : id[r] \in 0 .. IdMod - 1
    BY DEF TypeOK
  <2>2. id[b[1]] \in Nat /\ id[b[m]] \in Nat
    BY <1>2, <2>1, WriterAssumption
  <2>. QED  BY <1>2, <2>2, SizesAreNat
<1>6. Extent(b, m) = ends[b[m]] - ends[b[1] - 1]
  BY <1>1 DEF Extent
<1>7. Extent(b, m - 1) = ends[b[m] - 1] - ends[b[1] - 1]
  <2>1. CASE m = 1
    <3>1. b[m] = b[1]
      BY <2>1
    <3>. QED  BY <1>5, <2>1, <3>1 DEF Extent
  <2>2. CASE m # 1
    <3>1. m - 1 \in 1 .. m /\ m - 1 # 0
      <4>1. m \in Nat \ {0}
        BY <1>1
      <4> HIDE DEF m
      <4>. QED  BY <2>2, <4>1
    <3>2. b[m - 1] = b[1] + (m - 1) - 1
      BY <3>1 DEF Whole
    <3>3. b[m - 1] = b[m] - 1
      <4>1. m \in Nat
        BY <1>1
      <4>2. b[1] \in Nat /\ b[m] = b[1] + m - 1
        BY <1>0, <1>2
      <4> HIDE DEF m
      <4>. QED  BY <3>2, <4>1, <4>2
    <3>. QED  BY <3>1, <3>3 DEF Extent
  <2>. QED  BY <2>1, <2>2
<1>8. ends[b[1] - 1] <= ends[b[m] - 1] /\ ends[b[1] - 1] <= ends[b[m]]
  <2>1. /\ b[1] - 1 \in 0 .. n /\ b[m] - 1 \in 0 .. n /\ b[m] \in 0 .. n
        /\ b[1] - 1 <= b[m] - 1 /\ b[1] - 1 <= b[m]
    <3> HIDE DEF m
    <3>. QED  BY <1>0, <1>1, <1>2, SMTT(20)
  <2>. QED  BY <2>1, EndsGrow
<1>9. Extent(b, m) \in Nat /\ Extent(b, m - 1) \in Nat
  BY <1>5, <1>6, <1>7, <1>8
<1>10. k * m + 1 \in Nat /\ k * m + m \in Nat
  BY <1>1
<1>11. c \in ChunkFields
  BY <1>1, <1>5, <1>9, <1>10 DEF ChunkFields
<1>12. Describes(c, b)
  BY <1>5, <1>6, <1>7 DEF Describes, Last, SizeOf
<1>. QED  BY <1>4, <1>11, <1>12

OutInv ==
  AllFit =>
    /\ phase \in {"split", "header"} => out = <<>>
    /\ Len(out) <= Len(batches)
    /\ out \in Seq(ChunkFields)
    /\ \A j \in 1 .. Len(out) : Describes(out[j], batches[j])

LEMMA OutInvInductive ==
  ASSUME TypeOK, SizesPositive, SplitInv, OutInv, [Next]_vars
  PROVE  OutInv'
<1>0. n' = n /\ ends' = ends /\ id' = id
  BY DEF Next, SplitAdd, SplitFlush, SplitEnd, WriteHeader, Panic, BuildChunk, Finish, input, vars
<1>1. AllFit' = AllFit
  BY <1>0 DEF AllFit, SizeOf
<1> SUFFICES ASSUME AllFit
             PROVE  /\ phase' \in {"split", "header"} => out' = <<>>
                    /\ Len(out') <= Len(batches')
                    /\ out' \in Seq(ChunkFields)
                    /\ \A j \in 1 .. Len(out') : Describes(out'[j], batches'[j])
  BY <1>0, <1>1 DEF OutInv, ChunkFields, Describes, SizeOf, Last
<1>2. CASE SplitAdd \/ SplitFlush \/ SplitEnd
  <2>1. out' = <<>>
    BY <1>2 DEF SplitAdd, SplitFlush, SplitEnd, OutInv
  <2>2. Len(batches') \in Nat
    <3>1. CASE batches' = batches
      BY <3>1, BatchTypes
    <3>2. CASE batches' = Append(batches, current)
      BY <3>2, BatchTypes, AppendAt
    <3>. QED  BY <1>2, <3>1, <3>2 DEF SplitAdd, SplitFlush, SplitEnd
  <2>3. Len(out') = 0
    BY <2>1
  <2>. QED  BY <2>1, <2>2, <2>3, EmptySeq
<1>3. CASE BuildChunk
  <2> DEFINE c == ChunkOf(batches[Len(out) + 1], Len(out))
  <2>1. /\ phase' = "build" /\ out' = Append(out, c) /\ Len(out) < Len(batches)
        /\ batches' = batches
    BY <1>3 DEF BuildChunk, input
  <2>2. Len(out) \in Nat /\ out \in Seq(ChunkFields) /\ Len(out) + 1 \in 1 .. Len(batches)
    BY <2>1, BatchTypes DEF OutInv
  <2>3. c \in ChunkFields /\ Describes(c, batches[Len(out) + 1])
    BY <2>2, BatchesAreWhole, ChunkDescribesBatch
  <2> HIDE DEF c
  <2>4. /\ out' \in Seq(ChunkFields) /\ Len(out') = Len(out) + 1
        /\ \A j \in 1 .. Len(out) : out'[j] = out[j]
        /\ out'[Len(out) + 1] = c
    BY <2>1, <2>2, <2>3, AppendAt
  <2>5. ASSUME NEW j \in 1 .. Len(out') PROVE Describes(out'[j], batches'[j])
    <3>1. CASE j \in 1 .. Len(out)
      BY <2>1, <2>4, <3>1 DEF OutInv
    <3>2. CASE j = Len(out) + 1
      BY <2>1, <2>3, <2>4, <3>2
    <3>. QED  BY <2>2, <2>4, <3>1, <3>2
  <2>. QED  BY <2>1, <2>2, <2>4, <2>5, BatchTypes
<1>4. CASE WriteHeader \/ Panic \/ Finish \/ UNCHANGED vars
  <2>1. UNCHANGED <<out, batches>> /\ (phase' \in {"split", "header"} => phase' = phase)
    BY <1>4 DEF WriteHeader, Panic, Finish, vars
  <2>. QED  BY <2>1 DEF OutInv
<1>. QED  BY <1>2, <1>3, <1>4 DEF Next

LEMMA OutInvariant == WriterSteps => [](TypeOK /\ SizesPositive /\ SplitInv /\ OutInv)
<1>1. Init => OutInv
  <2> SUFFICES ASSUME Init PROVE OutInv
    OBVIOUS
  <2>1. out = <<>> /\ batches = <<>>
    BY DEF Init
  <2>2. Len(out) = 0 /\ Len(batches) = 0
    BY <2>1
  <2>. QED  BY <2>1, <2>2, EmptySeq DEF OutInv
<1>2. TypeOK /\ SizesPositive /\ SplitInv /\ OutInv /\ [Next]_vars => OutInv'
  BY OutInvInductive
<1>. QED  BY <1>1, <1>2, SplitInvariant, PTL DEF WriterSteps

(* If every record fits a chunk, no chunk that is written drops a record   *)
(* of its batch: build_chunk's check for overflow never fires behind       *)
(* split_into_chunks, and the header describes what was placed.            *)
THEOREM WriterDropsNothing == Spec => []NothingDropped
<1>1. OutInv => NothingDropped
  BY DEF OutInv, NothingDropped, AllFit, Describes
<1>. QED  BY <1>1, OutInvariant, PTL DEF Spec, WriterSteps

-----------------------------------------------------------------------------
(* The file read back. *)

\* What a chunk is made of, whatever was placed in it.
Chunks == { ChunkOf(b, k) : b \in Batch, k \in Nat }

\* The file when it is written, and the header in front of it.
FileInv ==
  /\ out \in Seq(Chunks)
  /\ phase \in {"header", "build", "done"} => current = <<>> /\ next = n + 1
  /\ phase \in {"build", "done"} =>
       header = [chunkCount |-> Len(batches) % CountMod, nextId |-> NextId % IdMod]
  /\ phase = "done" => Len(out) = Len(batches)

\* The cross checks are made once, of the file that was written.
VerifyInv ==
  /\ phase # "done" => ReadInit
  /\ verified => alarms = { <<a, 0>> : a \in HeaderAlarms } \cup GapAlarms

\* Where the records of batch j begin in the input, and how many are before.
Passed(j) == IF j = 0 THEN 0 ELSE Last(batches[j])

\* What the walk has found in the chunk being read: the first records of its
\* batch; and the cursor is behind them, at the next while one is left.
WalkInv ==
  /\ chunkNo \in 0 .. Len(out)
  /\ mode = "strict" /\ len = Area /\ done \in BOOLEAN /\ pos \in Nat
  /\ reread \in Seq(Walk!Records) /\ recs \in Seq(Walk!Records)
  /\ \A k \in 1 .. Len(reread) : reread[k].size = SizeOf(k) /\ reread[k].mark = "Valid"
  /\ done => Len(reread) = Passed(chunkNo)
  /\ ~done =>
       /\ chunkNo # 0
       /\ Len(reread) = Passed(chunkNo - 1)
       /\ claim \in Regions(out[chunkNo])
       /\ Len(recs) <= Len(batches[chunkNo])
       /\ \A k \in 1 .. Len(recs) : recs[k].size = SizeOf(batches[chunkNo][k]) /\ recs[k].mark = "Valid"
       /\ Len(recs) < Len(batches[chunkNo]) => pos = Extent(batches[chunkNo], Len(recs))
       /\ Len(recs) = Len(batches[chunkNo]) => pos >= Extent(batches[chunkNo], Len(recs))
  /\ verified => done /\ chunkNo = Len(out)

ReadInv == AllFit => WalkInv

-----------------------------------------------------------------------------
(* The header of the file. *)

(* The loop that lays out a chunk stops somewhere, if only at the end.     *)
LEMMA PlacedExists ==
  ASSUME TypeOK, NEW b \in Batch
  PROVE  Placed(b) \in 0 .. Len(b)
<1> DEFINE S == { m \in 0 .. Len(b) : Extent(b, m) <= Area }
<1>1. Len(b) \in Nat /\ b \in Seq(1 .. n) /\ Area \in Nat
  BY WriterAssumption DEF Batch
<1>2. PICK m \in S : \A q \in S : q <= m
  <2>1. 0 \in S
    BY <1>1 DEF Extent
  <2>2. S \subseteq 0 .. Len(b)
    OBVIOUS
  <2>. HIDE DEF S
  <2>. QED  BY <1>1, <2>1, <2>2, GreatestNat
<1>3. m \in 0 .. Len(b) /\ Extent(b, m) <= Area
  OBVIOUS
<1>4. ASSUME m < Len(b) PROVE Extent(b, m + 1) > Area
  <2>1. m + 1 \in 1 .. Len(b) /\ 1 \in 1 .. Len(b) /\ m + 1 # 0
    BY <1>1, <1>3, <1>4
  <2>2. b[m + 1] \in 1 .. n /\ b[1] \in 1 .. n
    BY <1>1, <2>1, ElementOfSeq
  <2>3. ends[b[m + 1]] \in Nat /\ ends[b[1] - 1] \in Nat
    BY <2>2, SizesAreNat
  <2>4. Extent(b, m + 1) \in Int
    BY <2>1, <2>3 DEF Extent
  <2>5. m + 1 \notin S
    BY <1>2, <1>3
  <2>. QED  BY <1>1, <2>1, <2>4, <2>5
<1>. QED  BY <1>3, <1>4 DEF Placed

(* The last id a chunk header bears is an id of the input, or none. *)
LEMMA LastIdIs ==
  ASSUME TypeOK, NEW c \in Chunks
  PROVE  c.lastId = 0 \/ \E r \in 1 .. n : c.lastId = id[r]
<1>1. PICK b \in Batch, k \in Nat : c = ChunkOf(b, k)
  BY DEF Chunks
<1>2. Placed(b) \in 0 .. Len(b) /\ Len(b) \in Nat
  BY PlacedExists DEF Batch
<1>3. c.lastId = IF Placed(b) = 0 THEN 0 ELSE id[b[Placed(b)]]
  BY <1>1 DEF ChunkOf
<1>4. ASSUME Placed(b) # 0 PROVE b[Placed(b)] \in 1 .. n
  <2>1. Placed(b) \in 1 .. Len(b)
    BY <1>2, <1>4
  <2>. QED  BY <2>1, ElementOfSeq DEF Batch
<1>. QED  BY <1>3, <1>4

(* So is the highest of them. *)
LEMMA HighestLastIs ==
  ASSUME TypeOK, out \in Seq(Chunks)
  PROVE  HighestLastId = 0 \/ \E r \in 1 .. n : HighestLastId = id[r]
<1> DEFINE T == { out[j].lastId : j \in 1 .. Len(out) }
<1>1. \A j \in 1 .. Len(out) : out[j].lastId = 0 \/ \E r \in 1 .. n : out[j].lastId = id[r]
  BY ElementOfSeq, LastIdIs
<1>2. CASE out = <<>>
  BY <1>2 DEF HighestLastId
<1>3. CASE out # <<>>
  <2>1. Len(out) \in Nat /\ 1 \in 1 .. Len(out) /\ IdMod - 1 \in Nat
    BY <1>3, WriterAssumption
  <2>2. T \subseteq 0 .. IdMod - 1
    <3> SUFFICES ASSUME NEW j \in 1 .. Len(out) PROVE out[j].lastId \in 0 .. IdMod - 1
      OBVIOUS
    <3>1. \A r \in 1 .. n : id[r] \in 0 .. IdMod - 1
      BY DEF TypeOK
    <3>2. 0 \in 0 .. IdMod - 1
      BY <2>1
    <3>. QED  BY <1>1, <3>1, <3>2
  <2>3. T # {}
    BY <2>1
  <2>4. PICK x \in T : \A y \in T : y <= x
    <3>. HIDE DEF T
    <3>. QED  BY <2>1, <2>2, <2>3, GreatestNat
  <2>5. \E y \in T : \A j \in 1 .. Len(out) : out[j].lastId <= y
    BY <2>4
  <2>6. HighestLastId \in T
    BY <1>3, <2>5 DEF HighestLastId
  <2>. QED  BY <1>1, <2>6
<1>. QED  BY <1>2, <1>3

LEMMA FileInvInductive ==
  ASSUME TypeOK, SplitInv, FileInv, [Next]_vars
  PROVE  FileInv'
<1>0. n' = n /\ ends' = ends /\ id' = id
  BY DEF Next, SplitAdd, SplitFlush, SplitEnd, WriteHeader, Panic, BuildChunk, Finish, input, vars
<1>1. Chunks' = Chunks /\ NextId' = NextId
  <2>1. \A b, k : ChunkOf(b, k)' = ChunkOf(b, k)
    BY <1>0 DEF ChunkOf, Placed, Extent
  <2>2. Batch' = Batch
    BY <1>0 DEF Batch
  <2>3. Chunks' = Chunks
    BY <2>1, <2>2 DEF Chunks
  <2>4. NextId' = NextId
    BY <1>0 DEF NextId, HighestId, Ids
  <2>. QED  BY <2>3, <2>4
<1>2. CASE SplitAdd \/ SplitFlush \/ SplitEnd
  <2>1. out' = out /\ header' = header /\ phase' \in {"split", "header"}
    BY <1>2 DEF SplitAdd, SplitFlush, SplitEnd
  <2>2. ASSUME SplitEnd PROVE current' = <<>> /\ next' = n' + 1
    <3>1. next > n /\ next' = next /\ current' = <<>>
      BY <2>2 DEF SplitEnd
    <3>2. next \in 1 .. n + 1 /\ n \in Nat
      BY BatchTypes DEF TypeOK
    <3>. QED  BY <1>0, <3>1, <3>2
  <2>3. phase' = "header" => SplitEnd
    BY <1>2 DEF SplitAdd, SplitFlush
  <2>. QED  BY <1>1, <2>1, <2>2, <2>3 DEF FileInv
<1>3. CASE WriteHeader
  <2>1. /\ phase = "header" /\ phase' = "build" /\ batches' = batches /\ out' = out
        /\ header' = [chunkCount |-> Len(batches) % CountMod, nextId |-> NextId % IdMod]
        /\ current' = current /\ next' = next
    BY <1>3 DEF WriteHeader
  <2>. QED  BY <1>0, <1>1, <2>1 DEF FileInv
<1>4. CASE BuildChunk
  <2>1. /\ phase = "build" /\ phase' = "build" /\ batches' = batches /\ header' = header
        /\ out' = Append(out, ChunkOf(batches[Len(out) + 1], Len(out)))
        /\ current' = current /\ next' = next /\ Len(out) < Len(batches)
    BY <1>4 DEF BuildChunk
  <2>2. Len(out) \in Nat /\ Len(batches) \in Nat /\ out \in Seq(Chunks) /\ batches \in Seq(Batch)
    BY BatchTypes DEF FileInv, TypeOK
  <2>3. Len(out) + 1 \in 1 .. Len(batches)
    BY <2>1, <2>2
  <2>4. ChunkOf(batches[Len(out) + 1], Len(out)) \in Chunks
    BY <2>2, <2>3, ElementOfSeq DEF Chunks
  <2>5. out' \in Seq(Chunks)
    BY <2>1, <2>2, <2>4, AppendAt
  <2>. QED  BY <1>0, <1>1, <2>1, <2>5 DEF FileInv
<1>5. CASE Finish
  <2>1. /\ phase = "build" /\ phase' = "done" /\ batches' = batches /\ header' = header
        /\ out' = out /\ current' = current /\ next' = next /\ Len(out) = Len(batches)
    BY <1>5 DEF Finish
  <2>. QED  BY <1>0, <1>1, <2>1 DEF FileInv
<1>6. CASE Panic
  <2>1. phase' = "panicked" /\ out' = out
    BY <1>6 DEF Panic
  <2>. QED  BY <1>1, <2>1 DEF FileInv
<1>7. CASE UNCHANGED vars
  <2>1. /\ phase' = phase /\ batches' = batches /\ header' = header
        /\ out' = out /\ current' = current /\ next' = next
    BY <1>7 DEF vars
  <2>. QED  BY <1>0, <1>1, <2>1 DEF FileInv
<1>. QED  BY <1>2, <1>3, <1>4, <1>5, <1>6, <1>7 DEF Next

LEMMA FileInvariant == WriterSteps => [](TypeOK /\ SizesPositive /\ SplitInv /\ OutInv /\ FileInv)
<1>1. Init => FileInv
  <2> SUFFICES ASSUME Init PROVE FileInv
    OBVIOUS
  <2>1. out = <<>> /\ phase = "split"
    BY DEF Init
  <2>2. out \in Seq(Chunks)
    BY <2>1, EmptySeq
  <2>. QED  BY <2>1, <2>2 DEF FileInv
<1>2. TypeOK /\ SplitInv /\ FileInv /\ [Next]_vars => FileInv'
  BY FileInvInductive
<1>. QED  BY <1>1, <1>2, OutInvariant, PTL DEF WriterSteps

(* Reading the file does not touch what was written. *)
LEMMA RebuildWrites == RebuildSpec => WriterSteps
<1>1. [RebuildNext]_<<vars, readVars>> => [Next]_vars
  BY DEF RebuildNext, Write, BeginChunk, WalkChunk, CrossCheck
<1>. QED  BY <1>1, PTL DEF RebuildSpec, WriterSteps

\* What the writer guarantees at every moment.
Written == TypeOK /\ SizesPositive /\ SplitInv /\ OutInv /\ FileInv

LEMMA RebuildWritten == RebuildSpec => []Written
BY RebuildWrites, FileInvariant, PTL DEF Written

(* While the file is written nothing of it is read. *)
LEMMA WriteOnly ==
  ASSUME [RebuildNext]_<<vars, readVars>>, phase # "done"
  PROVE  UNCHANGED readVars
BY DEF RebuildNext, Write, BeginChunk, WalkChunk, CrossCheck, Reading

(* and what is read was written before.                                    *)
LEMMA ReadOnly ==
  ASSUME [RebuildNext]_<<vars, readVars>>, phase = "done"
  PROVE  UNCHANGED vars
<1>1. ~Next
  BY DEF Next, SplitAdd, SplitFlush, SplitEnd, WriteHeader, Panic, BuildChunk, Finish
<1>. QED  BY <1>1 DEF RebuildNext, Write, BeginChunk, WalkChunk, CrossCheck

LEMMA VerifyInvariant == RebuildSpec => []VerifyInv
<1>1. Init /\ ReadInit => VerifyInv
  BY DEF Init, ReadInit, VerifyInv
<1>2. VerifyInv /\ [RebuildNext]_<<vars, readVars>> => VerifyInv'
  <2> SUFFICES ASSUME VerifyInv, [RebuildNext]_<<vars, readVars>> PROVE VerifyInv'
    OBVIOUS
  <2>1. CASE phase # "done"
    <3>1. UNCHANGED readVars
      BY <2>1, WriteOnly
    <3>2. ReadInit /\ ~verified
      BY <2>1 DEF VerifyInv, ReadInit
    <3>. QED  BY <3>1, <3>2 DEF VerifyInv, ReadInit, readVars
  <2>2. CASE phase = "done"
    <3>1. UNCHANGED vars
      BY <2>2, ReadOnly
    <3>2. phase' = "done" /\ HeaderAlarms' = HeaderAlarms /\ GapAlarms' = GapAlarms
      BY <2>2, <3>1 DEF vars, HeaderAlarms, GapAlarms, HighestLastId
    <3>3. verified' => alarms' = { <<a, 0>> : a \in HeaderAlarms } \cup GapAlarms
      <4>1. CASE CrossCheck
        BY <4>1 DEF CrossCheck
      <4>2. CASE BeginChunk \/ WalkChunk
        BY <4>2 DEF BeginChunk, WalkChunk, Reading
      <4>3. CASE UNCHANGED readVars
        BY <4>3 DEF VerifyInv, readVars
      <4>4. ~Next
        BY <2>2 DEF Next, SplitAdd, SplitFlush, SplitEnd, WriteHeader, Panic, BuildChunk, Finish
      <4>. QED  BY <4>1, <4>2, <4>3 DEF RebuildNext, Write
    <3>. QED  BY <3>2, <3>3 DEF VerifyInv
  <2>. QED  BY <2>1, <2>2
<1>. QED  BY <1>1, <1>2, PTL DEF RebuildSpec

(* A file that records_to_evtx has written does not alarm the checks of    *)
(* its own header: the next id is above the last id of every chunk, and    *)
(* the chunks are as many as the header says, while the fields hold them.  *)
THEOREM HeaderIsHonest == RebuildSpec => []HeaderHonest
<1>1. Written /\ VerifyInv => HeaderHonest
  <2> SUFFICES ASSUME Written, VerifyInv, verified
               PROVE  /\ (\A r \in 1 .. n : id[r] < IdMod - 1)
                            => <<"NextRecordIdInconsistency", 0>> \notin alarms
                      /\ Len(batches) < CountMod => <<"ChunkCountMismatch", 0>> \notin alarms
    BY DEF HeaderHonest
  <2>1. /\ phase = "done" /\ TypeOK /\ out \in Seq(Chunks) /\ Len(out) = Len(batches)
        /\ header = [chunkCount |-> Len(batches) % CountMod, nextId |-> NextId % IdMod]
        /\ alarms = { <<a, 0>> : a \in HeaderAlarms } \cup GapAlarms
    BY DEF Written, FileInv, VerifyInv, ReadInit
  <2>2. <<"NextRecordIdInconsistency", 0>> \notin GapAlarms /\ <<"ChunkCountMismatch", 0>> \notin GapAlarms
    BY DEF GapAlarms
  <2>3. ASSUME \A r \in 1 .. n : id[r] < IdMod - 1, <<"NextRecordIdInconsistency", 0>> \in alarms
        PROVE  FALSE
    <3>1. header.nextId <= HighestLastId
      <4>1. "NextRecordIdInconsistency" \in HeaderAlarms
        BY <2>1, <2>2, <2>3
      <4>. QED  BY <4>1 DEF HeaderAlarms
    <3>2. NextId \in 1 .. IdMod - 1 /\ \A r \in 1 .. n : id[r] < NextId
      <4>0. n \in Nat /\ IdMod \in Nat /\ IdMod > 1
        BY <2>1, BatchTypes, WriterAssumption, RebuildAssumption
      <4>1. CASE n = 0
        BY <4>0, <4>1 DEF NextId
      <4>2. CASE n # 0
        <5>1. HighestId \in 0 .. IdMod - 1 /\ \A r \in 1 .. n : id[r] <= HighestId
          BY <2>1, <4>2, HighestIsId
        <5>2. \E r \in 1 .. n : HighestId = id[r]
          BY <2>1, <4>2, HighestIsId
        <5>3. \A r \in 1 .. n : id[r] \in 0 .. IdMod - 1
          BY <2>1 DEF TypeOK
        <5>. QED  BY <2>3, <4>0, <4>2, <5>1, <5>2, <5>3 DEF NextId
      <4>. QED  BY <4>1, <4>2
    <3>3. header.nextId = NextId
      <4>1. NextId % IdMod = NextId
        BY <3>2, WriterAssumption
      <4>. QED  BY <2>1, <4>1
    <3>4. HighestLastId = 0 \/ \E r \in 1 .. n : HighestLastId = id[r]
      BY <2>1, HighestLastIs
    <3>5. \A r \in 1 .. n : id[r] \in Int
      BY <2>1 DEF TypeOK
    <3>6. NextId \in Int /\ NextId > 0
      BY <3>2, WriterAssumption
    <3>7. HighestLastId < NextId /\ HighestLastId \in Int
      BY <3>2, <3>4, <3>5, <3>6
    <3>. QED  BY <3>1, <3>3, <3>6, <3>7
  <2>4. ASSUME Len(batches) < CountMod, <<"ChunkCountMismatch", 0>> \in alarms PROVE FALSE
    <3>1. "ChunkCountMismatch" \in HeaderAlarms
      BY <2>1, <2>2, <2>4
    <3>2. header.chunkCount # Len(out)
      BY <3>1 DEF HeaderAlarms
    <3>3. Len(batches) \in Nat /\ CountMod \in Nat \ {0}
      BY <2>1, BatchTypes, WriterAssumption
    <3>4. Len(batches) % CountMod = Len(batches)
      BY <2>4, <3>3
    <3>. QED  BY <2>1, <3>2, <3>4
  <2>. QED  BY <2>3, <2>4
<1>. QED  BY <1>1, RebuildWritten, VerifyInvariant, PTL

-----------------------------------------------------------------------------
(* The walk over the chunks written. *)

(* The batches of a finished split follow each other through the input.    *)
LEMMA BatchesFollow ==
  ASSUME Written, AllFit, phase = "done", NEW j \in 1 .. Len(out)
  PROVE  /\ Whole(batches[j])
         /\ out[j].recs = batches[j]
         /\ out[j].free = Extent(batches[j], Len(batches[j]))
         /\ Passed(j - 1) \in 0 .. n /\ Passed(j) \in 0 .. n
         /\ Passed(j) = Passed(j - 1) + Len(batches[j])
         /\ \A k \in 1 .. Len(batches[j]) : batches[j][k] = Passed(j - 1) + k
<1> DEFINE b == batches[j]
           f == IF j = 1 THEN 1 ELSE Last(batches[j - 1]) + 1
<1>1. /\ TypeOK /\ SizesPositive /\ SplitInv /\ OutInv
      /\ current = <<>> /\ Len(out) = Len(batches) /\ Len(out) \in Nat /\ n \in Nat
  BY BatchTypes DEF Written, FileInv
<1>2. Whole(b) /\ \A i \in 1 .. Len(batches) : Whole(batches[i])
  BY <1>1, BatchesAreWhole
<1>3. \A i \in 1 .. Len(batches) : Last(batches[i]) \in 1 .. n
  <2> SUFFICES ASSUME NEW i \in 1 .. Len(batches) PROVE Last(batches[i]) \in 1 .. n
    OBVIOUS
  <2>1. Whole(batches[i])
    BY <1>2
  <2>2. Len(batches[i]) \in 1 .. Len(batches[i])
    BY <2>1 DEF Whole
  <2>. QED  BY <2>1, <2>2 DEF Whole, Last
<1>4. IsSlice(b, f, Last(b))
  BY <1>1 DEF SplitInv, Chain, All
<1>5. f = Passed(j - 1) + 1 /\ Passed(j - 1) \in 0 .. n
  <2>1. CASE j = 1
    BY <1>1, <2>1 DEF Passed
  <2>2. CASE j # 1
    <3>1. j - 1 \in 1 .. Len(batches) /\ j - 1 # 0
      BY <1>1, <2>2
    <3>2. Last(batches[j - 1]) \in 1 .. n
      BY <1>3, <3>1
    <3>. QED  BY <1>1, <2>2, <3>1, <3>2 DEF Passed
  <2>. QED  BY <2>1, <2>2
<1>6. Passed(j) = Last(b) /\ Passed(j) \in 1 .. n
  BY <1>1, <1>3 DEF Passed
<1>7. Len(b) \in Nat
  BY <1>2 DEF Whole
<1>. HIDE DEF f
<1>8. Passed(j) = Passed(j - 1) + Len(b)
  BY <1>1, <1>4, <1>5, <1>6, <1>7, SMTT(20) DEF IsSlice
<1>9. \A k \in 1 .. Len(b) : b[k] = Passed(j - 1) + k
  BY <1>1, <1>4, <1>5, <1>7 DEF IsSlice
<1>10. Describes(out[j], b)
  BY <1>1 DEF OutInv
<1>11. Extent(b, Len(b)) = ends[Last(b)] - ends[b[1] - 1]
  BY <1>2 DEF Extent, Whole, Last
<1>. QED  BY <1>1, <1>2, <1>5, <1>6, <1>8, <1>9, <1>10, <1>11 DEF Describes

(* All of the input is in the batches. *)
LEMMA BatchesEnd ==
  ASSUME Written, phase = "done"
  PROVE  Passed(Len(out)) = n /\ Len(out) \in Nat /\ n \in Nat
<1>1. /\ TypeOK /\ SplitInv /\ current = <<>> /\ next = n + 1 /\ Len(out) = Len(batches)
      /\ Len(out) \in Nat /\ n \in Nat /\ batches \in Seq(Batch)
  BY BatchTypes DEF Written, FileInv, TypeOK
<1>2. next = IF batches = <<>> THEN 1 ELSE Last(batches[Len(batches)]) + 1
  BY <1>1 DEF SplitInv, Chain, All
<1>3. CASE batches = <<>>
  <2>1. Len(out) = 0
    BY <1>1, <1>3
  <2>2. n = 0
    BY <1>1, <1>2, <1>3
  <2>. QED  BY <1>1, <2>1, <2>2 DEF Passed
<1>4. CASE batches # <<>>
  <2>1. Len(out) # 0 /\ Len(batches) \in 1 .. Len(batches)
    BY <1>1, <1>4
  <2>2. Passed(Len(out)) = Last(batches[Len(batches)])
    BY <1>1, <2>1 DEF Passed
  <2>3. batches[Len(batches)] # <<>> /\ batches[Len(batches)] \in Seq(1 .. n)
    BY <1>1, <2>1, ElementOfSeq DEF SplitInv, Batch
  <2>4. Last(batches[Len(batches)]) \in 1 .. n
    <3> DEFINE b == batches[Len(batches)]
    <3>1. b \in Seq(1 .. n) /\ b # <<>>
      BY <2>3
    <3>. HIDE DEF b
    <3>2. Len(b) \in 1 .. Len(b)
      BY <3>1
    <3>. QED  BY <3>1, <3>2, ElementOfSeq DEF Last, b
  <2>. QED  BY <1>1, <1>2, <1>4, <2>2, <2>4
<1>. QED  BY <1>3, <1>4

(* Where the records of a batch stand. *)
LEMMA ExtentGrows ==
  ASSUME TypeOK, SizesPositive, NEW b, Whole(b), NEW k \in 0 .. Len(b)
  PROVE  /\ Extent(b, k) \in Nat
         /\ k < Len(b) => /\ b[k + 1] \in 1 .. n
                          /\ Extent(b, k + 1) = Extent(b, k) + SizeOf(b[k + 1])
                          /\ Extent(b, k + 1) <= Extent(b, Len(b))
<1>1. /\ Len(b) \in Nat \ {0} /\ 1 \in 1 .. Len(b) /\ n \in Nat
      /\ \A q \in 1 .. Len(b) : b[q] \in 1 .. n /\ b[q] = b[1] + q - 1
  BY BatchTypes DEF Whole
<1> DEFINE o == b[1] - 1
<1>2. o \in 0 .. n /\ \A q \in 1 .. Len(b) : b[q] = o + q /\ o + q \in 1 .. n
  BY <1>1
<1>. HIDE DEF o
<1>3. \A r \in 0 .. n : ends[r] \in Nat
  BY DEF TypeOK
<1>4. ASSUME NEW q \in 0 .. Len(b)
      PROVE  Extent(b, q) = ends[o + q] - ends[o] /\ o + q \in 0 .. n
  <2>1. CASE q = 0
    <3>1. o + q = o
      BY <1>2, <2>1
    <3>. QED  BY <1>2, <1>3, <2>1, <3>1 DEF Extent
  <2>2. CASE q # 0
    <3>1. q \in 1 .. Len(b)
      BY <1>1, <2>2
    <3>2. Extent(b, q) = ends[b[q]] - ends[b[1] - 1]
      BY <2>2 DEF Extent
    <3>. QED  BY <1>2, <3>1, <3>2 DEF o
  <2>. QED  BY <2>1, <2>2
<1>5. Extent(b, k) \in Nat
  <2>1. o <= o + k /\ o + k \in 0 .. n
    BY <1>1, <1>2, <1>4
  <2>2. ends[o] <= ends[o + k]
    BY <1>2, <2>1, EndsGrow
  <2>. QED  BY <1>2, <1>3, <1>4, <2>1, <2>2
<1>6. ASSUME k < Len(b)
      PROVE  /\ b[k + 1] \in 1 .. n
             /\ Extent(b, k + 1) = Extent(b, k) + SizeOf(b[k + 1])
             /\ Extent(b, k + 1) <= Extent(b, Len(b))
  <2>1. k + 1 \in 1 .. Len(b) /\ k + 1 \in 0 .. Len(b) /\ Len(b) \in 0 .. Len(b)
    BY <1>1, <1>6
  <2>2. b[k + 1] = o + (k + 1) /\ b[k + 1] - 1 = o + k /\ b[k + 1] \in 1 .. n
    BY <1>1, <1>2, <2>1
  <2>3. /\ Extent(b, k + 1) = ends[o + (k + 1)] - ends[o]
        /\ Extent(b, k) = ends[o + k] - ends[o]
        /\ Extent(b, Len(b)) = ends[o + Len(b)] - ends[o]
        /\ o + (k + 1) \in 0 .. n /\ o + k \in 0 .. n /\ o + Len(b) \in 0 .. n
    BY <1>4, <2>1
  <2>4. SizeOf(b[k + 1]) = ends[o + (k + 1)] - ends[o + k]
    BY <2>2 DEF SizeOf
  <2>5. /\ ends[o] \in Nat /\ ends[o + (k + 1)] \in Nat /\ ends[o + k] \in Nat
        /\ ends[o + Len(b)] \in Nat
    BY <1>2, <1>3, <2>3
  <2>6. o + (k + 1) <= o + Len(b)
    BY <1>1, <1>2, <2>1
  <2>7. ends[o + (k + 1)] <= ends[o + Len(b)]
    BY <2>3, <2>6, EndsGrow
  <2>8. Extent(b, k + 1) = Extent(b, k) + SizeOf(b[k + 1])
    BY <2>3, <2>4, <2>5
  <2>9. Extent(b, k + 1) <= Extent(b, Len(b))
    BY <2>3, <2>5, <2>7
  <2>. QED  BY <2>2, <2>8, <2>9
<1>. QED  BY <1>5, <1>6

(* A record stands where the batch says, and nothing behind the last.      *)
LEMMA RegionHolds ==
  ASSUME TypeOK, SizesPositive, NEW b, Whole(b), NEW c, c.recs = b, c.free = Extent(b, Len(b)),
         NEW f \in Regions(c)
  PROVE  /\ \A k \in 0 .. Len(b) - 1 :
              /\ Extent(b, k) \in 0 .. Area - 1
              /\ f[Extent(b, k)] = RecordClaim(b[k + 1])
              /\ SizeOf(b[k + 1]) \in Nat \ {0}
              /\ Extent(b, k) + SizeOf(b[k + 1]) = Extent(b, k + 1)
              /\ Extent(b, k + 1) <= Area
         /\ \A p \in 0 .. Area - 1 : p >= Extent(b, Len(b)) => f[p] = NoClaim
<1>1. /\ Len(b) \in Nat \ {0} /\ Extent(b, Len(b)) <= Area /\ Area \in Nat
  BY WriterAssumption DEF Whole
<1>2. /\ \A p \in 0 .. Area - 1 : p >= c.free => f[p] = NoClaim
      /\ \A p \in 0 .. Area - 1 : \A m \in 1 .. Len(c.recs) :
           StartOf(c, m) = p => f[p] = RecordClaim(c.recs[m])
  BY DEF Regions, IsRegion
<1>3. ASSUME NEW k \in 0 .. Len(b) - 1
      PROVE  /\ Extent(b, k) \in 0 .. Area - 1
             /\ f[Extent(b, k)] = RecordClaim(b[k + 1])
             /\ SizeOf(b[k + 1]) \in Nat \ {0}
             /\ Extent(b, k) + SizeOf(b[k + 1]) = Extent(b, k + 1)
             /\ Extent(b, k + 1) <= Area
  <2>1. /\ k \in 0 .. Len(b) /\ k + 1 \in 0 .. Len(b) /\ k + 1 \in 1 .. Len(b) /\ k < Len(b)
        /\ (k + 1) - 1 = k /\ Len(b) \in 0 .. Len(b)
    BY <1>1
  <2>2. /\ Extent(b, k) \in Nat /\ Extent(b, k + 1) \in Nat /\ b[k + 1] \in 1 .. n
        /\ Extent(b, k + 1) = Extent(b, k) + SizeOf(b[k + 1])
        /\ Extent(b, k + 1) <= Extent(b, Len(b)) /\ Extent(b, Len(b)) \in Nat
    BY <2>1, ExtentGrows
  <2>3. SizeOf(b[k + 1]) \in Nat \ {0}
    BY <2>2 DEF SizesPositive
  <2>4. Extent(b, k + 1) <= Area
    BY <1>1, <2>2
  <2>5. Extent(b, k) \in 0 .. Area - 1
    BY <1>1, <2>2, <2>3, <2>4
  <2>6. StartOf(c, k + 1) = Extent(b, k)
    BY <2>1 DEF StartOf
  <2>7. f[Extent(b, k)] = RecordClaim(b[k + 1])
    BY <1>2, <2>1, <2>5, <2>6
  <2>. QED  BY <2>2, <2>3, <2>4, <2>5, <2>7
<1>. QED  BY <1>2, <1>3

\* The chunk being read and where the walk stands in it.
Standing ==
  LET b == batches[chunkNo] IN
  /\ Written /\ AllFit /\ phase = "done" /\ WalkInv /\ ~done /\ ~verified
  /\ chunkNo \in 1 .. Len(out) /\ Whole(b) /\ claim \in Regions(out[chunkNo])

(* At a record the walk takes it, *)
LEMMA RecordTaken ==
  ASSUME Standing, Walk!Next, Len(recs) < Len(batches[chunkNo])
  PROVE  LET b == batches[chunkNo]
             k == Len(recs)
             r == [pos |-> pos, size |-> SizeOf(b[k + 1]), mark |-> "Valid"]
         IN  /\ r \in Walk!Records
             /\ recs' = Append(recs, r) /\ pos' = Extent(b, k + 1) /\ pos' \in Nat
             /\ done' = done /\ mode' = mode /\ len' = len /\ claim' = claim
<1> DEFINE b == batches[chunkNo]
           k == Len(recs)
<1>1. /\ TypeOK /\ SizesPositive /\ Whole(b) /\ out[chunkNo].recs = b
      /\ out[chunkNo].free = Extent(b, Len(b)) /\ claim \in Regions(out[chunkNo])
  BY BatchesFollow DEF Standing, Written
<1>2. /\ mode = "strict" /\ len = Area /\ recs \in Seq(Walk!Records) /\ k \in Nat
      /\ ~done /\ pos = Extent(b, k)
  BY LenProperties DEF Standing, WalkInv
<1>3. k \in 0 .. Len(b) - 1 /\ Area \in Nat
  BY <1>1, <1>2, WriterAssumption DEF Whole
<1>4. /\ pos \in 0 .. Area - 1 /\ claim[pos] = RecordClaim(b[k + 1])
      /\ SizeOf(b[k + 1]) \in Nat \ {0} /\ pos + SizeOf(b[k + 1]) = Extent(b, k + 1)
      /\ Extent(b, k + 1) <= Area
  BY <1>1, <1>2, <1>3, RegionHolds
<1>5. claim[pos].size = SizeOf(b[k + 1]) /\ claim[pos].copy = TRUE /\ claim[pos] # NoClaim
  <2>1. RecordClaim(b[k + 1]) = [size |-> SizeOf(b[k + 1]), copy |-> TRUE, binxml |-> TRUE]
    BY DEF RecordClaim
  <2>2. claim[pos] \in [size : Nat, copy : BOOLEAN, binxml : BOOLEAN]
    BY <1>4, <2>1
  <2>3. claim[pos] # NoClaim
    BY <2>2, RebuildAssumption
  <2>. QED  BY <1>4, <2>1, <2>3
<1>. HIDE DEF b, k
<1>6. Walk!HasMagic(pos)
  BY <1>2, <1>3, <1>4, <1>5 DEF Walk!HasMagic, Walk!Positions
<1>7. Walk!Accepts(pos)
  BY <1>2, <1>3, <1>4, <1>5, <1>6 DEF Walk!Accepts, Walk!SizeFits, Walk!MemoryBound
<1>8. Walk!Mark(pos) = "Valid"
  BY <1>2, <1>5 DEF Walk!Mark, Walk!StrictMark
<1>9. ~(pos + 1 > len)
  BY <1>2, <1>3, <1>4
<1>10. Walk!Recover
  BY <1>2, <1>6, <1>7, <1>9 DEF Walk!Next, Walk!Miss, Walk!Reject, Walk!Return
<1>11. /\ recs' = Append(recs, [pos |-> pos, size |-> SizeOf(b[k + 1]), mark |-> "Valid"])
       /\ pos' = pos + SizeOf(b[k + 1])
       /\ done' = done /\ mode' = mode /\ len' = len /\ claim' = claim
  BY <1>5, <1>8, <1>10 DEF Walk!Recover, Walk!image
<1>12. [pos |-> pos, size |-> SizeOf(b[k + 1]), mark |-> "Valid"] \in Walk!Records
  BY <1>3, <1>4 DEF Walk!Records, Walk!Marks
<1>13. pos' = Extent(b, k + 1) /\ pos' \in Nat
  BY <1>3, <1>4, <1>11
<1>. QED  BY <1>11, <1>12, <1>13 DEF b, k

(* and behind the last there is nothing to take.                           *)
LEMMA NoneTaken ==
  ASSUME Standing, Walk!Next, Len(recs) = Len(batches[chunkNo])
  PROVE  /\ recs' = recs /\ mode' = mode /\ len' = len /\ claim' = claim
         /\ pos' = pos \/ pos' = pos + 1
         /\ done' \in BOOLEAN
<1> DEFINE b == batches[chunkNo]
<1>1. /\ TypeOK /\ SizesPositive /\ Whole(b) /\ out[chunkNo].recs = b
      /\ out[chunkNo].free = Extent(b, Len(b)) /\ claim \in Regions(out[chunkNo])
  BY BatchesFollow DEF Standing, Written
<1>2. mode = "strict" /\ len = Area /\ pos \in Nat /\ done = FALSE /\ pos >= Extent(b, Len(b))
  BY DEF Standing, WalkInv
<1>3. \A p \in 0 .. Area - 1 : p >= Extent(b, Len(b)) => claim[p] = NoClaim
  BY <1>1, RegionHolds
<1>. HIDE DEF b
<1>4. ~Walk!HasMagic(pos)
  BY <1>2, <1>3 DEF Walk!HasMagic, Walk!Positions
<1>5. Walk!Miss \/ Walk!Return
  BY <1>4 DEF Walk!Next, Walk!Recover, Walk!Reject, Walk!Accepts
<1>. QED  BY <1>2, <1>5 DEF Walk!Miss, Walk!Return, Walk!image

LEMMA WalkInvInductive ==
  ASSUME Written, VerifyInv, AllFit, WalkInv, phase = "done", [RebuildNext]_<<vars, readVars>>
  PROVE  WalkInv'
<1>1. UNCHANGED vars
  BY ReadOnly
<1>2. /\ n' = n /\ ends' = ends /\ batches' = batches /\ out' = out /\ phase' = phase
  BY <1>1 DEF vars
<1>3. /\ TypeOK /\ Len(out) \in Nat /\ n \in Nat
  BY BatchesEnd DEF Written
<1>4. /\ \A r : SizeOf(r)' = SizeOf(r)
      /\ \A j : Passed(j)' = Passed(j)
      /\ \A b, k : Extent(b, k)' = Extent(b, k)
  BY <1>2 DEF SizeOf, Passed, Last, Extent
<1>5. \A c : Regions(c)' = Regions(c)
  BY <1>2 DEF Regions, IsRegion, StartOf, RecordClaim, SizeOf, Extent
<1>6. CASE BeginChunk
  <2>1. /\ chunkNo < Len(out) /\ chunkNo' = chunkNo + 1 /\ claim' \in Regions(out[chunkNo + 1])
        /\ pos' = 0 /\ recs' = <<>> /\ done' = FALSE /\ done = TRUE /\ ~verified
        /\ mode' = mode /\ len' = len /\ reread' = reread /\ verified' = verified
    BY <1>6 DEF BeginChunk, Reading, WalkInv
  <2>2. chunkNo \in 0 .. Len(out) /\ chunkNo + 1 \in 1 .. Len(out) /\ (chunkNo + 1) - 1 = chunkNo
    BY <1>3, <2>1 DEF WalkInv
  <2>3. Whole(batches[chunkNo + 1])
    BY <2>2, BatchesFollow
  <2>4. Len(recs') = 0 /\ recs' \in Seq(Walk!Records)
    BY <2>1, EmptySeq
  <2>5. Len(batches[chunkNo + 1]) \in Nat \ {0} /\ Extent(batches[chunkNo + 1], 0) = 0
    BY <2>3 DEF Whole, Extent
  <2>6. chunkNo' \in 0 .. Len(out') /\ chunkNo' # 0
    BY <1>2, <1>3, <2>1, <2>2
  <2>7. (Len(reread) = Passed(chunkNo - 1))'
    BY <1>4, <2>1, <2>2 DEF WalkInv
  <2>8. claim' \in Regions(out[chunkNo])'
    BY <1>2, <1>5, <2>1
  <2>9. (pos = Extent(batches[chunkNo], Len(recs)))' /\ Len(recs') < Len(batches'[chunkNo'])
    BY <1>2, <1>4, <2>1, <2>4, <2>5
  <2>10. \A k \in 1 .. Len(reread') : reread'[k].size = SizeOf(k)' /\ reread'[k].mark = "Valid"
    BY <1>4, <2>1 DEF WalkInv
  <2>11. mode' = "strict" /\ len' = Area /\ pos' \in Nat /\ reread' \in Seq(Walk!Records)
    BY <2>1 DEF WalkInv
  <2>12. /\ (Len(recs) <= Len(batches[chunkNo]))' /\ (Len(recs) # Len(batches[chunkNo]))'
         /\ 1 .. Len(recs') = {}
    BY <1>2, <2>1, <2>4, <2>5
  <2>13. done' \in BOOLEAN /\ ~done' /\ ~verified'
    BY <2>1
  <2>. QED
    BY <2>1, <2>4, <2>6, <2>7, <2>8, <2>9, <2>10, <2>11, <2>12, <2>13 DEF WalkInv
<1>7. CASE WalkChunk
  <2> DEFINE b == batches[chunkNo]
             k == Len(recs)
  <2>1. /\ ~verified /\ done = FALSE /\ Walk!Next /\ chunkNo' = chunkNo /\ verified' = verified
        /\ reread' = IF done' THEN reread \o recs ELSE reread
    BY <1>7 DEF WalkChunk, Reading, WalkInv
  <2>2. /\ chunkNo \in 1 .. Len(out) /\ Len(reread) = Passed(chunkNo - 1)
        /\ claim \in Regions(out[chunkNo]) /\ k <= Len(b)
        /\ \A q \in 1 .. k : recs[q].size = SizeOf(b[q]) /\ recs[q].mark = "Valid"
        /\ k < Len(b) => pos = Extent(b, k)
        /\ k = Len(b) => pos >= Extent(b, k)
        /\ recs \in Seq(Walk!Records) /\ reread \in Seq(Walk!Records) /\ k \in Nat
        /\ mode = "strict" /\ len = Area /\ pos \in Nat
    BY <1>3, <2>1, LenProperties DEF WalkInv
  <2>3. /\ Whole(b) /\ Len(b) \in Nat /\ Passed(chunkNo) = Passed(chunkNo - 1) + Len(b)
        /\ \A q \in 1 .. Len(b) : b[q] = Passed(chunkNo - 1) + q
        /\ Passed(chunkNo - 1) \in Nat /\ Passed(chunkNo) \in Nat
        /\ Extent(b, Len(b)) \in Nat
    <3>1. Whole(b) /\ Len(b) \in 0 .. Len(b) /\ Len(b) \in Nat
      BY <2>2, BatchesFollow DEF Whole
    <3>2. Extent(b, Len(b)) \in Nat
      BY <3>1, ExtentGrows DEF Written
    <3>. QED  BY <1>3, <2>2, <3>1, <3>2, BatchesFollow
  <2>4. Standing
    BY <2>1, <2>2, <2>3 DEF Standing
  <2>5. CASE k < Len(b)
    <3> DEFINE r == [pos |-> pos, size |-> SizeOf(b[k + 1]), mark |-> "Valid"]
    <3>1. /\ r \in Walk!Records /\ recs' = Append(recs, r) /\ pos' = Extent(b, k + 1) /\ pos' \in Nat
          /\ done' = FALSE /\ mode' = mode /\ len' = len /\ claim' = claim
      BY <2>1, <2>4, <2>5, RecordTaken
    <3>2. r.size = SizeOf(b[k + 1]) /\ r.mark = "Valid"
      OBVIOUS
    <3>. HIDE DEF r
    <3>3. /\ recs' \in Seq(Walk!Records) /\ Len(recs') = k + 1
          /\ \A q \in 1 .. k : recs'[q] = recs[q]
          /\ recs'[k + 1] = r
      BY <2>2, <3>1, AppendAt
    <3>4. \A q \in 1 .. Len(recs') : recs'[q].size = SizeOf(b[q]) /\ recs'[q].mark = "Valid"
      <4> SUFFICES ASSUME NEW q \in 1 .. k + 1
                   PROVE  recs'[q].size = SizeOf(b[q]) /\ recs'[q].mark = "Valid"
        BY <3>3
      <4>1. CASE q = k + 1
        BY <3>2, <3>3, <4>1
      <4>2. CASE q # k + 1
        <5>1. q \in 1 .. k
          BY <2>2, <4>2
        <5>. QED  BY <2>2, <3>3, <5>1
      <4>. QED  BY <4>1, <4>2
    <3>5. reread' = reread
      BY <2>1, <3>1
    <3>6. Len(recs') <= Len(b)
      BY <2>2, <2>3, <2>5, <3>3
    <3>7. pos' = Extent(b, Len(recs'))
      BY <3>1, <3>3
    <3>8. pos' >= Extent(b, Len(recs'))
      BY <3>1, <3>7
    <3>9. \A q \in 1 .. Len(reread') : reread'[q].size = SizeOf(q) /\ reread'[q].mark = "Valid"
      BY <3>5 DEF WalkInv
    <3>10. chunkNo' \in 0 .. Len(out') /\ chunkNo' # 0 /\ Len(reread') = Passed(chunkNo' - 1)
           /\ reread' \in Seq(Walk!Records)
      BY <1>2, <1>3, <2>1, <2>2, <3>5
    <3>11. claim' \in Regions(out'[chunkNo'])
      BY <1>2, <2>1, <2>2, <3>1
    <3>12. (\A q \in 1 .. Len(recs) : recs[q].size = SizeOf(batches[chunkNo][q]) /\ recs[q].mark = "Valid")'
      BY <1>2, <1>4, <2>1, <3>4
    <3>13. /\ Len(recs') <= Len(batches'[chunkNo'])
           /\ (pos = Extent(batches[chunkNo], Len(recs)))'
           /\ (pos >= Extent(batches[chunkNo], Len(recs)))'
      BY <1>2, <1>4, <2>1, <3>6, <3>7, <3>8
    <3>. QED  BY <1>4, <1>5, <2>1, <2>2, <3>1, <3>3, <3>9, <3>10, <3>11, <3>12, <3>13 DEF WalkInv
  <2>6. CASE k = Len(b)
    <3>0. Walk!Next /\ Len(recs) = Len(batches[chunkNo])
      BY <2>1, <2>6
    <3>1. /\ recs' = recs /\ mode' = mode /\ len' = len /\ claim' = claim
          /\ pos' = pos \/ pos' = pos + 1
          /\ done' \in BOOLEAN
      BY <2>4, <3>0, NoneTaken
    <3>2. pos' \in Nat /\ pos' >= Extent(b, k)
      BY <2>2, <2>3, <2>6, <3>1
    <3>3. chunkNo' \in 0 .. Len(out') /\ chunkNo' # 0 /\ claim' \in Regions(out'[chunkNo'])
      BY <1>2, <1>3, <2>1, <2>2, <3>1
    <3>4. (\A q \in 1 .. Len(recs) : recs[q].size = SizeOf(batches[chunkNo][q]) /\ recs[q].mark = "Valid")'
      BY <1>2, <1>4, <2>1, <2>2, <3>1
    <3>5. /\ Len(recs') = Len(batches'[chunkNo'])
          /\ (pos >= Extent(batches[chunkNo], Len(recs)))'
      BY <1>2, <1>4, <2>1, <2>6, <3>1, <3>2
    <3>6. CASE done' = FALSE
      <4>1. reread' = reread /\ Len(reread') = Passed(chunkNo' - 1)
        BY <2>1, <2>2, <3>6
      <4>2. \A q \in 1 .. Len(reread') : reread'[q].size = SizeOf(q) /\ reread'[q].mark = "Valid"
        BY <4>1 DEF WalkInv
      <4>3. ~(Len(recs') < Len(batches'[chunkNo'])) /\ Len(recs') <= Len(batches'[chunkNo'])
        BY <2>2, <3>1, <3>5
      <4>. QED  BY <1>4, <1>5, <2>1, <2>2, <3>1, <3>2, <3>3, <3>4, <3>5, <3>6, <4>1, <4>2, <4>3 DEF WalkInv
    <3>7. CASE done' = TRUE
      <4>1. reread' = reread \o recs
        BY <2>1, <3>7
      <4> DEFINE m == Len(reread)
      <4>2. /\ m \in Nat /\ reread' \in Seq(Walk!Records) /\ Len(reread') = m + k
            /\ \A q \in 1 .. m + k : reread'[q] = IF q <= m THEN reread[q] ELSE recs[q - m]
        BY <2>2, <4>1, ConcatProperties, LenProperties, SMTT(20)
      <4>3. ASSUME NEW q \in 1 .. m + k PROVE reread'[q].size = SizeOf(q) /\ reread'[q].mark = "Valid"
        <5>1. CASE q <= m
          <6>1. q \in 1 .. m
            BY <2>2, <4>2, <5>1
          <6>. QED  BY <4>2, <5>1, <6>1 DEF WalkInv
        <5>2. CASE ~(q <= m)
          <6>1. q - m \in 1 .. k
            BY <2>2, <4>2, <5>2
          <6>2. b[q - m] = m + (q - m) /\ m + (q - m) = q
            BY <2>2, <2>3, <2>6, <4>2, <6>1, SMTT(20)
          <6>. QED  BY <2>2, <4>2, <5>2, <6>1, <6>2
        <5>. QED  BY <5>1, <5>2
      <4>4. Len(reread') = Passed(chunkNo')
        BY <2>1, <2>2, <2>3, <2>6, <4>2
      <4>5. \A q \in 1 .. Len(reread') : reread'[q].size = SizeOf(q)' /\ reread'[q].mark = "Valid"
        BY <1>4, <4>2, <4>3
      <4>. QED  BY <1>4, <2>1, <2>2, <3>1, <3>2, <3>3, <3>7, <4>2, <4>4, <4>5 DEF WalkInv
    <3>. QED  BY <3>1, <3>6, <3>7
  <2>. QED  BY <2>2, <2>3, <2>5, <2>6
<1>8. CASE CrossCheck \/ UNCHANGED readVars
  <2>1. /\ chunkNo' = chunkNo /\ mode' = mode /\ len' = len /\ claim' = claim /\ pos' = pos
        /\ recs' = recs /\ done' = done /\ reread' = reread
        /\ verified' => done /\ chunkNo = Len(out)
    BY <1>8 DEF CrossCheck, readVars, WalkInv
  <2>. QED  BY <1>2, <1>4, <1>5, <2>1 DEF WalkInv
<1>9. ~Next
  BY DEF Next, SplitAdd, SplitFlush, SplitEnd, WriteHeader, Panic, BuildChunk, Finish
<1>. QED  BY <1>6, <1>7, <1>8, <1>9 DEF RebuildNext, Write

(* Reading has not begun. *)
LEMMA WalkStarts ==
  ASSUME Written, ReadInit
  PROVE  WalkInv
<1>1. Len(out) \in Nat /\ Area \in Nat
  BY WriterAssumption DEF Written, FileInv
<1>2. recs = <<>> /\ reread = <<>> /\ Len(reread) = 0
  BY DEF ReadInit
<1>3. recs \in Seq(Walk!Records) /\ reread \in Seq(Walk!Records)
  BY <1>2, EmptySeq
<1>. QED  BY <1>1, <1>2, <1>3 DEF ReadInit, WalkInv, Passed

(* What is written is read back: every record of the input, once and in    *)
(* order, for every list of records that fit a chunk, every size of the    *)
(* records area and whatever the payloads contain.                         *)
THEOREM RoundTripHolds == RebuildSpec => []RoundTrip
<1>1. Init /\ ReadInit /\ Written => ReadInv
  BY WalkStarts DEF ReadInv
<1>2. Written /\ Written' /\ VerifyInv /\ ReadInv /\ [RebuildNext]_<<vars, readVars>> => ReadInv'
  <2> SUFFICES ASSUME Written, Written', VerifyInv, ReadInv, [RebuildNext]_<<vars, readVars>>
               PROVE  ReadInv'
    OBVIOUS
  <2>1. CASE phase # "done"
    <3>1. UNCHANGED readVars /\ ReadInit
      BY <2>1, WriteOnly DEF VerifyInv
    <3>2. /\ chunkNo' = 0 /\ mode' = "strict" /\ len' = Area /\ pos' = 0 /\ done' = TRUE
          /\ recs' = <<>> /\ reread' = <<>> /\ verified' = FALSE
      BY <3>1 DEF ReadInit, readVars
    <3>3. Len(out') \in Nat /\ Area \in Nat /\ Len(reread') = 0
      BY <3>2, WriterAssumption DEF Written, FileInv
    <3>4. recs' \in Seq(Walk!Records) /\ reread' \in Seq(Walk!Records)
      BY <3>2, EmptySeq
    <3>. QED  BY <3>2, <3>3, <3>4 DEF ReadInv, WalkInv, Passed
  <2>2. CASE phase = "done"
    <3>1. AllFit' <=> AllFit
      <4>1. n' = n /\ ends' = ends
        BY <2>2, ReadOnly DEF vars
      <4>. QED  BY <4>1 DEF AllFit, SizeOf
    <3>. QED  BY <2>2, <3>1, WalkInvInductive DEF ReadInv
  <2>. QED  BY <2>1, <2>2
<1>3. Written /\ VerifyInv /\ ReadInv => RoundTrip
  <2> SUFFICES ASSUME Written, VerifyInv, AllFit, WalkInv
               PROVE  /\ Len(reread) <= n
                      /\ \A k \in 1 .. Len(reread) : reread[k].size = SizeOf(k) /\ reread[k].mark = "Valid"
                      /\ verified => Len(reread) = n
    BY DEF RoundTrip, ReadInv
  <2>0. n \in Nat /\ Len(out) \in Nat
    BY BatchTypes DEF Written, FileInv
  <2>1. CASE phase # "done"
    <3>1. reread = <<>> /\ ~verified /\ Len(reread) = 0
      BY <2>1 DEF VerifyInv, ReadInit
    <3>. QED  BY <2>0, <3>1
  <2>2. CASE phase = "done"
    <3>1. \A j \in 0 .. Len(out) : Passed(j) \in 0 .. n
      <4> SUFFICES ASSUME NEW j \in 0 .. Len(out) PROVE Passed(j) \in 0 .. n
        OBVIOUS
      <4>1. CASE j = 0
        BY <2>0, <4>1 DEF Passed
      <4>2. CASE j # 0
        <5>1. j \in 1 .. Len(out)
          BY <2>0, <4>2
        <5>. QED  BY <2>2, <5>1, BatchesFollow
      <4>. QED  BY <4>1, <4>2
    <3>2. chunkNo \in 0 .. Len(out) /\ (~done => chunkNo - 1 \in 0 .. Len(out))
      BY <2>0 DEF WalkInv
    <3>3. Len(reread) = Passed(chunkNo) \/ (~done /\ Len(reread) = Passed(chunkNo - 1))
      BY DEF WalkInv
    <3>4. Len(reread) \in 0 .. n
      BY <3>1, <3>2, <3>3
    <3>5. verified => Len(reread) = n
      BY <2>2, BatchesEnd DEF WalkInv
    <3>. QED  BY <2>0, <3>4, <3>5 DEF WalkInv
  <2>. QED  BY <2>1, <2>2
<1>. QED  BY <1>1, <1>2, <1>3, RebuildWritten, VerifyInvariant, PTL DEF RebuildSpec
=============================================================================
