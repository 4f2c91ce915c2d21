----------------------------- MODULE Chunk_proofs -----------------------------
(***************************************************************************)
(* Proofs about a chunk: the walks that find its records, and the decoder  *)
(* of what the records say, for every region length, step and image, and   *)
(* for every chunk and every limit.                                        *)
(*                                                                         *)
(* The decoder is proved sound against BinXmlGrammar. Its invariant says   *)
(* of every call under way what has been read by it in any reading that    *)
(* follows the rules: if the rest of its bytes is read as some nodes, then *)
(* all of them, from where each of its open elements begins, are read as   *)
(* the nodes it holds and those. The places where they begin (P, after N   *)
(* tokens, and S for the calls) are no state of the program.               *)
(***************************************************************************)
EXTENDS RecordWalk, BinXmlGrammar, CommonLemmas, SequenceTheorems, TLAPS

-----------------------------------------------------------------------------
(* Type correctness.                                                        *)

(* Every variable of the walk keeps its type; in particular the cursor and *)
(* the extents pushed stay natural numbers whatever the size fields say.   *)
THEOREM TypeCorrect == Spec => []TypeOK
<1>1. Init => TypeOK
  <2> SUFFICES ASSUME Init PROVE TypeOK
    OBVIOUS
  <2>1. recs \in Seq(Records)
    BY EmptySeq DEF Init
  <2>2. pos \in Nat /\ done \in BOOLEAN
    BY DEF Init
  <2>. QED  BY <2>1, <2>2 DEF Init, TypeOK
<1>2. TypeOK /\ [Next]_vars => TypeOK'
  <2> SUFFICES ASSUME TypeOK, [Next]_vars PROVE TypeOK'
    OBVIOUS
  <2> USE DEF TypeOK
  <2>1. CASE Recover
    <3>1. pos \in Positions /\ claim[pos] \in Claims
      BY <2>1 DEF Recover, Accepts, HasMagic
    <3>2. claim[pos].size \in Nat
      BY <3>1, ConstAssumption
    <3>3. Mark(pos) \in Marks
      BY DEF Mark, Marks, StrictMark, FreeMark, MemoryMark
    <3>4. [pos |-> pos, size |-> claim[pos].size, mark |-> Mark(pos)] \in Records
      BY <3>2, <3>3 DEF Records
    <3>5. recs' \in Seq(Records)
      BY <2>1, <3>4, AppendProperties DEF Recover
    <3>. QED  BY <2>1, <3>2, <3>5 DEF Recover, image
  <2>2. CASE Miss
    BY <2>2, ConstAssumption DEF Miss, image
  <2>3. CASE Reject
    BY <2>3, ConstAssumption DEF Reject, image
  <2>4. CASE Return
    BY <2>4 DEF Return, image
  <2>5. CASE UNCHANGED vars
    BY <2>5 DEF vars
  <2>. QED  BY <2>1, <2>2, <2>3, <2>4, <2>5 DEF Next
<1>. QED  BY <1>1, <1>2, PTL DEF Spec

-----------------------------------------------------------------------------
(* Records recovered do not overlap.                                        *)

(* What makes NoOverlap inductive: everything recovered ends at or before  *)
(* the cursor and was an accepted claim of the image.                      *)
WalkInv ==
  /\ NoOverlap
  /\ \A i \in 1 .. Len(recs) :
       /\ Accepts(recs[i].pos)
       /\ recs[i].size = claim[recs[i].pos].size
       /\ recs[i].pos + recs[i].size <= pos

(* An accepted claim has a positive size that ends inside the region. *)
LEMMA AcceptedSize ==
  ASSUME TypeOK, NEW p, Accepts(p)
  PROVE  /\ p \in Nat
         /\ claim[p].size \in Nat \ {0}
         /\ p + claim[p].size <= len
BY ConstAssumption DEF TypeOK, Accepts, HasMagic, SizeFits, Positions

(* The image is read, never written: what is acceptable stays acceptable.  *)
LEMMA ImageFixed ==
  ASSUME [Next]_vars
  PROVE  /\ mode' = mode /\ len' = len /\ claim' = claim
         /\ \A p : Accepts(p)' <=> Accepts(p)
<1>1. mode' = mode /\ len' = len /\ claim' = claim
  BY DEF Next, Recover, Miss, Reject, Return, image, vars
<1>. QED
  BY <1>1 DEF Accepts, HasMagic, SizeFits, MemoryBound, AggressiveAccepts

LEMMA RecordFields ==
  ASSUME TypeOK
  PROVE  \A i \in 1 .. Len(recs) : recs[i].pos \in Nat /\ recs[i].size \in Nat
<1>1. recs \in Seq(Records)
  BY DEF TypeOK
<1>2. \A i \in 1 .. Len(recs) : recs[i] \in Records
  BY <1>1, ElementOfSeq
<1>. QED  BY <1>2 DEF Records

LEMMA WalkInvInductive ==
  ASSUME TypeOK, WalkInv, [Next]_vars
  PROVE  WalkInv'
<1> USE DEF TypeOK
<1>0. recs \in Seq(Records)
  OBVIOUS
<1>1. CASE Recover
  <2> DEFINE r == [pos |-> pos, size |-> claim[pos].size, mark |-> Mark(pos)]
  <2>1. /\ Accepts(pos)
        /\ recs' = Append(recs, r)
        /\ pos' = pos + claim[pos].size
    BY <1>1 DEF Recover
  <2>2. claim[pos].size \in Nat \ {0} /\ pos + claim[pos].size <= len
    BY <2>1, AcceptedSize
  <2>3. /\ Len(recs') = Len(recs) + 1
        /\ \A i \in 1 .. Len(recs) : recs'[i] = recs[i]
        /\ recs'[Len(recs) + 1] = r
    BY <2>1, <1>0
  <2>4. \A i \in 1 .. Len(recs) : recs[i].pos \in Nat /\ recs[i].size \in Nat
    BY RecordFields
  <2>5. /\ \A i \in 1 .. Len(recs) :
             /\ Accepts(recs[i].pos)
             /\ recs[i].size = claim[recs[i].pos].size
             /\ recs[i].pos + recs[i].size <= pos
             /\ recs[i].pos + recs[i].size <= len
        /\ \A i, j \in 1 .. Len(recs) :
             i < j => recs[i].pos + recs[i].size <= recs[j].pos
    BY DEF WalkInv, NoOverlap
  <2>6. len' = len /\ claim' = claim /\ \A p : Accepts(p)' <=> Accepts(p)
    BY ImageFixed
  <2>7. Len(recs) \in Nat
    BY <1>0
  <2>8. ASSUME NEW i \in 1 .. Len(recs')
        PROVE  /\ Accepts(recs'[i].pos)
               /\ recs'[i].size = claim[recs'[i].pos].size
               /\ recs'[i].pos + recs'[i].size <= pos'
               /\ recs'[i].pos + recs'[i].size <= len
    <3>1. CASE i \in 1 .. Len(recs)
      BY <3>1, <2>1, <2>2, <2>3, <2>4, <2>5, SMTT(20)
    <3>2. CASE i = Len(recs) + 1
      BY <3>2, <2>1, <2>2, <2>3
    <3>. QED  BY <3>1, <3>2, <2>3, <2>7
  <2>9. ASSUME NEW i \in 1 .. Len(recs'), NEW j \in 1 .. Len(recs'), i < j
        PROVE  recs'[i].pos + recs'[i].size <= recs'[j].pos
    <3>1. i \in 1 .. Len(recs)
      BY <2>9, <2>3, <2>7
    <3>2. CASE j \in 1 .. Len(recs)
      BY <3>1, <3>2, <2>9, <2>3, <2>5
    <3>3. CASE j = Len(recs) + 1
      BY <3>1, <3>3, <2>3, <2>5
    <3>. QED  BY <3>2, <3>3, <2>3, <2>7
  <2>. QED
    BY <2>6, <2>8, <2>9 DEF WalkInv, NoOverlap
<1>2. CASE Miss \/ Reject \/ Return \/ UNCHANGED vars
  <2>1. recs' = recs /\ len' = len /\ claim' = claim /\ pos <= pos' /\ pos' \in Nat
    BY <1>2, ConstAssumption DEF Miss, Reject, Return, vars, image
  <2>2. mode' = mode
    BY ImageFixed
  <2>3. NoOverlap'
    BY <2>1 DEF WalkInv, NoOverlap
  <2>4. ASSUME NEW i \in 1 .. Len(recs)
        PROVE  /\ Accepts(recs[i].pos)'
               /\ recs[i].size = claim[recs[i].pos].size
               /\ recs[i].pos + recs[i].size <= pos'
    <3>1. recs[i].pos \in Nat /\ recs[i].size \in Nat
      BY RecordFields
    <3>2. /\ Accepts(recs[i].pos)
          /\ recs[i].size = claim[recs[i].pos].size
          /\ recs[i].pos + recs[i].size <= pos
      BY DEF WalkInv
    <3>3. recs[i].pos + recs[i].size <= pos'
      BY <3>1, <3>2, <2>1
    <3>4. Accepts(recs[i].pos)'
      BY <3>2, <2>1, <2>2 DEF Accepts, HasMagic, SizeFits, MemoryBound, AggressiveAccepts
    <3>. QED  BY <3>2, <3>3, <3>4
  <2>. QED
    BY <2>1, <2>3, <2>4 DEF WalkInv
<1>. QED  BY <1>1, <1>2 DEF Next

LEMMA WalkInvariant == Spec => []WalkInv
<1>1. Init => WalkInv
  BY DEF Init, WalkInv, NoOverlap
<1>2. TypeOK /\ WalkInv /\ [Next]_vars => WalkInv'
  BY WalkInvInductive
<1>. QED  BY <1>1, <1>2, TypeCorrect, PTL DEF Spec

(* No byte of a chunk is reported in two records of one walk, and none     *)
(* outside the bytes that were read.                                       *)
THEOREM RecordsDisjoint == Spec => []NoOverlap
<1>1. WalkInv => NoOverlap
  BY DEF WalkInv
<1>. QED  BY <1>1, WalkInvariant, PTL

-----------------------------------------------------------------------------
(* A run of records is recovered whole.                                     *)

(* The cursor stands on every run until it has passed all of it. *)
RunInv ==
  \A S \in SUBSET Acceptable :
    IsRun(S) => /\ \A p \in S : p < pos => p \in Starts
                /\ pos \in S \/ \A p \in S : p < pos

(* Inside a run nothing begins between the record at the cursor and its    *)
(* successor: the least member beyond the cursor has a predecessor, which  *)
(* cannot lie before the cursor, because what was recovered there ends     *)
(* before it.                                                              *)
LEMMA RunSuccessor ==
  ASSUME TypeOK, WalkInv,
         NEW S \in SUBSET Acceptable, IsRun(S), pos \in S,
         \A p \in S : p < pos => p \in Starts,
         NEW p0 \in S, p0 > pos
  PROVE  pos + claim[pos].size \in S /\ pos + claim[pos].size <= p0
<1>1. \A p \in S : /\ p \in Nat
                   /\ claim[p].size \in Nat \ {0}
  BY AcceptedSize DEF Acceptable
<1>2. pos \in Nat
  BY DEF TypeOK
<1> DEFINE Beyond == { p \in S : p > pos }
<1>3. PICK m \in Beyond : \A p \in Beyond : m <= p
  <2>1. Beyond \subseteq Nat /\ Beyond # {}
    BY <1>1
  <2>. QED  BY <2>1, LeastNat
<1>4. PICK q \in S : q + claim[q].size = m
  BY <1>1, <1>2, <1>3 DEF IsRun
<1>5. q < m
  BY <1>1, <1>3, <1>4
<1>6. ~ (q > pos)
  BY <1>1, <1>3, <1>5
<1>7. ~ (q < pos)
  <2> SUFFICES ASSUME q < pos PROVE FALSE
    OBVIOUS
  <2>1. PICK i \in 1 .. Len(recs) : recs[i].pos = q
    BY DEF Starts
  <2>2. q + claim[q].size <= pos
    BY <2>1 DEF WalkInv
  <2>. QED  BY <1>1, <1>2, <1>3, <1>4, <2>2
<1>8. q = pos
  <2>1. q \in Nat
    BY <1>1, <1>4
  <2>. QED  BY <1>2, <1>6, <1>7, <2>1
<1>. QED  BY <1>3, <1>4, <1>8

LEMMA RunInvInductive ==
  ASSUME TypeOK, WalkInv, RunInv, [Next]_vars
  PROVE  RunInv'
<1>1. Acceptable' = Acceptable /\ \A S : IsRun(S)' <=> IsRun(S)
  BY ImageFixed DEF Acceptable, IsRun
<1>2. SUFFICES ASSUME NEW S \in SUBSET Acceptable, IsRun(S)
               PROVE  /\ \A p \in S : p < pos' => p \in Starts'
                      /\ pos' \in S \/ \A p \in S : p < pos'
  BY <1>1 DEF RunInv
<1>3. /\ \A p \in S : p < pos => p \in Starts
      /\ pos \in S \/ \A p \in S : p < pos
  BY <1>2 DEF RunInv
<1>4. \A p \in S : /\ p \in Nat /\ Accepts(p)
                   /\ claim[p].size \in Nat \ {0}
  BY AcceptedSize DEF Acceptable
<1>5. pos \in Nat
  BY DEF TypeOK
<1>6. CASE Recover
  <2>1. pos' = pos + claim[pos].size /\ claim[pos].size \in Nat \ {0}
    BY <1>6, AcceptedSize DEF Recover
  <2>2. Starts \cup {pos} \subseteq Starts'
    <3> DEFINE r == [pos |-> pos, size |-> claim[pos].size, mark |-> Mark(pos)]
    <3>1. recs' = Append(recs, r) /\ recs \in Seq(Records)
      BY <1>6 DEF Recover, TypeOK
    <3>2. /\ Len(recs') = Len(recs) + 1 /\ Len(recs) \in Nat
          /\ \A i \in 1 .. Len(recs) : recs'[i] = recs[i]
          /\ recs'[Len(recs) + 1] = r
      BY <3>1
    <3>. QED  BY <3>2 DEF Starts
  <2>3. CASE pos \in S
    <3>1. \A p \in S : p > pos => /\ pos' \in S
                                  /\ pos' <= p
      BY <1>2, <1>3, <2>1, <2>3, RunSuccessor
    <3>2. \A p \in S : p < pos' => p \in Starts'
      BY <1>3, <1>4, <1>5, <2>1, <2>2, <3>1
    <3>3. pos' \in S \/ \A p \in S : p < pos'
      BY <1>4, <1>5, <2>1, <3>1
    <3>. QED  BY <3>2, <3>3
  <2>4. CASE \A p \in S : p < pos
    BY <1>3, <1>4, <1>5, <2>1, <2>2, <2>4
  <2>. QED  BY <1>3, <2>3, <2>4
<1>7. CASE Miss \/ Reject
  <2>1. pos \notin S
    BY <1>4, <1>7 DEF Miss, Reject, Accepts
  <2>2. Starts' = Starts /\ pos' \in Nat /\ pos' > pos
    BY <1>7, <1>5, ConstAssumption DEF Miss, Reject, Starts, TypeOK
  <2>. QED  BY <1>3, <1>4, <1>5, <2>1, <2>2
<1>8. CASE Return \/ UNCHANGED vars
  BY <1>3, <1>8 DEF Return, vars, Starts
<1>. QED  BY <1>6, <1>7, <1>8 DEF Next

(* Whatever the sizes and whatever magics the payloads contain, records    *)
(* laid end to end from the start of a region are all recovered, by each   *)
(* of the walks that would accept them one by one.                         *)
THEOREM RunsAreRecovered == Spec => []RunRecovered
<1>1. Init => RunInv
  <2> SUFFICES ASSUME Init, NEW S \in SUBSET Acceptable, IsRun(S)
               PROVE  /\ \A p \in S : p < pos => p \in Starts
                      /\ pos \in S \/ \A p \in S : p < pos
    BY DEF RunInv
  <2>1. \A p \in S : p \in Nat
    BY DEF Acceptable, Positions
  <2>2. pos = 0 /\ (S # {} => 0 \in S)
    BY DEF Init, IsRun
  <2>. QED  BY <2>1, <2>2
<1>2. TypeOK /\ WalkInv /\ RunInv /\ [Next]_vars => RunInv'
  BY RunInvInductive
<1>3. RunInv => RunRecovered
  BY DEF RunInv, RunRecovered
<1>. QED  BY <1>1, <1>2, <1>3, TypeCorrect, WalkInvariant, PTL DEF Spec

-----------------------------------------------------------------------------
(* Nothing on the grid is skipped.                                          *)

(* The cursor itself stays on the grid. *)
GridInv ==
  SizesOnGrid =>
    /\ OnGrid(pos)
    /\ \A p \in Acceptable : p < pos /\ OnGrid(p) => Covered(p)

LEMMA GridInvInductive ==
  ASSUME TypeOK, GridInv, [Next]_vars
  PROVE  GridInv'
<1>1. /\ Acceptable' = Acceptable
      /\ SizesOnGrid' <=> SizesOnGrid
      /\ \A p : OnGrid(p)' <=> OnGrid(p)
      /\ mode' = mode
  BY ImageFixed DEF Acceptable, SizesOnGrid, OnGrid
<1>2. SUFFICES ASSUME SizesOnGrid
               PROVE  /\ OnGrid(pos')
                      /\ \A p \in Acceptable : p < pos' /\ OnGrid(p) => Covered(p)'
  BY <1>1 DEF GridInv, OnGrid
<1>3. /\ OnGrid(pos)
      /\ \A p \in Acceptable : p < pos /\ OnGrid(p) => Covered(p)
  BY <1>2 DEF GridInv
<1>4. pos \in Nat /\ Step[mode] \in Nat \ {0} /\ \A p \in Acceptable : p \in Nat
  BY ConstAssumption DEF TypeOK, Acceptable, Positions
<1>5. CASE Recover
  <2> DEFINE r == [pos |-> pos, size |-> claim[pos].size, mark |-> Mark(pos)]
  <2>1. recs' = Append(recs, r) /\ recs \in Seq(Records)
    BY <1>5 DEF Recover, TypeOK
  <2>2. /\ Len(recs') = Len(recs) + 1 /\ Len(recs) \in Nat
        /\ \A i \in 1 .. Len(recs) : recs'[i] = recs[i]
        /\ recs'[Len(recs) + 1] = r
    BY <2>1
  <2>3. pos' = pos + claim[pos].size /\ claim[pos].size \in Nat /\ pos \in Acceptable
    BY <1>5, AcceptedSize DEF Recover, Acceptable, Accepts, HasMagic
  <2>4. OnGrid(pos')
    BY <1>2, <1>3, <1>4, <2>3, GridSum DEF SizesOnGrid, OnGrid
  <2>5. ASSUME NEW p \in Acceptable, p < pos', OnGrid(p) PROVE Covered(p)'
    <3>1. CASE p < pos
      BY <1>3, <2>2, <2>5, <3>1 DEF Covered
    <3>2. CASE pos <= p
      BY <2>2, <2>3, <2>5, <3>2 DEF Covered
    <3>. QED  BY <1>4, <3>1, <3>2
  <2>. QED  BY <2>4, <2>5
<1>6. CASE Miss \/ Reject
  <2>1. /\ recs' = recs
        /\ pos' = pos + Step[mode]
        /\ pos \notin Acceptable
    BY <1>6 DEF Miss, Reject, Acceptable, Accepts
  <2>2. OnGrid(pos')
    <3>1. Step[mode] % Step[mode] = 0
      BY <1>4
    <3>. QED  BY <1>3, <1>4, <2>1, <3>1, GridSum DEF OnGrid
  <2>3. ASSUME NEW p \in Acceptable, p < pos', OnGrid(p) PROVE Covered(p)'
    <3>1. ~ (pos < p)
      BY <1>3, <1>4, <2>1, <2>3, GridGap DEF OnGrid
    <3>2. p < pos
      BY <1>4, <2>1, <3>1
    <3>. QED  BY <1>3, <2>1, <2>3, <3>2 DEF Covered
  <2>. QED  BY <2>2, <2>3
<1>7. CASE Return \/ UNCHANGED vars
  BY <1>3, <1>7 DEF Return, vars, Covered
<1>. QED  BY <1>5, <1>6, <1>7 DEF Next

(* Rejecting a claim hides nothing: with sizes that are multiples of the   *)
(* step (8-byte aligned records for the strict walk; always, for the       *)
(* free-space walk, whose step is one byte) every believable record on the *)
(* grid that the walk passed lies in a recovered record.                   *)
THEOREM NothingSkipped == Spec => []NoneSkipped
<1>1. Init => GridInv
  <2> SUFFICES ASSUME Init PROVE GridInv
    OBVIOUS
  <2>1. Step[mode] \in Nat \ {0} /\ pos = 0
    BY ConstAssumption DEF Init
  <2>2. 0 % Step[mode] = 0
    BY <2>1
  <2>. QED  BY <2>1, <2>2 DEF GridInv, OnGrid, Acceptable, Positions
<1>2. TypeOK /\ GridInv /\ [Next]_vars => GridInv'
  BY GridInvInductive
<1>3. GridInv => NoneSkipped
  BY DEF GridInv, NoneSkipped
<1>. QED  BY <1>1, <1>2, <1>3, TypeCorrect, PTL DEF Spec

-----------------------------------------------------------------------------
(* Sequences of anything.                                                   *)

(* Sequences joined in another order. *)
LEMMA ConcatAssociates ==
  ASSUME NEW r, IsSequence(r), NEW s, IsSequence(s), NEW t, IsSequence(t)
  PROVE  (r \o s) \o t = r \o (s \o t)
<1> DEFINE R == { r[k] : k \in DOMAIN r }
           S == { s[k] : k \in DOMAIN s }
           T == { t[k] : k \in DOMAIN t }
           U == R \cup S \cup T
<1>1. r \in Seq(R) /\ s \in Seq(S) /\ t \in Seq(T)
  BY SequenceIs
<1>2. R \subseteq U /\ S \subseteq U /\ T \subseteq U
  OBVIOUS
<1>. HIDE DEF R, S, T, U
<1>3. r \in Seq(U) /\ s \in Seq(U) /\ t \in Seq(U)
  BY <1>1, <1>2, SeqWider
<1>. QED  BY <1>3, ConcatAssociative

(* Nothing joined. *)
LEMMA ConcatNone ==
  ASSUME NEW s, IsSequence(s)
  PROVE  s \o <<>> = s /\ <<>> \o s = s
BY SequenceIs, ConcatEmptySeq

(* A sequence of one. *)
LEMMA OneIsSequence ==
  ASSUME NEW e
  PROVE  IsSequence(<<e>>) /\ Len(<<e>>) = 1 /\ <<e>>[1] = e
<1>1. <<e>> \in Seq({e})
  OBVIOUS
<1>. QED  BY <1>1, IsSequenceFrom

(* Sequences are equal if their elements are. *)
LEMMA SameSequence ==
  ASSUME NEW s, IsSequence(s), NEW t, IsSequence(t), Len(s) = Len(t),
         \A k \in 1 .. Len(t) : s[k] = t[k]
  PROVE  s = t
<1> DEFINE S == { s[k] : k \in DOMAIN s } \cup { t[k] : k \in DOMAIN t }
<1>1. s \in Seq({ s[k] : k \in DOMAIN s }) /\ t \in Seq({ t[k] : k \in DOMAIN t })
  BY SequenceIs
<1>2. s \in Seq(S) /\ t \in Seq(S)
  BY <1>1, SeqWider
<1>. HIDE DEF S
<1>. QED  BY <1>2, SeqEqual

(* The last element of a sequence, and what is before it. *)
LEMMA FrontIs ==
  ASSUME NEW s, IsSequence(s), s # <<>>
  PROVE  /\ IsSequence(Front(s)) /\ Len(s) \in Nat \ {0} /\ Len(Front(s)) = Len(s) - 1
         /\ \A k \in 1 .. Len(s) - 1 : Front(s)[k] = s[k]
         /\ Last(s) = s[Len(s)]
<1> DEFINE S == { s[k] : k \in DOMAIN s }
<1>1. s \in Seq(S) /\ Len(s) \in Nat
  BY SequenceIs
<1>. HIDE DEF S
<1>2. Len(s) # 0
  BY <1>1, EmptySeq, SeqEqual
<1>3. /\ SubSeq(s, 1, Len(s) - 1) \in Seq(S)
      /\ Len(SubSeq(s, 1, Len(s) - 1)) = Len(s) - 1
      /\ \A k \in 1 .. Len(s) - 1 : SubSeq(s, 1, Len(s) - 1)[k] = s[k]
  <2> DEFINE n == Len(s) - 1
  <2>1. n \in Int /\ n >= 0 /\ 1 \in Int
    BY <1>1, <1>2
  <2>2. \A k \in 1 .. n : s[k] \in S
    BY <1>1, LenProperties
  <2>. HIDE DEF n
  <2>3. /\ SubSeq(s, 1, n) \in Seq(S)
        /\ Len(SubSeq(s, 1, n)) = IF 1 <= n THEN n - 1 + 1 ELSE 0
        /\ \A k \in 1 .. n - 1 + 1 : SubSeq(s, 1, n)[k] = s[1 + k - 1]
    BY <2>1, <2>2, SubSeqProperties
  <2>4. Len(SubSeq(s, 1, n)) = n
    BY <2>1, <2>3
  <2>5. \A k \in 1 .. n : SubSeq(s, 1, n)[k] = s[k]
    <3>1. \A k \in 1 .. n : k \in 1 .. n - 1 + 1 /\ 1 + k - 1 = k
      BY <2>1
    <3>. QED  BY <2>3, <3>1
  <2>. QED  BY <2>3, <2>4, <2>5 DEF n
<1>. QED  BY <1>1, <1>2, <1>3, IsSequenceFrom DEF Front, Last

(* The last element replaced. *)
LEMMA Replaced ==
  ASSUME NEW s, IsSequence(s), s # <<>>, NEW e
  PROVE  LET t == Append(Front(s), e)
         IN /\ IsSequence(t) /\ Len(t) = Len(s) /\ Len(s) \in Nat \ {0} /\ t # <<>>
            /\ \A k \in 1 .. Len(s) - 1 : t[k] = s[k]
            /\ t[Len(s)] = e
            /\ Front(t) = Front(s) /\ Last(t) = e
<1> DEFINE t == Append(Front(s), e)
<1>1. /\ IsSequence(Front(s)) /\ Len(s) \in Nat \ {0} /\ Len(Front(s)) = Len(s) - 1
      /\ \A k \in 1 .. Len(s) - 1 : Front(s)[k] = s[k]
  BY FrontIs
<1>2. /\ IsSequence(t) /\ Len(t) = Len(Front(s)) + 1
      /\ \A k \in 1 .. Len(Front(s)) : t[k] = Front(s)[k]
      /\ t[Len(Front(s)) + 1] = e
  BY <1>1, AppendIsSequence
<1>3. Len(t) = Len(s) /\ t[Len(s)] = e /\ \A k \in 1 .. Len(s) - 1 : t[k] = s[k]
  BY <1>1, <1>2
<1>. HIDE DEF t
<1>4. t # <<>>
  BY <1>1, <1>3, NoneIsSequence
<1>5. IsSequence(Front(t)) /\ Len(Front(t)) = Len(t) - 1 /\ Last(t) = t[Len(t)]
      /\ \A k \in 1 .. Len(t) - 1 : Front(t)[k] = t[k]
  BY <1>2, <1>4, FrontIs
<1>6. Front(t) = Front(s)
  <2>1. \A k \in 1 .. Len(Front(s)) : Front(t)[k] = Front(s)[k]
    BY <1>1, <1>3, <1>5
  <2>2. Len(Front(t)) = Len(Front(s))
    BY <1>1, <1>3, <1>5
  <2>. QED  BY <1>1, <1>5, <2>1, <2>2, SameSequence
<1>. QED  BY <1>1, <1>2, <1>3, <1>4, <1>5, <1>6 DEF t

(* One element replaced. *)
LEMMA UpdatedSequence ==
  ASSUME NEW s, IsSequence(s), NEW k \in 1 .. Len(s), NEW e
  PROVE  LET t == [s EXCEPT ![k] = e]
         IN /\ IsSequence(t) /\ Len(t) = Len(s) /\ Len(s) \in Nat /\ t[k] = e
            /\ \A j \in 1 .. Len(s) : j # k => t[j] = s[j]
<1> DEFINE S == { s[j] : j \in DOMAIN s } \cup {e}
<1>1. s \in Seq({ s[j] : j \in DOMAIN s }) /\ Len(s) \in Nat /\ DOMAIN s = 1 .. Len(s)
  BY SequenceIs
<1>2. s \in Seq(S) /\ e \in S
  BY <1>1, SeqWider
<1>. HIDE DEF S
<1>3. /\ [s EXCEPT ![k] = e] \in Seq(S)
      /\ Len([s EXCEPT ![k] = e]) = Len(s)
      /\ \A j \in 1 .. Len(s) : [s EXCEPT ![k] = e][j] = IF j = k THEN e ELSE s[j]
  BY <1>2, ExceptSeq
<1>. QED  BY <1>1, <1>3, IsSequenceFrom

-----------------------------------------------------------------------------
(* The calls.                                                               *)

\* Values that can be put among nodes.
AreValues(vs) == IsSequence(vs) /\ \A k \in 1 .. Len(vs) : IsSequence(Content(vs[k]))

IsElement(n) == n = Element(n.elem, n.attrs, n.children) /\ IsSequence(n.attrs) /\ IsSequence(n.children)

IsLoop(f) ==
  /\ f = [call |-> "run", pos |-> f.pos, end |-> f.end, scope |-> f.scope, steps |-> f.steps,
          list |-> f.list, over |-> f.over, open |-> f.open, roots |-> f.roots]
  /\ f.pos \in Nat /\ f.end \in Nat /\ f.steps \in 0 .. MaxTokens
  /\ f.list \in BOOLEAN /\ f.over \in BOOLEAN
  /\ AreValues(f.scope.vals)
  /\ IsSequence(f.open) /\ Len(f.open) <= MaxDepth /\ \A k \in 1 .. Len(f.open) : IsElement(f.open[k])
  /\ IsSequence(f.roots)
  /\ f.list => f.open # <<>> /\ ~f.over /\ Last(f.open).children = <<>>

IsInstance(f) ==
  /\ f = [call |-> "instance", pos |-> f.pos, body |-> f.body, end |-> f.end, todo |-> f.todo, vals |-> f.vals]
  /\ f.pos \in Nat /\ f.body \in Nat /\ f.end \in Nat
  /\ f.todo \in Seq(Descriptors) /\ AreValues(f.vals)
  /\ Len(f.vals) + Len(f.todo) <= MaxValues

\* The nodes read so far in the i-th open element, or outside of all.
Level(f, i) == IF i = 0 THEN f.roots ELSE f.open[i].children
Depth(f) == Len(f.open)

\* Below level k, two calls of the token loop differ in nothing.
SameBelow(f, f2, k) ==
  /\ f2.end = f.end /\ f2.scope = f.scope
  /\ \A i \in 0 .. k - 1 : /\ Level(f2, i) = Level(f, i)
                           /\ f2.open[i + 1].elem = f.open[i + 1].elem
                           /\ f2.open[i + 1].attrs = f.open[i + 1].attrs

SameCall(f, f2) ==
  /\ f2.call = f.call /\ f2.pos = f.pos /\ f2.end = f.end /\ f2.scope = f.scope
  /\ f2.steps = f.steps /\ f2.list = f.list /\ f2.over = f.over

(* Fields replaced, one at a time. *)
LEMMA RunWithRoots ==
  ASSUME NEW f, IsLoop(f), NEW r
  PROVE  [f EXCEPT !.roots = r] =
           [call |-> "run", pos |-> f.pos, end |-> f.end, scope |-> f.scope, steps |-> f.steps,
            list |-> f.list, over |-> f.over, open |-> f.open, roots |-> r]
<1>1. PICK p, e, s, n, l, v, o, q :
        f = [call |-> "run", pos |-> p, end |-> e, scope |-> s, steps |-> n, list |-> l, over |-> v, open |-> o, roots |-> q]
  BY DEF IsLoop
<1>. QED  BY <1>1

LEMMA RunWithOpen ==
  ASSUME NEW f, IsLoop(f), NEW r
  PROVE  [f EXCEPT !.open = r] =
           [call |-> "run", pos |-> f.pos, end |-> f.end, scope |-> f.scope, steps |-> f.steps,
            list |-> f.list, over |-> f.over, open |-> r, roots |-> f.roots]
<1>1. PICK p, e, s, n, l, v, o, q :
        f = [call |-> "run", pos |-> p, end |-> e, scope |-> s, steps |-> n, list |-> l, over |-> v, open |-> o, roots |-> q]
  BY DEF IsLoop
<1>. QED  BY <1>1

LEMMA ElementWithChildren ==
  ASSUME NEW n, IsElement(n), NEW cs
  PROVE  [n EXCEPT !.children = cs] = Element(n.elem, n.attrs, cs)
<1>1. PICK x, ats, old : n = Element(x, ats, old)
  BY DEF IsElement
<1>2. n.elem = x /\ n.attrs = ats /\ [n EXCEPT !.children = cs] = [elem |-> x, attrs |-> ats, children |-> cs]
  BY <1>1 DEF Element
<1>. QED  BY <1>2 DEF Element

(* Nodes are added at the innermost level. *)
LEMMA AttachIs ==
  ASSUME NEW f, IsLoop(f), ~f.list, NEW ns, IsSequence(ns)
  PROVE  LET f2 == Attach(f, ns)
         IN /\ IsLoop(f2) /\ SameCall(f, f2) /\ Depth(f2) = Depth(f) /\ SameBelow(f, f2, Depth(f))
            /\ Level(f2, Depth(f)) = Level(f, Depth(f)) \o ns
<1> DEFINE f2 == Attach(f, ns)
<1>0. /\ Len(f.open) \in Nat /\ (f.open # <<>> => Len(f.open) # 0) /\ (f.open = <<>> => Len(f.open) = 0)
      /\ IsSequence(f.roots)
  BY SequenceIs, NoneIsSequence, FrontIs DEF IsLoop
<1>1. CASE f.open = <<>>
  <2>1. f2 = [f EXCEPT !.roots = f.roots \o ns]
    BY <1>1 DEF Attach
  <2>2. IsSequence(f.roots \o ns)
    BY <1>0, ConcatIsSequence
  <2>3. /\ f2 = [call |-> "run", pos |-> f.pos, end |-> f.end, scope |-> f.scope, steps |-> f.steps,
                 list |-> f.list, over |-> f.over, open |-> f.open, roots |-> f.roots \o ns]
    BY <2>1, RunWithRoots
  <2>. HIDE DEF f2
  <2>4. IsLoop(f2)
    BY <2>2, <2>3 DEF IsLoop
  <2>5. SameCall(f, f2) /\ f2.open = f.open /\ f2.roots = f.roots \o ns
    BY <2>3 DEF IsLoop, SameCall
  <2>6. SameBelow(f, f2, Depth(f)) /\ Level(f2, Depth(f)) = Level(f, Depth(f)) \o ns /\ Depth(f2) = Depth(f)
    BY <1>0, <1>1, <2>5 DEF SameBelow, SameCall, Level, Depth
  <2>. QED  BY <2>4, <2>5, <2>6 DEF f2
<1>2. CASE f.open # <<>>
  <2> DEFINE k == Len(f.open)
             e == [f.open[k] EXCEPT !.children = @ \o ns]
             o == [f.open EXCEPT ![k] = e]
  <2>1. f2 = [f EXCEPT !.open = o]
    BY <1>2 DEF Attach
  <2>2. k \in 1 .. Len(f.open)
    BY <1>0, <1>2
  <2>3. IsElement(f.open[k])
    BY <2>2 DEF IsLoop
  <2>4. e = Element(f.open[k].elem, f.open[k].attrs, f.open[k].children \o ns)
    BY <2>3, ElementWithChildren
  <2>. HIDE DEF e
  <2>5. /\ e.elem = f.open[k].elem /\ e.attrs = f.open[k].attrs /\ e.children = f.open[k].children \o ns
    BY <2>4 DEF Element
  <2>6. IsElement(e)
    BY <2>3, <2>4, <2>5, ConcatIsSequence DEF IsElement
  <2>7. /\ IsSequence(o) /\ Len(o) = k /\ o[k] = e /\ \A j \in 1 .. k : j # k => o[j] = f.open[j]
    <3>1. IsSequence(f.open)
      BY DEF IsLoop
    <3>2. PICK s : s = f.open
      OBVIOUS
    <3>3. PICK i : i = k
      OBVIOUS
    <3>4. PICK x : x = e
      OBVIOUS
    <3>5. /\ IsSequence([s EXCEPT ![i] = x]) /\ Len([s EXCEPT ![i] = x]) = Len(s)
          /\ [s EXCEPT ![i] = x][i] = x
          /\ \A j \in 1 .. Len(s) : j # i => [s EXCEPT ![i] = x][j] = s[j]
      <4>1. IsSequence(s) /\ i \in 1 .. Len(s)
        BY <2>2, <3>1, <3>2, <3>3
      <4>. QED  BY <4>1, UpdatedSequence
    <3>. QED  BY <3>2, <3>3, <3>4, <3>5
  <2>8. \A j \in 1 .. k : IsElement(o[j])
    BY <2>6, <2>7 DEF IsLoop
  <2>. HIDE DEF o
  <2>9. f2 = [call |-> "run", pos |-> f.pos, end |-> f.end, scope |-> f.scope, steps |-> f.steps,
              list |-> f.list, over |-> f.over, open |-> o, roots |-> f.roots]
    BY <2>1, RunWithOpen
  <2>. HIDE DEF f2
  <2>10. IsLoop(f2)
    BY <2>7, <2>8, <2>9 DEF IsLoop
  <2>11. SameCall(f, f2) /\ f2.open = o /\ f2.roots = f.roots
    BY <2>9 DEF IsLoop, SameCall
  <2>. HIDE DEF k
  <2>12. Depth(f2) = Depth(f)
    BY <2>7, <2>11 DEF Depth, k
  <2>13. Level(f2, Depth(f)) = Level(f, Depth(f)) \o ns
    BY <1>0, <1>2, <2>5, <2>7, <2>11 DEF Depth, Level, k
  <2>14. \A i \in 0 .. k - 1 : /\ Level(f2, i) = Level(f, i)
                               /\ f2.open[i + 1].elem = f.open[i + 1].elem
                               /\ f2.open[i + 1].attrs = f.open[i + 1].attrs
    <3> SUFFICES ASSUME NEW i \in 0 .. k - 1
                 PROVE  /\ Level(f2, i) = Level(f, i)
                        /\ f2.open[i + 1].elem = f.open[i + 1].elem
                        /\ f2.open[i + 1].attrs = f.open[i + 1].attrs
      OBVIOUS
    <3>1. k \in Nat /\ i + 1 \in 1 .. k /\ (i # 0 => i \in 1 .. k /\ i # k)
      BY <1>0 DEF k
    <3>2. Level(f2, i) = Level(f, i)
      BY <2>7, <2>11, <3>1 DEF Level
    <3>3. o[i + 1] = f.open[i + 1] \/ i + 1 = k
      BY <2>7, <3>1
    <3>. QED  BY <2>5, <2>7, <2>11, <3>2, <3>3
  <2>15. SameBelow(f, f2, Depth(f))
    BY <2>11, <2>14 DEF SameBelow, SameCall, Depth, k
  <2>. QED  BY <2>10, <2>11, <2>12, <2>13, <2>15 DEF f2
<1>. QED  BY <1>1, <1>2

\* Two calls have read the same nodes, for the same fragment.
SameNodes(f, f2) ==
  f2.call = f.call /\ f2.end = f.end /\ f2.scope = f.scope /\ f2.open = f.open /\ f2.roots = f.roots

(* Such calls have the same levels. *)
LEMMA SameNodesBelow ==
  ASSUME NEW f, NEW f2, SameNodes(f, f2)
  PROVE  /\ Depth(f2) = Depth(f) /\ SameBelow(f, f2, Depth(f)) /\ \A i : Level(f2, i) = Level(f, i)
<1>1. f2.end = f.end /\ f2.scope = f.scope /\ f2.open = f.open /\ f2.roots = f.roots
  BY DEF SameNodes
<1>2. Depth(f2) = Depth(f) /\ \A i : Level(f2, i) = Level(f, i)
  BY <1>1 DEF Level, Depth
<1>3. SameBelow(f, f2, Depth(f))
  <2>. QED  BY <1>1, <1>2 DEF SameBelow
<1>. QED  BY <1>2, <1>3

(* A token is read. *)
LEMMA ReadIs ==
  ASSUME NEW f, IsLoop(f), ~f.list, f.steps < MaxTokens
  PROVE  LET f2 == Read(f)
         IN /\ IsLoop(f2) /\ SameNodes(f, f2) /\ f2.pos = f.pos + 1 /\ f2.steps = f.steps + 1
            /\ f2.list = f.list /\ f2.over = f.over
<1> DEFINE f2 == Read(f)
<1>1. PICK p, e, s, n, l, v, o, q :
        f = [call |-> "run", pos |-> p, end |-> e, scope |-> s, steps |-> n, list |-> l, over |-> v, open |-> o, roots |-> q]
  BY DEF IsLoop
<1>2. f2 = [call |-> "run", pos |-> f.pos + 1, end |-> f.end, scope |-> f.scope, steps |-> f.steps + 1,
            list |-> f.list, over |-> f.over, open |-> f.open, roots |-> f.roots]
  <2>1. PICK a, b : a = f.pos + 1 /\ b = f.steps + 1
    OBVIOUS
  <2>2. f2 = [f EXCEPT !.pos = a, !.steps = b]
    BY <2>1 DEF Read
  <2>. HIDE DEF f2
  <2>. QED  BY <1>1, <2>1, <2>2
<1>3. f.pos + 1 \in Nat /\ f.steps + 1 \in 0 .. MaxTokens /\ f.call = "run"
  BY DecoderAssumption DEF IsLoop
<1>. HIDE DEF f2
<1>4. IsLoop(f2)
  BY <1>2, <1>3 DEF IsLoop
<1>. QED  BY <1>2, <1>3, <1>4 DEF SameNodes, f2

(* The loop has ended. *)
LEMMA StoppedIs ==
  ASSUME NEW f, IsLoop(f), ~f.list
  PROVE  LET f2 == [f EXCEPT !.over = TRUE]
         IN IsLoop(f2) /\ SameNodes(f, f2) /\ f2.pos = f.pos /\ f2.steps = f.steps /\ f2.list = f.list /\ f2.over
<1> DEFINE f2 == [f EXCEPT !.over = TRUE]
<1>1. PICK p, e, s, n, l, v, o, q :
        f = [call |-> "run", pos |-> p, end |-> e, scope |-> s, steps |-> n, list |-> l, over |-> v, open |-> o, roots |-> q]
  BY DEF IsLoop
<1>2. f2 = [call |-> "run", pos |-> f.pos, end |-> f.end, scope |-> f.scope, steps |-> f.steps,
            list |-> f.list, over |-> TRUE, open |-> f.open, roots |-> f.roots]
  <2>1. PICK a : a = TRUE
    OBVIOUS
  <2>2. f2 = [f EXCEPT !.over = a]
    BY <2>1
  <2>. HIDE DEF f2
  <2>. QED  BY <1>1, <2>1, <2>2
<1>3. f.call = "run"
  BY DEF IsLoop
<1>. HIDE DEF f2
<1>4. IsLoop(f2)
  BY <1>2 DEF IsLoop
<1>. QED  BY <1>2, <1>3, <1>4 DEF SameNodes, f2

(* The cursor is set. *)
LEMMA MovedIs ==
  ASSUME NEW f, IsLoop(f), NEW x \in Nat
  PROVE  LET f2 == [f EXCEPT !.pos = x]
         IN /\ IsLoop(f2) /\ SameNodes(f, f2) /\ f2.pos = x /\ f2.steps = f.steps
            /\ f2.list = f.list /\ f2.over = f.over
<1> DEFINE f2 == [f EXCEPT !.pos = x]
<1>1. PICK p, e, s, n, l, v, o, q :
        f = [call |-> "run", pos |-> p, end |-> e, scope |-> s, steps |-> n, list |-> l, over |-> v, open |-> o, roots |-> q]
  BY DEF IsLoop
<1>2. f2 = [call |-> "run", pos |-> x, end |-> f.end, scope |-> f.scope, steps |-> f.steps,
            list |-> f.list, over |-> f.over, open |-> f.open, roots |-> f.roots]
  BY <1>1
<1>3. f.call = "run"
  BY DEF IsLoop
<1>. HIDE DEF f2
<1>4. IsLoop(f2)
  BY <1>2 DEF IsLoop
<1>. QED  BY <1>2, <1>3, <1>4 DEF SameNodes, f2

(* The attributes end. *)
LEMMA NoMoreIs ==
  ASSUME NEW f, IsLoop(f)
  PROVE  LET f2 == NoMore(f)
         IN /\ IsLoop(f2) /\ SameNodes(f, f2) /\ f2.pos = f.pos /\ f2.steps = f.steps
            /\ ~f2.list /\ f2.over = f.over
<1> DEFINE f2 == NoMore(f)
<1>1. PICK p, e, s, n, l, v, o, q :
        f = [call |-> "run", pos |-> p, end |-> e, scope |-> s, steps |-> n, list |-> l, over |-> v, open |-> o, roots |-> q]
  BY DEF IsLoop
<1>2. f2 = [call |-> "run", pos |-> f.pos, end |-> f.end, scope |-> f.scope, steps |-> f.steps,
            list |-> FALSE, over |-> f.over, open |-> f.open, roots |-> f.roots]
  <2>1. PICK a : a = FALSE
    OBVIOUS
  <2>2. f2 = [f EXCEPT !.list = a]
    BY <2>1 DEF NoMore
  <2>. HIDE DEF f2
  <2>. QED  BY <1>1, <2>1, <2>2
<1>3. f.call = "run"
  BY DEF IsLoop
<1>. HIDE DEF f2
<1>4. IsLoop(f2)
  BY <1>2 DEF IsLoop
<1>. QED  BY <1>2, <1>3, <1>4 DEF SameNodes, f2

(* An element is opened behind a start tag. *)
Opened(f, f2, x, n, ls) ==
  /\ IsLoop(f2) /\ f2.call = f.call /\ f2.pos = x /\ f2.end = f.end /\ f2.scope = f.scope
  /\ f2.steps = f.steps + 1 /\ f2.list = ls /\ f2.over = f.over
  /\ Depth(f2) = Depth(f) + 1 /\ Depth(f) < MaxDepth /\ SameBelow(f, f2, Depth(f))
  /\ Level(f2, Depth(f)) = Level(f, Depth(f))
  /\ f2.open[Depth(f) + 1] = Element(n, <<>>, <<>>)

(* What OpenElement does to its call. *)
LEMMA OpenedIs ==
  ASSUME NEW f, IsLoop(f), ~f.list, ~f.over, f.steps < MaxTokens, ~TooDeep(f),
         NEW x \in Nat, NEW n, NEW ls \in BOOLEAN
  PROVE  Opened(f, [Read(f) EXCEPT !.pos = x, !.open = Append(@, Elem(n)), !.list = ls], x, n, ls)
<1> DEFINE f2 == [Read(f) EXCEPT !.pos = x, !.open = Append(@, Elem(n)), !.list = ls]
           o2 == Append(f.open, Elem(n))
<1>1. PICK p, e, s, k, l, v, o, q :
        f = [call |-> "run", pos |-> p, end |-> e, scope |-> s, steps |-> k, list |-> l, over |-> v, open |-> o, roots |-> q]
  BY DEF IsLoop
<1>2. f2 = [call |-> "run", pos |-> x, end |-> f.end, scope |-> f.scope, steps |-> f.steps + 1,
            list |-> ls, over |-> f.over, open |-> o2, roots |-> f.roots]
  <2>1. PICK a, b, c : a = f.pos + 1 /\ b = f.steps + 1 /\ c = o2
    OBVIOUS
  <2>2. f2 = [[f EXCEPT !.pos = a, !.steps = b] EXCEPT !.pos = x, !.open = Append(@, Elem(n)), !.list = ls]
    BY <2>1 DEF Read
  <2>3. [f EXCEPT !.pos = a, !.steps = b].open = f.open
    BY <1>1
  <2>4. f2 = [[f EXCEPT !.pos = a, !.steps = b] EXCEPT !.pos = x, !.open = c, !.list = ls]
    BY <2>1, <2>2, <2>3
  <2>. HIDE DEF f2, o2
  <2>. QED  BY <1>1, <2>1, <2>4
<1>3. Elem(n) = Element(n, <<>>, <<>>) /\ IsElement(Elem(n)) /\ Elem(n).children = <<>>
  BY NoneIsSequence DEF Elem, Element, IsElement
<1>4. /\ IsSequence(o2) /\ Len(f.open) \in Nat /\ Len(o2) = Len(f.open) + 1
      /\ \A j \in 1 .. Len(f.open) : o2[j] = f.open[j]
      /\ o2[Len(f.open) + 1] = Elem(n)
  BY AppendIsSequence DEF IsLoop
<1>5. Len(f.open) < MaxDepth /\ \A j \in 1 .. Len(f.open) : IsElement(f.open[j])
  BY <1>4, DecoderAssumption DEF IsLoop, TooDeep
<1>6. \A j \in 1 .. Len(o2) : IsElement(o2[j])
  BY <1>3, <1>4, <1>5
<1>7. o2 # <<>> /\ Last(o2).children = <<>>
  BY <1>3, <1>4, NoneIsSequence DEF Last
<1>8. f.steps + 1 \in 0 .. MaxTokens /\ f.call = "run"
  BY DecoderAssumption DEF IsLoop
<1>. HIDE DEF f2, o2
<1>9. IsLoop(f2)
  <2>1. Len(o2) <= MaxDepth
    BY <1>4, <1>5, DecoderAssumption
  <2>2. /\ f.end \in Nat /\ AreValues(f.scope.vals) /\ IsSequence(f.roots) /\ f.over \in BOOLEAN
    BY DEF IsLoop
  <2>. QED  BY <1>2, <1>4, <1>6, <1>7, <1>8, <2>1, <2>2 DEF IsLoop
<1>10. /\ f2.open = o2 /\ f2.roots = f.roots /\ f2.end = f.end /\ f2.scope = f.scope
  BY <1>2
<1>11. \A i \in 0 .. Len(f.open) : Level(f2, i) = Level(f, i)
  BY <1>4, <1>10 DEF Level
<1>12. SameBelow(f, f2, Depth(f))
  <2>1. \A i \in 0 .. Len(f.open) - 1 : i \in 0 .. Len(f.open) /\ i + 1 \in 1 .. Len(f.open)
    BY <1>4
  <2>. QED  BY <1>4, <1>10, <1>11, <2>1 DEF SameBelow, Depth
<1>13. Depth(f2) = Depth(f) + 1 /\ Depth(f) < MaxDepth /\ Level(f2, Depth(f)) = Level(f, Depth(f))
  <2>1. Len(f.open) \in 0 .. Len(f.open)
    BY <1>4
  <2>. QED  BY <1>4, <1>5, <1>10, <1>11, <2>1 DEF Depth
<1>14. f2.open[Depth(f) + 1] = Element(n, <<>>, <<>>)
  BY <1>3, <1>4, <1>10 DEF Depth
<1>15. Opened(f, f2, x, n, ls)
  BY <1>2, <1>8, <1>9, <1>12, <1>13, <1>14 DEF Opened
<1>. QED  BY <1>15 DEF f2

(* The innermost element is given an attribute. *)
Attributed(f, f2, x, at) ==
  LET k == Depth(f)
  IN /\ IsLoop(f2) /\ f2.call = f.call /\ f2.pos = x /\ f2.end = f.end /\ f2.scope = f.scope
     /\ f2.steps = f.steps /\ f2.list = f.list /\ f2.over = f.over
     /\ Depth(f2) = k /\ k \in Nat \ {0} /\ SameBelow(f, f2, k - 1)
     /\ \A i \in 0 .. k : Level(f2, i) = Level(f, i)
     /\ f2.open[k].elem = f.open[k].elem
     /\ f2.open[k].attrs = Append(f.open[k].attrs, at)

(* What Attribute does to its call. *)
LEMMA WithAttributeIs ==
  ASSUME NEW f, IsLoop(f), f.list, NEW n, NEW tx, NEW x \in Nat
  PROVE  Attributed(f, [WithAttribute(f, n, tx) EXCEPT !.pos = x], x, [name |-> n, text |-> tx])
<1> DEFINE f2 == [WithAttribute(f, n, tx) EXCEPT !.pos = x]
           k  == Len(f.open)
           at == [name |-> n, text |-> tx]
           ats == Append(f.open[k].attrs, at)
           el == [f.open[k] EXCEPT !.attrs = Append(@, at)]
           o2 == [f.open EXCEPT ![k] = el]
<1>1. PICK p, e, s, m, l, v, o, q :
        f = [call |-> "run", pos |-> p, end |-> e, scope |-> s, steps |-> m, list |-> l, over |-> v, open |-> o, roots |-> q]
  BY DEF IsLoop
<1>2. f2 = [call |-> "run", pos |-> x, end |-> f.end, scope |-> f.scope, steps |-> f.steps,
            list |-> f.list, over |-> f.over, open |-> o2, roots |-> f.roots]
  <2>1. WithAttribute(f, n, tx) = [f EXCEPT !.open = o2]
    BY DEF WithAttribute
  <2>2. PICK c : c = o2
    OBVIOUS
  <2>3. f2 = [[f EXCEPT !.open = c] EXCEPT !.pos = x]
    BY <2>1, <2>2
  <2>. HIDE DEF f2, o2
  <2>. QED  BY <1>1, <2>2, <2>3
<1>3. k \in Nat \ {0} /\ k \in 1 .. Len(f.open) /\ IsSequence(f.open) /\ Last(f.open) = f.open[k]
  BY FrontIs DEF IsLoop
<1>4. IsElement(f.open[k])
  BY <1>3 DEF IsLoop
<1>. HIDE DEF at
<1>5. el = Element(f.open[k].elem, ats, f.open[k].children)
  <2>1. PICK y, bs, cs : f.open[k] = Element(y, bs, cs)
    BY <1>4 DEF IsElement
  <2>2. f.open[k].elem = y /\ f.open[k].attrs = bs /\ f.open[k].children = cs
    BY <2>1 DEF Element
  <2>3. el = [elem |-> y, attrs |-> Append(bs, at), children |-> cs]
    <3>1. PICK z : z = Append(bs, at)
      OBVIOUS
    <3>2. el = [Element(y, bs, cs) EXCEPT !.attrs = z]
      BY <2>1, <2>2, <3>1, Zenon
    <3>3. [Element(y, bs, cs) EXCEPT !.attrs = z] = [elem |-> y, attrs |-> z, children |-> cs]
      BY DEF Element
    <3>. QED  BY <3>1, <3>2, <3>3
  <2>. QED  BY <2>2, <2>3 DEF Element
<1>6. IsSequence(ats)
  BY <1>4, AppendIsSequence DEF IsElement
<1>. HIDE DEF el, ats
<1>7. el.elem = f.open[k].elem /\ el.attrs = ats /\ el.children = f.open[k].children
  BY <1>5 DEF Element
<1>8. IsElement(el)
  BY <1>4, <1>5, <1>6, <1>7 DEF IsElement
<1>9. /\ IsSequence(o2) /\ Len(o2) = k /\ o2[k] = el /\ \A j \in 1 .. k : j # k => o2[j] = f.open[j]
  <2>1. PICK s1 : s1 = f.open
    OBVIOUS
  <2>2. PICK i : i = k
    OBVIOUS
  <2>3. PICK y : y = el
    OBVIOUS
  <2>4. /\ IsSequence([s1 EXCEPT ![i] = y]) /\ Len([s1 EXCEPT ![i] = y]) = Len(s1)
        /\ [s1 EXCEPT ![i] = y][i] = y
        /\ \A j \in 1 .. Len(s1) : j # i => [s1 EXCEPT ![i] = y][j] = s1[j]
    <3>1. IsSequence(s1) /\ i \in 1 .. Len(s1)
      BY <1>3, <2>1, <2>2
    <3>. QED  BY <3>1, UpdatedSequence
  <2>. QED  BY <2>1, <2>2, <2>3, <2>4
<1>. HIDE DEF o2
<1>10. \A j \in 1 .. Len(o2) : IsElement(o2[j])
  BY <1>3, <1>8, <1>9 DEF IsLoop
<1>11. o2 # <<>> /\ Last(o2).children = <<>>
  BY <1>3, <1>7, <1>9, NoneIsSequence DEF IsLoop, Last
<1>12. f.call = "run"
  BY DEF IsLoop
<1>. HIDE DEF f2
<1>13. IsLoop(f2)
  <2>2. /\ f.end \in Nat /\ AreValues(f.scope.vals) /\ IsSequence(f.roots) /\ f.over \in BOOLEAN
        /\ f.steps \in 0 .. MaxTokens /\ f.list \in BOOLEAN /\ Len(f.open) <= MaxDepth /\ ~f.over
    BY DEF IsLoop
  <2>. QED  BY <1>2, <1>3, <1>9, <1>10, <1>11, <2>2 DEF IsLoop
<1>14. f2.open = o2 /\ f2.roots = f.roots /\ f2.end = f.end /\ f2.scope = f.scope
  BY <1>2
<1>15. \A i \in 0 .. k : Level(f2, i) = Level(f, i)
  BY <1>3, <1>7, <1>9, <1>14 DEF Level
<1>16. SameBelow(f, f2, k - 1)
  <2>1. \A i \in 0 .. k - 1 - 1 : i \in 0 .. k /\ i + 1 \in 1 .. k /\ i + 1 # k
    BY <1>3
  <2>2. \A i \in 0 .. k - 1 - 1 : f2.open[i + 1] = f.open[i + 1]
    BY <1>9, <1>14, <2>1
  <2>. QED  BY <1>14, <1>15, <2>1, <2>2 DEF SameBelow
<1>17. Depth(f2) = k /\ f2.open[k].elem = f.open[k].elem /\ f2.open[k].attrs = ats
  BY <1>7, <1>9, <1>14 DEF Depth
<1>18. Attributed(f, f2, x, at)
  <2>. HIDE DEF at
  <2>. QED  BY <1>2, <1>3, <1>12, <1>13, <1>15, <1>16, <1>17 DEF ats, Depth, Attributed
<1>. QED  BY <1>18 DEF f2, at

(* The innermost element is closed: it is a node of the level below. *)
LEMMA CloseIs ==
  ASSUME NEW f, IsLoop(f), ~f.list, f.open # <<>>
  PROVE  LET f2 == Close(f)
             k  == Depth(f)
         IN /\ IsLoop(f2) /\ SameCall(f, f2) /\ k \in Nat \ {0} /\ Depth(f2) = k - 1 /\ SameBelow(f, f2, k - 1)
            /\ Level(f2, k - 1) = Level(f, k - 1) \o <<Element(f.open[k].elem, f.open[k].attrs, Level(f, k))>>
<1> DEFINE f1 == [f EXCEPT !.open = Front(@)]
           f2 == Close(f)
           k  == Depth(f)
<1>1. f1 = [call |-> "run", pos |-> f.pos, end |-> f.end, scope |-> f.scope, steps |-> f.steps,
            list |-> f.list, over |-> f.over, open |-> Front(f.open), roots |-> f.roots]
  <2>1. [f EXCEPT !.open = Front(@)] = [f EXCEPT !.open = Front(f.open)]
    OBVIOUS
  <2>. QED  BY <2>1, RunWithOpen
<1>2. /\ IsSequence(Front(f.open)) /\ k \in Nat \ {0} /\ Len(Front(f.open)) = k - 1
      /\ \A j \in 1 .. k - 1 : Front(f.open)[j] = f.open[j]
      /\ Last(f.open) = f.open[k]
  BY FrontIs DEF IsLoop, Depth
<1>3. \A j \in 1 .. k : IsElement(f.open[j])
  BY DEF IsLoop, Depth
<1>. HIDE DEF f1, f2
<1>4. f1.open = Front(f.open) /\ f1.roots = f.roots
  BY <1>1
<1>5. IsLoop(f1) /\ ~f1.list /\ SameCall(f, f1)
  <2>1. /\ f.pos \in Nat /\ f.end \in Nat /\ AreValues(f.scope.vals) /\ IsSequence(f.roots) /\ f.over \in BOOLEAN
        /\ f.steps \in 0 .. MaxTokens /\ f.list \in BOOLEAN /\ Len(f.open) <= MaxDepth /\ f.call = "run"
    BY DEF IsLoop
  <2>2. Len(Front(f.open)) <= MaxDepth
    BY <1>2, <2>1, DecoderAssumption DEF Depth
  <2>3. \A j \in 1 .. Len(Front(f.open)) : IsElement(Front(f.open)[j])
    BY <1>2, <1>3
  <2>. QED  BY <1>1, <1>2, <2>1, <2>2, <2>3 DEF IsLoop, SameCall
<1>6. Depth(f1) = k - 1 /\ \A i \in 0 .. k - 1 : Level(f1, i) = Level(f, i)
  BY <1>2, <1>4 DEF Depth, Level
<1>7. SameBelow(f, f1, k - 1)
  <2>1. \A i \in 0 .. k - 1 - 1 : i \in 0 .. k - 1 /\ i + 1 \in 1 .. k - 1
    BY <1>2
  <2>2. f1.end = f.end /\ f1.scope = f.scope
    BY <1>5 DEF SameCall
  <2>. QED  BY <1>2, <1>4, <1>6, <2>1, <2>2 DEF SameBelow
<1>8. f2 = Attach(f1, <<Last(f.open)>>)
  BY DEF f2, f1, Close
<1>9. /\ IsLoop(f2) /\ SameCall(f1, f2) /\ Depth(f2) = Depth(f1) /\ SameBelow(f1, f2, Depth(f1))
      /\ Level(f2, Depth(f1)) = Level(f1, Depth(f1)) \o <<Last(f.open)>>
  BY <1>5, <1>8, OneIsSequence, AttachIs
<1>10. Last(f.open) = Element(f.open[k].elem, f.open[k].attrs, Level(f, k))
  BY <1>2, <1>3 DEF IsElement, Level
<1>11. SameCall(f, f2)
  BY <1>5, <1>9 DEF SameCall
<1>12. SameBelow(f, f2, k - 1)
  BY <1>6, <1>7, <1>9 DEF SameBelow
<1>13. Level(f2, k - 1) = Level(f, k - 1) \o <<Last(f.open)>>
  <2>1. k - 1 \in 0 .. k - 1
    BY <1>2
  <2>. QED  BY <1>6, <1>9, <2>1
<1>. QED  BY <1>2, <1>6, <1>9, <1>10, <1>11, <1>12, <1>13 DEF f2

-----------------------------------------------------------------------------
(* The token loop: what it has read, in a reading g.                        *)

(* What a call of the token loop has read so far is what any reading has   *)
(* to say of it. Level i begins at P[i], after N[i] tokens.                 *)

\* Whatever follows, from p on, follows what the innermost level holds.
Continues(g, f, P, N, p, n) ==
  LET k == Depth(f)
  IN \A rest, q, m, tag :
       Says(g, p, f.end, f.scope, n, k, rest, q, m, tag)
         => Says(g, P[k], f.end, f.scope, N[k], k, Level(f, k) \o rest, q, m, tag)

\* The innermost level ends with the fragment.
Finishes(g, f, P, N) ==
  LET k == Depth(f)
  IN \E q, m : Says(g, P[k], f.end, f.scope, N[k], k, Level(f, k), q, m, FALSE)

\* Level i + 1 begins at p, behind the start tag of an element of level i.
Encloses(g, f, P, N, i, ats, p, n) ==
  \A cs, q, m :
    LET it == Level(f, i) \o <<Element(f.open[i + 1].elem, ats, cs)>>
    IN /\ Says(g, p, f.end, f.scope, n, i + 1, cs, q, m, FALSE)
            => Says(g, P[i], f.end, f.scope, N[i], i, it, q, m, FALSE)
       /\ Says(g, p, f.end, f.scope, n, i + 1, cs, q, m, TRUE)
            => \A rest, r, m2, tag : Says(g, q, f.end, f.scope, m, i, rest, r, m2, tag)
                                       => Says(g, P[i], f.end, f.scope, N[i], i, it \o rest, r, m2, tag)

\* So it is below level k; the fragment begins at b.
Nested(g, f, P, N, b, k) ==
  /\ P \in [Nat -> Nat] /\ N \in [Nat -> Nat] /\ P[0] = b /\ N[0] = 0
  /\ \A i \in 0 .. k - 1 : Encloses(g, f, P, N, i, f.open[i + 1].attrs, P[i + 1], N[i + 1])

\* The innermost element is still being given attributes.
Lists(g, f, P, N) ==
  LET k == Depth(f)
  IN \A ats, q : HasAttributes(g, f.scope, f.pos, ats, q)
                   => Encloses(g, f, P, N, k - 1, f.open[k].attrs \o ats, q, f.steps)

RunHolds(g, f, b) ==
  LET k == Depth(f)
  IN \E P, N :
       IF f.list THEN Nested(g, f, P, N, b, k - 1) /\ Lists(g, f, P, N)
       ELSE /\ Nested(g, f, P, N, b, k)
            /\ IF Over(f) THEN Finishes(g, f, P, N) ELSE Continues(g, f, P, N, f.pos, f.steps)

(* A reading speaks of nodes and positions. *)
LEMMA SaysTyped ==
  ASSUME NEW g, IsGrammatical(g), NEW p, NEW e, NEW s, NEW n, NEW d, NEW ns, NEW q, NEW m, NEW tag,
         Says(g, p, e, s, n, d, ns, q, m, tag)
  PROVE  IsSequence(ns) /\ q \in Nat /\ m \in Nat
BY DEF IsGrammatical, IsReading

(* The levels of a call. *)
LEMMA LevelIs ==
  ASSUME NEW f, IsLoop(f)
  PROVE  /\ Depth(f) \in Nat /\ Depth(f) <= MaxDepth
         /\ \A i \in 0 .. Depth(f) : IsSequence(Level(f, i))
         /\ \A i \in 1 .. Depth(f) : IsElement(f.open[i])
         /\ f.open = <<>> <=> Depth(f) = 0
         /\ f.pos \in Nat /\ f.end \in Nat /\ f.steps \in Nat
<1>1. IsSequence(f.open) /\ Len(f.open) <= MaxDepth /\ IsSequence(f.roots)
      /\ \A k \in 1 .. Len(f.open) : IsElement(f.open[k])
  BY DEF IsLoop
<1>2. Len(f.open) \in Nat
  BY <1>1, SequenceIs
<1>3. f.open = <<>> <=> Len(f.open) = 0
  BY <1>1, <1>2, NoneIsSequence, SameSequence
<1>4. \A i \in 0 .. Len(f.open) : IsSequence(Level(f, i))
  <2> SUFFICES ASSUME NEW i \in 0 .. Len(f.open) PROVE IsSequence(Level(f, i))
    OBVIOUS
  <2>1. CASE i = 0
    BY <1>1, <2>1 DEF Level
  <2>2. CASE i # 0
    <3>1. i \in 1 .. Len(f.open)
      BY <1>2, <2>2
    <3>. QED  BY <1>1, <2>2, <3>1 DEF Level, IsElement
  <2>. QED  BY <2>1, <2>2
<1>5. f.pos \in Nat /\ f.end \in Nat /\ f.steps \in Nat
  BY DecoderAssumption DEF IsLoop
<1>. QED  BY <1>1, <1>2, <1>3, <1>4, <1>5 DEF Depth

(* What is said of a level depends on nothing above it. *)
LEMMA EnclosesSame ==
  ASSUME NEW g, NEW f, NEW f2, NEW P, NEW N, NEW P2, NEW N2, NEW i, NEW ats, NEW p, NEW n,
         f2.end = f.end, f2.scope = f.scope, Level(f2, i) = Level(f, i),
         f2.open[i + 1].elem = f.open[i + 1].elem, P2[i] = P[i], N2[i] = N[i],
         Encloses(g, f, P, N, i, ats, p, n)
  PROVE  Encloses(g, f2, P2, N2, i, ats, p, n)
<1> SUFFICES ASSUME NEW cs, NEW q, NEW m
             PROVE  LET it == Level(f2, i) \o <<Element(f2.open[i + 1].elem, ats, cs)>>
                    IN /\ Says(g, p, f2.end, f2.scope, n, i + 1, cs, q, m, FALSE)
                            => Says(g, P2[i], f2.end, f2.scope, N2[i], i, it, q, m, FALSE)
                       /\ Says(g, p, f2.end, f2.scope, n, i + 1, cs, q, m, TRUE)
                            => \A rest, r, m2, tag : Says(g, q, f2.end, f2.scope, m, i, rest, r, m2, tag)
                                 => Says(g, P2[i], f2.end, f2.scope, N2[i], i, it \o rest, r, m2, tag)
  BY DEF Encloses
<1>1. Level(f2, i) \o <<Element(f2.open[i + 1].elem, ats, cs)>> = Level(f, i) \o <<Element(f.open[i + 1].elem, ats, cs)>>
  OBVIOUS
<1>. QED  BY <1>1 DEF Encloses

LEMMA NestedSame ==
  ASSUME NEW g, NEW f, NEW f2, NEW P, NEW N, NEW b, NEW k, SameBelow(f, f2, k), Nested(g, f, P, N, b, k)
  PROVE  Nested(g, f2, P, N, b, k)
<1>1. ASSUME NEW i \in 0 .. k - 1
      PROVE  Encloses(g, f2, P, N, i, f2.open[i + 1].attrs, P[i + 1], N[i + 1])
  <2>1. /\ f2.end = f.end /\ f2.scope = f.scope /\ Level(f2, i) = Level(f, i)
        /\ f2.open[i + 1].elem = f.open[i + 1].elem /\ f2.open[i + 1].attrs = f.open[i + 1].attrs
    BY <1>1 DEF SameBelow
  <2>2. Encloses(g, f, P, N, i, f.open[i + 1].attrs, P[i + 1], N[i + 1])
    BY <1>1 DEF Nested
  <2>. QED  BY <2>1, <2>2, EnclosesSame
<1>. QED  BY <1>1 DEF Nested

LEMMA NestedLess ==
  ASSUME NEW g, NEW f, NEW P, NEW N, NEW b, NEW k \in Nat \ {0}, Nested(g, f, P, N, b, k)
  PROVE  /\ Nested(g, f, P, N, b, k - 1)
         /\ Encloses(g, f, P, N, k - 1, f.open[k].attrs, P[k], N[k])
<1>1. \A i \in 0 .. k - 1 - 1 : i \in 0 .. k - 1
  OBVIOUS
<1>2. k - 1 \in 0 .. k - 1 /\ k - 1 + 1 = k
  OBVIOUS
<1>. QED  BY <1>1, <1>2 DEF Nested

LEMMA SameBelowLess ==
  ASSUME NEW f, NEW f2, NEW k \in Nat \ {0}, SameBelow(f, f2, k)
  PROVE  SameBelow(f, f2, k - 1)
<1>1. \A i \in 0 .. k - 1 - 1 : i \in 0 .. k - 1
  OBVIOUS
<1>. QED  BY <1>1 DEF SameBelow

(* A call that goes on may be at the end of its fragment. *)
LEMMA Resumes ==
  ASSUME NEW g, IsGrammatical(g), NEW f, IsLoop(f), f.scope \in g.scopes, ~f.list, ~f.over,
         NEW P, NEW N, NEW b, Nested(g, f, P, N, b, Depth(f)), Continues(g, f, P, N, f.pos, f.steps)
  PROVE  RunHolds(g, f, b)
<1> DEFINE k == Depth(f)
<1>1. k \in Nat /\ IsSequence(Level(f, k)) /\ f.pos \in Nat /\ f.end \in Nat /\ f.steps \in Nat
  BY LevelIs
<1>2. ASSUME Over(f) PROVE Finishes(g, f, P, N)
  <2>1. f.pos >= f.end \/ f.pos >= Length
    BY <1>2 DEF Over
  <2>2. Says(g, f.pos, f.end, f.scope, f.steps, k, <<>>, f.pos, f.steps, FALSE)
    BY <1>1, <2>1 DEF IsGrammatical, FragmentEnds
  <2>3. Says(g, P[k], f.end, f.scope, N[k], k, Level(f, k) \o <<>>, f.pos, f.steps, FALSE)
    BY <2>2 DEF Continues
  <2>4. Level(f, k) \o <<>> = Level(f, k)
    BY <1>1, ConcatNone
  <2>. QED  BY <2>3, <2>4 DEF Finishes
<1>. QED  BY <1>2 DEF RunHolds

(* The ghosts of a call at work. *)
LEMMA Going ==
  ASSUME NEW g, NEW f, NEW b, RunHolds(g, f, b), ~f.list, ~Over(f)
  PROVE  \E P, N : Nested(g, f, P, N, b, Depth(f)) /\ Continues(g, f, P, N, f.pos, f.steps)
BY DEF RunHolds

(* Nodes that follow. *)
LEMMA Follows ==
  ASSUME NEW g, IsGrammatical(g), NEW f, IsLoop(f), NEW f2, IsLoop(f2), f2.scope \in g.scopes,
         NEW b, NEW ns, IsSequence(ns), ~f2.list, ~f2.over,
         Depth(f2) = Depth(f), SameBelow(f, f2, Depth(f)),
         Level(f2, Depth(f)) = Level(f, Depth(f)) \o ns,
         NEW P, NEW N, Nested(g, f, P, N, b, Depth(f)),
         \A rest, q, m, tag :
           Says(g, f2.pos, f.end, f.scope, f2.steps, Depth(f), rest, q, m, tag)
             => Says(g, P[Depth(f)], f.end, f.scope, N[Depth(f)], Depth(f),
                     Level(f, Depth(f)) \o (ns \o rest), q, m, tag)
  PROVE  RunHolds(g, f2, b)
<1> DEFINE k == Depth(f)
<1>1. f2.end = f.end /\ f2.scope = f.scope
  BY DEF SameBelow
<1>2. Nested(g, f2, P, N, b, Depth(f2))
  BY NestedSame
<1>3. IsSequence(Level(f, k))
  <2>1. k \in 0 .. k
    BY LevelIs
  <2>. QED  BY <2>1, LevelIs
<1>4. Continues(g, f2, P, N, f2.pos, f2.steps)
  <2> SUFFICES ASSUME NEW rest, NEW q, NEW m, NEW tag,
                      Says(g, f2.pos, f2.end, f2.scope, f2.steps, k, rest, q, m, tag)
               PROVE  Says(g, P[k], f2.end, f2.scope, N[k], k, Level(f2, k) \o rest, q, m, tag)
    BY DEF Continues
  <2>1. IsSequence(rest)
    BY SaysTyped
  <2>2. Level(f2, k) \o rest = Level(f, k) \o (ns \o rest)
    BY <1>3, <2>1, ConcatAssociates
  <2>. QED  BY <1>1, <2>2
<1>. QED  BY <1>2, <1>4, Resumes

(* A token that is neither a start tag nor an end tag. *)
LEMMA ItemStep ==
  ASSUME NEW g, IsGrammatical(g), NEW f, IsLoop(f), f.scope \in g.scopes, NEW b, RunHolds(g, f, b),
         ~f.list, ~Over(f), f.steps < MaxTokens,
         NEW ns, IsSequence(ns), IsItem(g, f.scope, f.pos, ns, f.pos + 1),
         NEW f2, IsLoop(f2), ~f2.list, ~f2.over, f2.pos = f.pos + 1, f2.steps = f.steps + 1,
         Depth(f2) = Depth(f), SameBelow(f, f2, Depth(f)),
         Level(f2, Depth(f)) = Level(f, Depth(f)) \o ns
  PROVE  RunHolds(g, f2, b)
<1> DEFINE k == Depth(f)
<1>1. PICK P, N : Nested(g, f, P, N, b, k) /\ Continues(g, f, P, N, f.pos, f.steps)
  BY Going
<1>2. k \in Nat /\ f.pos \in Nat /\ f.end \in Nat /\ f.steps \in Nat
  BY LevelIs
<1>3. HasToken(f.pos, f.end, f.steps)
  BY <1>2, DecoderAssumption DEF HasToken, Over
<1>4. ASSUME NEW rest, NEW q, NEW m, NEW tag,
             Says(g, f2.pos, f.end, f.scope, f2.steps, k, rest, q, m, tag)
      PROVE  Says(g, P[k], f.end, f.scope, N[k], k, Level(f, k) \o (ns \o rest), q, m, tag)
  <2>1. Says(g, f.pos, f.end, f.scope, f.steps, k, ns \o rest, q, m, tag)
    BY <1>2, <1>3, <1>4 DEF IsGrammatical, Items
  <2>. QED  BY <1>1, <2>1 DEF Continues
<1>5. f2.scope \in g.scopes
  BY DEF SameBelow
<1>. QED  BY <1>1, <1>4, <1>5, Follows

(* An end of stream. *)
LEMMA StopStep ==
  ASSUME NEW g, IsGrammatical(g), NEW f, IsLoop(f), f.scope \in g.scopes, NEW b, RunHolds(g, f, b),
         ~f.list, ~Over(f), f.steps < MaxTokens, TokenAt(f.pos).t = "eos",
         NEW f2, SameNodes(f, f2), ~f2.list, f2.over
  PROVE  RunHolds(g, f2, b)
<1> DEFINE k == Depth(f)
<1>1. PICK P, N : Nested(g, f, P, N, b, k) /\ Continues(g, f, P, N, f.pos, f.steps)
  BY Going
<1>2. k \in Nat /\ f.pos \in Nat /\ f.end \in Nat /\ f.steps \in Nat
  BY LevelIs
<1>3. HasToken(f.pos, f.end, f.steps)
  BY <1>2, DecoderAssumption DEF HasToken, Over
<1>4. Says(g, f.pos, f.end, f.scope, f.steps, k, <<>>, f.pos + 1, f.steps + 1, FALSE)
  BY <1>2, <1>3 DEF IsGrammatical, FragmentEnds
<1>5. Says(g, P[k], f.end, f.scope, N[k], k, Level(f, k) \o <<>>, f.pos + 1, f.steps + 1, FALSE)
  BY <1>1, <1>4 DEF Continues
<1>6. Level(f, k) \o <<>> = Level(f, k)
  <2>1. k \in 0 .. k
    BY <1>2
  <2>. QED  BY <2>1, LevelIs, ConcatNone
<1>7. Depth(f2) = k /\ SameBelow(f, f2, k) /\ Level(f2, k) = Level(f, k) /\ f2.end = f.end /\ f2.scope = f.scope
  BY SameNodesBelow DEF SameNodes
<1>8. Finishes(g, f2, P, N)
  BY <1>5, <1>6, <1>7 DEF Finishes
<1>9. Nested(g, f2, P, N, b, k) /\ Over(f2)
  BY <1>1, <1>7, NestedSame DEF Over
<1>. QED  BY <1>7, <1>8, <1>9 DEF RunHolds

(* An end tag: f1 has read it, and f2 has closed the element. *)
LEMMA EndStep ==
  ASSUME NEW g, IsGrammatical(g), NEW f, IsLoop(f), f.scope \in g.scopes, NEW b, RunHolds(g, f, b),
         ~f.list, ~Over(f), f.steps < MaxTokens, TokenAt(f.pos).t = "end", Depth(f) # 0,
         NEW f2, IsLoop(f2), ~f2.list, ~f2.over, f2.pos = f.pos + 1, f2.steps = f.steps + 1,
         Depth(f2) = Depth(f) - 1, SameBelow(f, f2, Depth(f) - 1),
         Level(f2, Depth(f) - 1) = Level(f, Depth(f) - 1)
           \o <<Element(f.open[Depth(f)].elem, f.open[Depth(f)].attrs, Level(f, Depth(f)))>>
  PROVE  RunHolds(g, f2, b)
<1> DEFINE k == Depth(f)
           it == <<Element(f.open[k].elem, f.open[k].attrs, Level(f, k))>>
<1>1. PICK P, N : Nested(g, f, P, N, b, k) /\ Continues(g, f, P, N, f.pos, f.steps)
  BY Going
<1>2. k \in Nat \ {0} /\ f.pos \in Nat /\ f.end \in Nat /\ f.steps \in Nat
  BY LevelIs
<1>3. HasToken(f.pos, f.end, f.steps)
  BY <1>2, DecoderAssumption DEF HasToken, Over
<1>4. Says(g, f.pos, f.end, f.scope, f.steps, k, <<>>, f.pos + 1, f.steps + 1, TRUE)
  <2>1. k > 0
    BY <1>2
  <2>. QED  BY <1>2, <1>3, <2>1 DEF IsGrammatical, ElementEnds
<1>5. Says(g, P[k], f.end, f.scope, N[k], k, Level(f, k) \o <<>>, f.pos + 1, f.steps + 1, TRUE)
  BY <1>1, <1>4 DEF Continues
<1>6. Level(f, k) \o <<>> = Level(f, k)
  <2>1. k \in 0 .. k
    BY <1>2
  <2>. QED  BY <2>1, LevelIs, ConcatNone
<1>7. /\ Nested(g, f, P, N, b, k - 1)
      /\ Encloses(g, f, P, N, k - 1, f.open[k].attrs, P[k], N[k])
  BY <1>1, <1>2, NestedLess
<1>8. ASSUME NEW rest, NEW q, NEW m, NEW tag,
             Says(g, f.pos + 1, f.end, f.scope, f.steps + 1, k - 1, rest, q, m, tag)
      PROVE  Says(g, P[k - 1], f.end, f.scope, N[k - 1], k - 1, (Level(f, k - 1) \o it) \o rest, q, m, tag)
  <2>1. k - 1 + 1 = k
    BY <1>2
  <2>2. Says(g, P[k], f.end, f.scope, N[k], k - 1 + 1, Level(f, k), f.pos + 1, f.steps + 1, TRUE)
    BY <1>5, <1>6, <2>1
  <2>3. f.open[k - 1 + 1] = f.open[k]
    BY <2>1
  <2>. HIDE DEF k
  <2>. QED  BY <1>7, <1>8, <2>2, <2>3 DEF Encloses
<1>9. Continues(g, f2, P, N, f2.pos, f2.steps)
  <2>1. f2.end = f.end /\ f2.scope = f.scope
    BY DEF SameBelow
  <2>. QED  BY <1>8, <2>1 DEF Continues
<1>10. Nested(g, f2, P, N, b, k - 1)
  BY <1>7, NestedSame
<1>11. f2.scope \in g.scopes
  BY DEF SameBelow
<1>. QED  BY <1>9, <1>10, <1>11, Resumes

(* An element left open is closed at the end of the fragment. *)
LEMMA UnclosedStep ==
  ASSUME NEW g, NEW f, IsLoop(f), NEW b, RunHolds(g, f, b), ~f.list, Over(f), Depth(f) # 0,
         NEW f2, SameCall(f, f2),
         Depth(f2) = Depth(f) - 1, SameBelow(f, f2, Depth(f) - 1),
         Level(f2, Depth(f) - 1) = Level(f, Depth(f) - 1)
           \o <<Element(f.open[Depth(f)].elem, f.open[Depth(f)].attrs, Level(f, Depth(f)))>>
  PROVE  RunHolds(g, f2, b)
<1> DEFINE k == Depth(f)
<1>1. PICK P, N : Nested(g, f, P, N, b, k) /\ Finishes(g, f, P, N)
  BY DEF RunHolds
<1>2. k \in Nat \ {0}
  BY LevelIs
<1>3. PICK q, m : Says(g, P[k], f.end, f.scope, N[k], k, Level(f, k), q, m, FALSE)
  BY <1>1 DEF Finishes
<1>4. /\ Nested(g, f, P, N, b, k - 1)
      /\ Encloses(g, f, P, N, k - 1, f.open[k].attrs, P[k], N[k])
  BY <1>1, <1>2, NestedLess
<1>5. k - 1 + 1 = k /\ f.open[k - 1 + 1] = f.open[k]
  <2>1. k - 1 + 1 = k
    BY <1>2
  <2>. QED  BY <2>1
<1>6. Says(g, P[k - 1], f.end, f.scope, N[k - 1], k - 1, Level(f2, k - 1), q, m, FALSE)
  <2>. HIDE DEF k
  <2>1. Says(g, P[k], f.end, f.scope, N[k], k - 1 + 1, Level(f, k), q, m, FALSE)
    BY <1>3, <1>5
  <2>. QED  BY <1>4, <1>5, <2>1 DEF Encloses, k
<1>7. Finishes(g, f2, P, N)
  BY <1>6 DEF Finishes, SameBelow
<1>8. Nested(g, f2, P, N, b, k - 1)
  BY <1>4, NestedSame
<1>9. ~f2.list /\ Over(f2)
  BY DEF SameCall, Over
<1>. QED  BY <1>7, <1>8, <1>9 DEF RunHolds

(* A call that returns has read a fragment. *)
LEMMA Returned ==
  ASSUME NEW g, NEW f, NEW b, RunHolds(g, f, b), ~f.list, Over(f), Depth(f) = 0
  PROVE  \E q, m : Says(g, b, f.end, f.scope, 0, 0, f.roots, q, m, FALSE)
<1>1. PICK P, N : Nested(g, f, P, N, b, 0) /\ Finishes(g, f, P, N)
  BY DEF RunHolds
<1>. QED  BY <1>1 DEF Finishes, Nested, Level

(* Append, as a concatenation. *)
LEMMA AppendIsJoin ==
  ASSUME NEW s, IsSequence(s), NEW e
  PROVE  Append(s, e) = s \o <<e>>
<1> DEFINE S == { s[k] : k \in DOMAIN s }
           T == S \cup {e}
<1>1. s \in Seq(S) /\ S \subseteq T /\ e \in T
  BY SequenceIs
<1>. HIDE DEF S, T
<1>2. s \in Seq(T)
  BY <1>1, SeqWider
<1>. QED  BY <1>1, <1>2, AppendIsConcat

LEMMA AppendThenJoin ==
  ASSUME NEW s, IsSequence(s), NEW e, NEW t, IsSequence(t)
  PROVE  Append(s, e) \o t = s \o (<<e>> \o t)
<1>1. IsSequence(<<e>>)
  BY OneIsSequence
<1>2. Append(s, e) = s \o <<e>>
  BY AppendIsJoin
<1>3. (s \o <<e>>) \o t = s \o (<<e>> \o t)
  BY <1>1, ConcatAssociates
<1>. QED  BY <1>2, <1>3

(* The content of the innermost element begins. *)
LEMMA ContentBegins ==
  ASSUME NEW g, IsGrammatical(g), NEW f, IsLoop(f), f.scope \in g.scopes, ~f.list, ~f.over,
         NEW k \in Nat, Depth(f) = k + 1, Level(f, k + 1) = <<>>,
         NEW P, NEW N, NEW b, Nested(g, f, P, N, b, k),
         Encloses(g, f, P, N, k, f.open[k + 1].attrs, f.pos, f.steps)
  PROVE  RunHolds(g, f, b)
<1> DEFINE P2 == [P EXCEPT ![k + 1] = f.pos]
           N2 == [N EXCEPT ![k + 1] = f.steps]
<1>1. f.pos \in Nat /\ f.steps \in Nat /\ k + 1 \in Nat
  BY LevelIs
<1>2. /\ P2 \in [Nat -> Nat] /\ N2 \in [Nat -> Nat] /\ P2[k + 1] = f.pos /\ N2[k + 1] = f.steps
      /\ \A i \in 0 .. k : P2[i] = P[i] /\ N2[i] = N[i]
  <2>1. P \in [Nat -> Nat] /\ N \in [Nat -> Nat]
    BY DEF Nested
  <2>2. P2 \in [Nat -> Nat] /\ N2 \in [Nat -> Nat] /\ P2[k + 1] = f.pos /\ N2[k + 1] = f.steps
    BY <1>1, <2>1
  <2>3. ASSUME NEW i \in 0 .. k PROVE P2[i] = P[i] /\ N2[i] = N[i]
    <3>1. i \in Nat /\ i # k + 1
      BY <2>3
    <3>. QED  BY <2>1, <3>1
  <2>. QED  BY <2>2, <2>3
<1>. HIDE DEF P2, N2
<1>3. ASSUME NEW i \in 0 .. (k + 1) - 1
      PROVE  Encloses(g, f, P2, N2, i, f.open[i + 1].attrs, P2[i + 1], N2[i + 1])
  <2>1. i \in 0 .. k /\ P2[i] = P[i] /\ N2[i] = N[i]
    <3>1. i \in 0 .. k
      BY <1>3
    <3>. QED  BY <1>2, <3>1
  <2>2. ASSUME NEW p, NEW n, Encloses(g, f, P, N, i, f.open[i + 1].attrs, p, n)
        PROVE  Encloses(g, f, P2, N2, i, f.open[i + 1].attrs, p, n)
    BY <2>1, <2>2, EnclosesSame
  <2>3. CASE i = k
    BY <1>2, <2>2, <2>3
  <2>4. CASE i # k
    <3>1. i \in 0 .. k - 1 /\ i + 1 \in 0 .. k
      BY <2>1, <2>4
    <3>2. P2[i + 1] = P[i + 1] /\ N2[i + 1] = N[i + 1]
      BY <1>2, <3>1
    <3>3. Encloses(g, f, P, N, i, f.open[i + 1].attrs, P[i + 1], N[i + 1])
      BY <3>1 DEF Nested
    <3>. QED  BY <2>2, <3>2, <3>3
  <2>. QED  BY <2>3, <2>4
<1>4. Nested(g, f, P2, N2, b, k + 1)
  <2>1. P2[0] = b /\ N2[0] = 0
    <3>1. 0 \in 0 .. k
      OBVIOUS
    <3>. QED  BY <1>2, <3>1 DEF Nested
  <2>2. \A i \in 0 .. (k + 1) - 1 : Encloses(g, f, P2, N2, i, f.open[i + 1].attrs, P2[i + 1], N2[i + 1])
    BY <1>3
  <2>. QED  BY <1>2, <2>1, <2>2, Zenon DEF Nested
<1>5. Continues(g, f, P2, N2, f.pos, f.steps)
  <2> SUFFICES ASSUME NEW rest, NEW q, NEW m, NEW tag,
                      Says(g, f.pos, f.end, f.scope, f.steps, k + 1, rest, q, m, tag)
               PROVE  Says(g, P2[k + 1], f.end, f.scope, N2[k + 1], k + 1, Level(f, k + 1) \o rest, q, m, tag)
    BY DEF Continues
  <2>1. <<>> \o rest = rest
    BY SaysTyped, ConcatNone
  <2>. QED  BY <1>2, <2>1
<1>. QED  BY <1>4, <1>5, Resumes

(* A start tag. *)
LEMMA OpenStep ==
  ASSUME NEW g, IsGrammatical(g), NEW f, IsLoop(f), f.scope \in g.scopes, NEW b, RunHolds(g, f, b),
         ~f.list, ~Over(f), f.steps < MaxTokens, Depth(f) < MaxDepth,
         TokenAt(f.pos).t = "open", NameReadable(TokenAt(f.pos).name),
         NEW f2, IsLoop(f2), ~f2.over, f2.pos = After(TokenAt(f.pos).name, f.pos), f2.steps = f.steps + 1,
         f2.list = TokenAt(f.pos).list,
         Depth(f2) = Depth(f) + 1, SameBelow(f, f2, Depth(f)), Level(f2, Depth(f)) = Level(f, Depth(f)),
         f2.open[Depth(f) + 1] = Element(NameAt(TokenAt(f.pos).name), <<>>, <<>>)
  PROVE  RunHolds(g, f2, b)
<1> DEFINE k == Depth(f)
           t == TokenAt(f.pos)
<1>1. PICK P, N : Nested(g, f, P, N, b, k) /\ Continues(g, f, P, N, f.pos, f.steps)
  BY Going
<1>2. k \in Nat /\ f.pos \in Nat /\ f.end \in Nat /\ f.steps \in Nat
  BY LevelIs
<1>3. HasToken(f.pos, f.end, f.steps)
  BY <1>2, DecoderAssumption DEF HasToken, Over
<1>4. IsSequence(Level(f, k))
  <2>1. k \in 0 .. k
    BY <1>2
  <2>. QED  BY <2>1, LevelIs
<1>5. f2.end = f.end /\ f2.scope = f.scope /\ Level(f2, k) = Level(f, k)
      /\ f2.open[k + 1].elem = NameAt(t.name) /\ f2.open[k + 1].attrs = <<>> /\ f2.open[k + 1].children = <<>>
  BY DEF SameBelow, Element
<1>6. ASSUME NEW ats, NEW p, IsStartTag(g, f.scope, f.pos, ats, p)
      PROVE  Encloses(g, f2, P, N, k, ats, p, f.steps + 1)
  <2> SUFFICES ASSUME NEW cs, NEW q, NEW m
               PROVE  LET it == Level(f2, k) \o <<Element(f2.open[k + 1].elem, ats, cs)>>
                      IN /\ Says(g, p, f2.end, f2.scope, f.steps + 1, k + 1, cs, q, m, FALSE)
                              => Says(g, P[k], f2.end, f2.scope, N[k], k, it, q, m, FALSE)
                         /\ Says(g, p, f2.end, f2.scope, f.steps + 1, k + 1, cs, q, m, TRUE)
                              => \A rest, r, m2, tag : Says(g, q, f2.end, f2.scope, m, k, rest, r, m2, tag)
                                   => Says(g, P[k], f2.end, f2.scope, N[k], k, it \o rest, r, m2, tag)
    BY DEF Encloses
  <2> DEFINE el == <<Element(NameAt(t.name), ats, cs)>>
  <2>1. Level(f2, k) \o <<Element(f2.open[k + 1].elem, ats, cs)>> = Level(f, k) \o el
    BY <1>5
  <2>2. /\ Says(g, p, f.end, f.scope, f.steps + 1, k + 1, cs, q, m, FALSE)
             => Says(g, f.pos, f.end, f.scope, f.steps, k, el, q, m, FALSE)
        /\ Says(g, p, f.end, f.scope, f.steps + 1, k + 1, cs, q, m, TRUE)
             => \A rest, r, m2, tag : Says(g, q, f.end, f.scope, m, k, rest, r, m2, tag)
                                        => Says(g, f.pos, f.end, f.scope, f.steps, k, el \o rest, r, m2, tag)
    <3>. HIDE DEF k
    <3>. QED  BY <1>2, <1>3, <1>6 DEF IsGrammatical, Elements, k
  <2>. HIDE DEF el
  <2>3. ASSUME Says(g, p, f.end, f.scope, f.steps + 1, k + 1, cs, q, m, FALSE)
        PROVE  Says(g, P[k], f.end, f.scope, N[k], k, Level(f, k) \o el, q, m, FALSE)
    BY <1>1, <2>2, <2>3 DEF Continues
  <2>4. ASSUME Says(g, p, f.end, f.scope, f.steps + 1, k + 1, cs, q, m, TRUE),
               NEW rest, NEW r, NEW m2, NEW tag, Says(g, q, f.end, f.scope, m, k, rest, r, m2, tag)
        PROVE  Says(g, P[k], f.end, f.scope, N[k], k, (Level(f, k) \o el) \o rest, r, m2, tag)
    <3>1. Says(g, P[k], f.end, f.scope, N[k], k, Level(f, k) \o (el \o rest), r, m2, tag)
      BY <1>1, <2>2, <2>4 DEF Continues
    <3>2. IsSequence(rest) /\ IsSequence(el)
      BY <2>4, SaysTyped, OneIsSequence DEF el
    <3>3. (Level(f, k) \o el) \o rest = Level(f, k) \o (el \o rest)
      <4>. HIDE DEF k
      <4>. QED  BY <1>4, <3>2, ConcatAssociates
    <3>. QED  BY <3>1, <3>3
  <2>. QED  BY <1>5, <2>1, <2>3, <2>4
<1>7. Nested(g, f2, P, N, b, k)
  BY <1>1, NestedSame
<1>8. CASE f2.list
  <2>1. ASSUME NEW ats, NEW q, HasAttributes(g, f2.scope, f2.pos, ats, q)
        PROVE  Encloses(g, f2, P, N, k, f2.open[k + 1].attrs \o ats, q, f2.steps)
    <3>1. IsStartTag(g, f.scope, f.pos, ats, q)
      BY <1>5, <1>8, <2>1 DEF IsStartTag
    <3>2. f2.open[k + 1].attrs \o ats = ats
      <4>1. IsSequence(ats)
        BY <2>1 DEF IsGrammatical, IsReading
      <4>. QED  BY <1>5, <4>1, ConcatNone
    <3>. QED  BY <1>6, <3>1, <3>2
  <2>2. Depth(f2) = k + 1 /\ Depth(f2) - 1 = k
    BY <1>2
  <2>3. Lists(g, f2, P, N)
    BY <2>1, <2>2 DEF Lists
  <2>. QED  BY <1>7, <1>8, <2>2, <2>3 DEF RunHolds
<1>9. CASE ~f2.list
  <2>1. IsStartTag(g, f.scope, f.pos, <<>>, f2.pos)
    BY <1>9 DEF IsStartTag
  <2>2. Encloses(g, f2, P, N, k, f2.open[k + 1].attrs, f2.pos, f2.steps)
    BY <1>5, <1>6, <2>1
  <2>3. Level(f2, k + 1) = <<>>
    BY <1>2, <1>5 DEF Level
  <2>. QED  BY <1>2, <1>5, <1>7, <1>9, <2>2, <2>3, ContentBegins
<1>. QED  BY <1>8, <1>9

(* An attribute. *)
LEMMA AttributeStep ==
  ASSUME NEW g, IsGrammatical(g), NEW f, IsLoop(f), f.scope \in g.scopes, NEW b, RunHolds(g, f, b),
         f.list, IsAttribute(f.scope, f.pos),
         NEW f2, f2.list, f2.pos = After(TokenAt(f.pos).name, f.pos), f2.steps = f.steps,
         Depth(f2) = Depth(f), Depth(f) \in Nat \ {0}, SameBelow(f, f2, Depth(f) - 1),
         \A i \in 0 .. Depth(f) : Level(f2, i) = Level(f, i),
         f2.open[Depth(f)].elem = f.open[Depth(f)].elem,
         f2.open[Depth(f)].attrs = Append(f.open[Depth(f)].attrs, AttributeAt(f.scope, f.pos))
  PROVE  RunHolds(g, f2, b)
<1> DEFINE k == Depth(f)
           at == AttributeAt(f.scope, f.pos)
<1>1. PICK P, N : Nested(g, f, P, N, b, k - 1) /\ Lists(g, f, P, N)
  BY DEF RunHolds
<1>2. f.pos \in Nat /\ k - 1 + 1 = k /\ k \in 1 .. k /\ k - 1 \in 0 .. k
  BY LevelIs
<1>3. f2.end = f.end /\ f2.scope = f.scope
  BY DEF SameBelow
<1>4. IsSequence(f.open[k].attrs)
  BY <1>2, LevelIs DEF IsElement
<1>5. ASSUME NEW ats, NEW q, HasAttributes(g, f2.scope, f2.pos, ats, q)
      PROVE  Encloses(g, f2, P, N, k - 1, f2.open[k].attrs \o ats, q, f2.steps)
  <2>1. HasAttributes(g, f.scope, f.pos, <<at>> \o ats, q)
    BY <1>2, <1>3, <1>5 DEF IsGrammatical, AttributeLists
  <2>2. Encloses(g, f, P, N, k - 1, f.open[k].attrs \o (<<at>> \o ats), q, f.steps)
    BY <1>1, <2>1 DEF Lists
  <2>3. IsSequence(ats)
    BY <1>5 DEF IsGrammatical, IsReading
  <2>4. f2.open[k].attrs \o ats = f.open[k].attrs \o (<<at>> \o ats)
    <3>. HIDE DEF at
    <3>1. ASSUME NEW s, IsSequence(s) PROVE Append(s, at) \o ats = s \o (<<at>> \o ats)
      BY <2>3, <3>1, AppendThenJoin, SMTT(20)
    <3>2. Append(f.open[k].attrs, at) \o ats = f.open[k].attrs \o (<<at>> \o ats)
      BY <1>4, <3>1, Zenon
    <3>. QED  BY <3>2 DEF at
  <2>5. f2.open[k - 1 + 1].elem = f.open[k - 1 + 1].elem /\ Level(f2, k - 1) = Level(f, k - 1)
    BY <1>2
  <2>. HIDE DEF k, at
  <2>. QED  BY <1>3, <2>2, <2>4, <2>5, EnclosesSame
<1>6. Lists(g, f2, P, N)
  BY <1>5 DEF Lists
<1>7. Nested(g, f2, P, N, b, k - 1)
  BY <1>1, NestedSame
<1>. QED  BY <1>6, <1>7 DEF RunHolds

(* The end of the attributes. *)
LEMMA ListEnds ==
  ASSUME NEW g, IsGrammatical(g), NEW f, IsLoop(f), f.scope \in g.scopes, NEW b, RunHolds(g, f, b),
         f.list, f.pos >= Length \/ TokenAt(f.pos).t # "attr",
         NEW f2, IsLoop(f2), SameNodes(f, f2), ~f2.list, ~f2.over, f2.pos = f.pos, f2.steps = f.steps
  PROVE  RunHolds(g, f2, b)
<1> DEFINE k == Depth(f)
<1>1. PICK P, N : Nested(g, f, P, N, b, k - 1) /\ Lists(g, f, P, N)
  BY DEF RunHolds
<1>2. /\ f.pos \in Nat /\ k \in Nat \ {0} /\ k \in 1 .. k /\ k - 1 \in Nat /\ k - 1 + 1 = k /\ f.open # <<>>
      /\ Last(f.open).children = <<>>
  <2>1. f.pos \in Nat /\ k \in Nat /\ (f.open = <<>> <=> k = 0)
    BY LevelIs
  <2>2. f.open # <<>> /\ Last(f.open).children = <<>>
    BY DEF IsLoop
  <2>. QED  BY <2>1, <2>2
<1>3. IsSequence(f.open[k].attrs)
  BY <1>2, LevelIs DEF IsElement
<1>4. HasAttributes(g, f.scope, f.pos, <<>>, f.pos)
  BY <1>2 DEF IsGrammatical, AttributeLists
<1>5. Encloses(g, f, P, N, k - 1, f.open[k].attrs \o <<>>, f.pos, f.steps)
  BY <1>1, <1>4 DEF Lists
<1>6. f.open[k].attrs \o <<>> = f.open[k].attrs
  BY <1>3, ConcatNone
<1>7. /\ Depth(f2) = k /\ SameBelow(f, f2, k) /\ f2.end = f.end /\ f2.scope = f.scope /\ f2.open = f.open
      /\ \A i : Level(f2, i) = Level(f, i)
  BY SameNodesBelow DEF SameNodes
<1>8. Encloses(g, f2, P, N, k - 1, f2.open[k - 1 + 1].attrs, f2.pos, f2.steps)
  <2>1. Encloses(g, f, P, N, k - 1, f2.open[k - 1 + 1].attrs, f2.pos, f2.steps)
    BY <1>2, <1>5, <1>6, <1>7
  <2>2. Level(f2, k - 1) = Level(f, k - 1) /\ f2.open[k - 1 + 1].elem = f.open[k - 1 + 1].elem
    BY <1>7
  <2>. HIDE DEF k
  <2>. QED  BY <1>7, <2>1, <2>2, EnclosesSame
<1>9. Nested(g, f2, P, N, b, k - 1)
  BY <1>1, <1>2, <1>7, SameBelowLess, NestedSame
<1>10. Level(f2, k - 1 + 1) = <<>>
  BY <1>2, <1>7 DEF Level, Last, Depth
<1>. QED  BY <1>2, <1>7, <1>8, <1>9, <1>10, ContentBegins

-----------------------------------------------------------------------------
(* Instances: their values, and then their body.                            *)

\* The body from p on read, the call f goes on at q, behind the instance.
BodyThen(g, f, P, N, p, e, s, q) ==
  LET k == Depth(f)
  IN \A ns, q2, m, rest, r, m2, tag :
       /\ Says(g, p, e, s, 0, 0, ns, q2, m, FALSE)
       /\ Says(g, q, f.end, f.scope, f.steps, k, rest, r, m2, tag)
       => Says(g, P[k], f.end, f.scope, N[k], k, Level(f, k) \o (ns \o rest), r, m2, tag)

AwaitsBody(g, f, b, p, e, s) ==
  \E P, N : Nested(g, f, P, N, b, Depth(f)) /\ BodyThen(g, f, P, N, p, e, s, f.pos)

\* Before that, the other values of a have to be read.
ValuesThen(g, f, P, N, a, vs, q) ==
  /\ Scope(vs) \in g.scopes
  /\ a.end <= Length => BodyThen(g, f, P, N, a.body, a.end, Scope(vs), q)

AwaitsValues(g, f, b, a) ==
  \E P, N : /\ Nested(g, f, P, N, b, Depth(f))
            /\ \A vs, q : HasValues(g, a.todo, a.pos, vs, q) => ValuesThen(g, f, P, N, a, a.vals \o vs, q)

(* It matters to an instance only what its call has read. *)
LEMMA BodyThenSame ==
  ASSUME NEW g, NEW f, NEW f2, SameNodes(f, f2), f2.steps = f.steps,
         NEW P, NEW N, NEW p, NEW e, NEW s, NEW q, BodyThen(g, f, P, N, p, e, s, q)
  PROVE  BodyThen(g, f2, P, N, p, e, s, q)
<1>1. /\ Depth(f2) = Depth(f) /\ f2.end = f.end /\ f2.scope = f.scope
      /\ Level(f2, Depth(f2)) = Level(f, Depth(f))
  BY SameNodesBelow DEF SameNodes
<1>. QED  BY <1>1 DEF BodyThen

(* An instance is met. *)
LEMMA InstanceStep ==
  ASSUME NEW g, IsGrammatical(g), NEW f, IsLoop(f), f.scope \in g.scopes, NEW b, RunHolds(g, f, b),
         ~f.list, ~Over(f), f.steps < MaxTokens,
         NEW o, TokenAt(f.pos).t = "instance", o = TokenAt(f.pos).def, InstanceReadable(o, f.pos),
         NEW f2, SameNodes(f, f2), f2.steps = f.steps + 1,
         NEW a, a.todo = ValuesAt(ArrayPos(o, f.pos)), a.pos = ArrayPos(o, f.pos) + 1,
         a.body = o + 1, a.end = o + 1 + BodyAt(o), a.vals = <<>>
  PROVE  AwaitsValues(g, f2, b, a)
<1> DEFINE k == Depth(f)
<1>1. PICK P, N : Nested(g, f, P, N, b, k) /\ Continues(g, f, P, N, f.pos, f.steps)
  BY Going
<1>2. k \in Nat /\ f.pos \in Nat /\ f.end \in Nat /\ f.steps \in Nat
  BY LevelIs
<1>3. HasToken(f.pos, f.end, f.steps)
  BY <1>2, DecoderAssumption DEF HasToken, Over
<1>4. /\ Depth(f2) = k /\ SameBelow(f, f2, k) /\ Level(f2, k) = Level(f, k) /\ f2.end = f.end /\ f2.scope = f.scope
  BY SameNodesBelow DEF SameNodes
<1>5. Nested(g, f2, P, N, b, Depth(f2))
  BY <1>1, <1>4, NestedSame
<1>6. ASSUME NEW vs, NEW p, HasValues(g, a.todo, a.pos, vs, p)
      PROVE  ValuesThen(g, f2, P, N, a, a.vals \o vs, p)
  <2>1. a.vals \o vs = vs
    <3>1. IsSequence(vs)
      BY <1>6 DEF IsGrammatical, IsReading
    <3>. QED  BY <3>1, ConcatNone
  <2>2. Scope(vs) \in g.scopes
    BY <1>6 DEF IsGrammatical, Scopes
  <2>3. ASSUME a.end <= Length, NEW ns, NEW q, NEW m, NEW rest, NEW r, NEW m2, NEW tag,
               Says(g, a.body, a.end, Scope(vs), 0, 0, ns, q, m, FALSE),
               Says(g, p, f2.end, f2.scope, f2.steps, Depth(f2), rest, r, m2, tag)
        PROVE  Says(g, P[Depth(f2)], f2.end, f2.scope, N[Depth(f2)], Depth(f2),
                    Level(f2, Depth(f2)) \o (ns \o rest), r, m2, tag)
    <3>1. IsInstanceOf(g, o, f.pos, ns, p)
      BY <1>6, <2>3 DEF IsInstanceOf
    <3>2. IsItem(g, f.scope, f.pos, ns, p)
      BY <3>1 DEF IsItem
    <3>3. Says(g, f.pos, f.end, f.scope, f.steps, k, ns \o rest, r, m2, tag)
      BY <1>2, <1>3, <1>4, <2>3, <3>2 DEF IsGrammatical, Items
    <3>4. Says(g, P[k], f.end, f.scope, N[k], k, Level(f, k) \o (ns \o rest), r, m2, tag)
      BY <1>1, <3>3 DEF Continues
    <3>. QED  BY <1>4, <3>4
  <2>4. a.end <= Length => BodyThen(g, f2, P, N, a.body, a.end, Scope(vs), p)
    BY <2>3, Zenon DEF BodyThen
  <2>. QED  BY <2>1, <2>2, <2>4 DEF ValuesThen
<1>. QED  BY <1>5, <1>6, Zenon DEF AwaitsValues

(* One of its values is read. *)
LEMMA ValueStep ==
  ASSUME NEW g, IsGrammatical(g), NEW f, NEW b, NEW a, IsInstance(a), AwaitsValues(g, f, b, a),
         a.todo # <<>>, NEW v, NEW p, IsValueAt(g, Head(a.todo), a.pos, v, p),
         NEW a2, a2.todo = Tail(a.todo), a2.pos = p, a2.vals = Append(a.vals, v), a2.body = a.body, a2.end = a.end
  PROVE  AwaitsValues(g, f, b, a2)
<1>1. PICK P, N :
        /\ Nested(g, f, P, N, b, Depth(f))
        /\ \A vs, q : HasValues(g, a.todo, a.pos, vs, q) => ValuesThen(g, f, P, N, a, a.vals \o vs, q)
  BY Zenon DEF AwaitsValues
<1>2. IsSequence(a.vals) /\ a.pos \in Nat /\ a.todo \in Seq(Descriptors)
  BY DEF IsInstance, AreValues
<1>3. ASSUME NEW vs, NEW q, HasValues(g, a2.todo, a2.pos, vs, q)
      PROVE  ValuesThen(g, f, P, N, a2, a2.vals \o vs, q)
  <2>1. HasValues(g, a.todo, a.pos, <<v>> \o vs, q)
    BY <1>2, <1>3 DEF IsGrammatical, ValueLists
  <2>2. ValuesThen(g, f, P, N, a, a.vals \o (<<v>> \o vs), q)
    BY <1>1, <2>1
  <2>3. IsSequence(vs)
    BY <1>3 DEF IsGrammatical, IsReading
  <2>4. a2.vals \o vs = a.vals \o (<<v>> \o vs)
    <3>1. ASSUME NEW s, IsSequence(s) PROVE Append(s, v) \o vs = s \o (<<v>> \o vs)
      BY <2>3, <3>1, AppendThenJoin
    <3>. QED  BY <1>2, <3>1
  <2>. QED  BY <2>2, <2>4 DEF ValuesThen
<1>. QED  BY <1>1, <1>3, Zenon DEF AwaitsValues

(* All of them are read: the body is next. *)
LEMMA BodyNext ==
  ASSUME NEW g, IsGrammatical(g), NEW f, NEW b, NEW a, IsInstance(a), AwaitsValues(g, f, b, a),
         a.todo = <<>>, a.end <= Length,
         NEW f2, SameNodes(f, f2), f2.pos = a.pos, f2.steps = f.steps
  PROVE  AwaitsBody(g, f2, b, a.body, a.end, Scope(a.vals)) /\ Scope(a.vals) \in g.scopes
<1>1. PICK P, N :
        /\ Nested(g, f, P, N, b, Depth(f))
        /\ \A vs, q : HasValues(g, a.todo, a.pos, vs, q) => ValuesThen(g, f, P, N, a, a.vals \o vs, q)
  BY Zenon DEF AwaitsValues
<1>2. IsSequence(a.vals) /\ a.pos \in Nat
  BY DEF IsInstance, AreValues
<1>3. HasValues(g, a.todo, a.pos, <<>>, a.pos)
  BY <1>2 DEF IsGrammatical, ValueLists
<1>4. a.vals \o <<>> = a.vals
  BY <1>2, ConcatNone
<1>5. ValuesThen(g, f, P, N, a, a.vals, a.pos)
  BY <1>1, <1>3, <1>4
<1>6. Depth(f2) = Depth(f) /\ SameBelow(f, f2, Depth(f))
  BY SameNodesBelow
<1>7. Nested(g, f2, P, N, b, Depth(f2))
  BY <1>1, <1>6, NestedSame
<1>8. BodyThen(g, f2, P, N, a.body, a.end, Scope(a.vals), f2.pos)
  BY <1>5, BodyThenSame DEF ValuesThen
<1>. QED  BY <1>5, <1>7, <1>8 DEF AwaitsBody, ValuesThen

(* The body is read. *)
LEMMA BodyStep ==
  ASSUME NEW g, IsGrammatical(g), NEW f, IsLoop(f), f.scope \in g.scopes, ~f.list, ~f.over,
         NEW b, NEW p, NEW e, NEW s, AwaitsBody(g, f, b, p, e, s),
         NEW ns, NEW q, NEW m, Says(g, p, e, s, 0, 0, ns, q, m, FALSE)
  PROVE  RunHolds(g, Attach(f, ns), b)
<1> DEFINE k == Depth(f)
           f2 == Attach(f, ns)
<1>1. PICK P, N : Nested(g, f, P, N, b, k) /\ BodyThen(g, f, P, N, p, e, s, f.pos)
  BY DEF AwaitsBody
<1>2. IsSequence(ns)
  BY SaysTyped
<1>3. /\ IsLoop(f2) /\ SameCall(f, f2) /\ Depth(f2) = k /\ SameBelow(f, f2, k)
      /\ Level(f2, k) = Level(f, k) \o ns
  BY <1>2, AttachIs
<1>. HIDE DEF f2
<1>4. ~f2.list /\ ~f2.over /\ f2.pos = f.pos /\ f2.steps = f.steps /\ f2.scope \in g.scopes
  BY <1>3 DEF SameCall
<1>5. \A rest, r, m2, tag :
        Says(g, f2.pos, f.end, f.scope, f2.steps, k, rest, r, m2, tag)
          => Says(g, P[k], f.end, f.scope, N[k], k, Level(f, k) \o (ns \o rest), r, m2, tag)
  BY <1>1, <1>4 DEF BodyThen
<1>6. RunHolds(g, f2, b)
  BY <1>1, <1>2, <1>3, <1>4, <1>5, Follows
<1>. QED  BY <1>6 DEF f2

-----------------------------------------------------------------------------
(* The stack of calls.                                                      *)

IsCall(f) == (f.call = "run" /\ IsLoop(f)) \/ (f.call = "instance" /\ IsInstance(f))

\* The call f waits for h: a call of the token loop for an instance or for its
\* body, an instance for a value that is a fragment.
Joined(f, h) ==
  \/ f.call = "run" /\ ~f.list /\ ~f.over
  \/ /\ f.call = "instance" /\ f.todo # <<>> /\ Head(f.todo).kind = "fragment"
     /\ h.call = "run" /\ h.end = Length /\ h.scope = NoScope

IsStack(C) ==
  /\ IsSequence(C)
  /\ C # <<>> => C[1].call = "run" /\ C[1].end = Length /\ C[1].scope = NoScope
  /\ \A i \in 1 .. Len(C) : IsCall(C[i])
  /\ \A i \in 1 .. Len(C) - 1 : Joined(C[i], C[i + 1])

\* The same, of what has been read: f began at b, and h at c.
Linked(g, f, b, h, c) ==
  /\ f.call = "run" /\ h.call = "instance" => AwaitsValues(g, f, b, h)
  /\ f.call = "run" /\ h.call = "run" => AwaitsBody(g, f, b, c, h.end, h.scope)
  /\ f.call = "instance" => c = f.pos

Chained(g, r, C, S) ==
  /\ S \in [Nat -> Nat] /\ S[1] = r + 1
  /\ \A i \in 1 .. Len(C) : C[i].call = "run" => C[i].scope \in g.scopes
  /\ \A i \in 1 .. Len(C) - 1 : Linked(g, C[i], S[i], C[i + 1], S[i + 1])

\* The calls under way for the record at r.
StackHolds(g, r, C) ==
  \E S : /\ Chained(g, r, C, S)
         /\ C # <<>> /\ Last(C).call = "run" => RunHolds(g, Last(C), S[Len(C)])

\* To the call below it, a call is known by these.
SameAbove(f, f2) ==
  f2.call = f.call /\ (f.call = "run" => f2.end = f.end /\ f2.scope = f.scope)

(* The innermost call, and the one that waits for it. *)
LEMMA StackTop ==
  ASSUME NEW C, IsStack(C), C # <<>>
  PROVE  /\ Len(C) \in Nat \ {0} /\ Last(C) = C[Len(C)] /\ IsCall(Last(C))
         /\ Last(C).call = "instance" => Len(C) > 1
         /\ Len(C) > 1 => /\ Front(C) # <<>> /\ Last(Front(C)) = C[Len(C) - 1]
                          /\ IsCall(Last(Front(C))) /\ Joined(Last(Front(C)), Last(C))
<1>1. /\ IsSequence(Front(C)) /\ Len(C) \in Nat \ {0} /\ Len(Front(C)) = Len(C) - 1
      /\ \A k \in 1 .. Len(C) - 1 : Front(C)[k] = C[k]
      /\ Last(C) = C[Len(C)]
  BY FrontIs DEF IsStack
<1>2. IsCall(C[Len(C)])
  <2>1. Len(C) \in 1 .. Len(C)
    BY <1>1
  <2>. QED  BY <2>1 DEF IsStack
<1>3. ASSUME Last(C).call = "instance" PROVE Len(C) > 1
  <2>1. C[1].call = "run"
    BY DEF IsStack
  <2>2. Len(C) # 1
    BY <1>1, <1>3, <2>1
  <2>. QED  BY <1>1, <2>2
<1>4. ASSUME Len(C) > 1
      PROVE  /\ Front(C) # <<>> /\ Last(Front(C)) = C[Len(C) - 1]
             /\ IsCall(Last(Front(C))) /\ Joined(Last(Front(C)), Last(C))
  <2>1. Front(C) # <<>>
    BY <1>1, <1>4, NoneIsSequence
  <2>2. Last(Front(C)) = C[Len(C) - 1]
    <3>1. Last(Front(C)) = Front(C)[Len(C) - 1]
      BY <1>1 DEF Last
    <3>2. Len(C) - 1 \in 1 .. Len(C) - 1
      BY <1>1, <1>4
    <3>. QED  BY <1>1, <3>1, <3>2
  <2>3. Len(C) - 1 \in 1 .. Len(C) /\ Len(C) - 1 \in 1 .. Len(C) - 1 /\ Len(C) - 1 + 1 = Len(C)
    BY <1>1, <1>4
  <2>4. IsCall(C[Len(C) - 1]) /\ Joined(C[Len(C) - 1], C[Len(C) - 1 + 1])
    BY <2>3 DEF IsStack
  <2>. QED  BY <1>1, <2>1, <2>2, <2>3, <2>4
<1>. QED  BY <1>1, <1>2, <1>3, <1>4

(* A call below sees only this much of the one above it. *)
LEMMA JoinedSame ==
  ASSUME NEW f, NEW h, NEW h2, SameAbove(h, h2), Joined(f, h)
  PROVE  Joined(f, h2)
BY DEF SameAbove, Joined

LEMMA LinkedSame ==
  ASSUME NEW g, NEW f, NEW b, NEW h, NEW h2, NEW c, SameAbove(h, h2), h.call = "run", Linked(g, f, b, h, c)
  PROVE  Linked(g, f, b, h2, c)
BY DEF SameAbove, Linked

(* The innermost call returns. *)
LEMMA Popped ==
  ASSUME NEW C, IsStack(C), Len(C) > 1
  PROVE  IsStack(Front(C)) /\ Front(C) # <<>>
<1>1. C # <<>>
  BY NoneIsSequence
<1>2. /\ IsSequence(Front(C)) /\ Len(C) \in Nat \ {0} /\ Len(Front(C)) = Len(C) - 1
      /\ \A k \in 1 .. Len(C) - 1 : Front(C)[k] = C[k]
  BY <1>1, FrontIs DEF IsStack
<1>3. \A i \in 1 .. Len(C) - 1 : IsCall(Front(C)[i])
  <2>1. \A i \in 1 .. Len(C) - 1 : i \in 1 .. Len(C)
    BY <1>2
  <2>. QED  BY <1>2, <2>1 DEF IsStack
<1>4. \A i \in 1 .. Len(Front(C)) - 1 : Joined(Front(C)[i], Front(C)[i + 1])
  <2>1. \A i \in 1 .. Len(Front(C)) - 1 : i \in 1 .. Len(C) - 1 /\ i + 1 \in 1 .. Len(C) - 1
    BY <1>2
  <2>. QED  BY <1>2, <2>1 DEF IsStack
<1>5. Front(C)[1] = C[1]
  <2>1. 1 \in 1 .. Len(C) - 1
    BY <1>2
  <2>. QED  BY <1>2, <2>1
<1>6. Front(C) # <<>>
  BY <1>1, StackTop
<1>. QED  BY <1>1, <1>2, <1>3, <1>4, <1>5, <1>6 DEF IsStack

LEMMA PoppedChain ==
  ASSUME NEW g, NEW r, NEW C, IsStack(C), Len(C) > 1, NEW S, Chained(g, r, C, S)
  PROVE  Chained(g, r, Front(C), S)
<1>1. C # <<>>
  BY NoneIsSequence
<1>2. /\ IsSequence(Front(C)) /\ Len(C) \in Nat \ {0} /\ Len(Front(C)) = Len(C) - 1
      /\ \A k \in 1 .. Len(C) - 1 : Front(C)[k] = C[k]
  BY <1>1, FrontIs DEF IsStack
<1>3. \A i \in 1 .. Len(Front(C)) : Front(C)[i].call = "run" => Front(C)[i].scope \in g.scopes
  <2>1. \A i \in 1 .. Len(Front(C)) : i \in 1 .. Len(C) /\ i \in 1 .. Len(C) - 1
    BY <1>2
  <2>. QED  BY <1>2, <2>1 DEF Chained
<1>4. \A i \in 1 .. Len(Front(C)) - 1 : Linked(g, Front(C)[i], S[i], Front(C)[i + 1], S[i + 1])
  <2>1. \A i \in 1 .. Len(Front(C)) - 1 : i \in 1 .. Len(C) - 1 /\ i + 1 \in 1 .. Len(C) - 1
    BY <1>2
  <2>. QED  BY <1>2, <2>1 DEF Chained
<1>. QED  BY <1>3, <1>4 DEF Chained

(* The innermost call goes on. *)
LEMMA Advanced ==
  ASSUME NEW C, IsStack(C), C # <<>>, NEW f, IsCall(f), SameAbove(Last(C), f)
  PROVE  LET D == Append(Front(C), f)
         IN IsStack(D) /\ D # <<>> /\ Len(D) = Len(C) /\ Last(D) = f /\ Front(D) = Front(C)
<1> DEFINE D == Append(Front(C), f)
<1>1. /\ IsSequence(D) /\ Len(D) = Len(C) /\ Len(C) \in Nat \ {0} /\ D # <<>>
      /\ \A k \in 1 .. Len(C) - 1 : D[k] = C[k]
      /\ D[Len(C)] = f /\ Front(D) = Front(C) /\ Last(D) = f
  <2>1. IsSequence(C)
    BY DEF IsStack
  <2>. QED  BY <2>1, Replaced
<1>. HIDE DEF D
<1>2. Last(C) = C[Len(C)]
  BY StackTop
<1>3. D[1].call = "run" /\ D[1].end = Length /\ D[1].scope = NoScope
  <2>1. C[1].call = "run" /\ C[1].end = Length /\ C[1].scope = NoScope
    BY DEF IsStack
  <2>2. CASE Len(C) = 1
    BY <1>1, <1>2, <2>1, <2>2 DEF SameAbove
  <2>3. CASE Len(C) # 1
    <3>1. 1 \in 1 .. Len(C) - 1
      BY <1>1, <2>3
    <3>. QED  BY <1>1, <2>1, <3>1
  <2>. QED  BY <2>2, <2>3
<1>4. \A i \in 1 .. Len(D) : IsCall(D[i])
  <2> SUFFICES ASSUME NEW i \in 1 .. Len(D) PROVE IsCall(D[i])
    OBVIOUS
  <2>1. i \in 1 .. Len(C) /\ (i = Len(C) \/ i \in 1 .. Len(C) - 1)
    BY <1>1
  <2>. QED  BY <1>1, <2>1 DEF IsStack
<1>5. \A i \in 1 .. Len(D) - 1 : Joined(D[i], D[i + 1])
  <2> SUFFICES ASSUME NEW i \in 1 .. Len(D) - 1 PROVE Joined(D[i], D[i + 1])
    OBVIOUS
  <2>1. i \in 1 .. Len(C) - 1 /\ (i + 1 = Len(C) \/ i + 1 \in 1 .. Len(C) - 1)
    BY <1>1
  <2>2. Joined(C[i], C[i + 1]) /\ D[i] = C[i]
    BY <1>1, <2>1 DEF IsStack
  <2>3. CASE i + 1 = Len(C)
    BY <1>1, <1>2, <2>2, <2>3, JoinedSame
  <2>4. CASE i + 1 \in 1 .. Len(C) - 1
    BY <1>1, <2>2, <2>4
  <2>. QED  BY <2>1, <2>3, <2>4
<1>6. IsStack(D)
  BY <1>1, <1>3, <1>4, <1>5 DEF IsStack
<1>. QED  BY <1>1, <1>6 DEF D

LEMMA AdvancedChain ==
  ASSUME NEW g, NEW r, NEW C, IsStack(C), C # <<>>, NEW S, Chained(g, r, C, S),
         NEW f, Last(C).call = "run", SameAbove(Last(C), f)
  PROVE  Chained(g, r, Append(Front(C), f), S)
<1> DEFINE D == Append(Front(C), f)
<1>1. /\ IsSequence(D) /\ Len(D) = Len(C) /\ Len(C) \in Nat \ {0} /\ D # <<>>
      /\ \A k \in 1 .. Len(C) - 1 : D[k] = C[k]
      /\ D[Len(C)] = f
  <2>1. IsSequence(C)
    BY DEF IsStack
  <2>. QED  BY <2>1, Replaced
<1>. HIDE DEF D
<1>2. Last(C) = C[Len(C)] /\ f.call = "run" /\ f.scope = C[Len(C)].scope
  BY StackTop DEF SameAbove
<1>3. \A i \in 1 .. Len(D) : D[i].call = "run" => D[i].scope \in g.scopes
  <2> SUFFICES ASSUME NEW i \in 1 .. Len(D), D[i].call = "run" PROVE D[i].scope \in g.scopes
    OBVIOUS
  <2>1. i \in 1 .. Len(C) /\ (i = Len(C) \/ i \in 1 .. Len(C) - 1)
    BY <1>1
  <2>2. C[i].call = "run" => C[i].scope \in g.scopes
    BY <2>1 DEF Chained
  <2>3. CASE i = Len(C)
    BY <1>1, <1>2, <2>2, <2>3
  <2>4. CASE i \in 1 .. Len(C) - 1
    <3>1. D[i] = C[i]
      BY <1>1, <2>4
    <3>. QED  BY <2>2, <3>1
  <2>. QED  BY <2>1, <2>3, <2>4
<1>4. \A i \in 1 .. Len(D) - 1 : Linked(g, D[i], S[i], D[i + 1], S[i + 1])
  <2> SUFFICES ASSUME NEW i \in 1 .. Len(D) - 1 PROVE Linked(g, D[i], S[i], D[i + 1], S[i + 1])
    OBVIOUS
  <2>1. i \in 1 .. Len(C) - 1 /\ (i + 1 = Len(C) \/ i + 1 \in 1 .. Len(C) - 1)
    BY <1>1
  <2>2. Linked(g, C[i], S[i], C[i + 1], S[i + 1]) /\ D[i] = C[i]
    BY <1>1, <2>1 DEF Chained
  <2>3. CASE i + 1 = Len(C)
    BY <1>1, <1>2, <2>2, <2>3, LinkedSame
  <2>4. CASE i + 1 \in 1 .. Len(C) - 1
    <3>1. D[i + 1] = C[i + 1]
      BY <1>1, <2>4
    <3>. QED  BY <2>2, <3>1
  <2>. QED  BY <2>1, <2>3, <2>4
<1>5. Chained(g, r, D, S)
  BY <1>3, <1>4 DEF Chained
<1>. QED  BY <1>5 DEF D

(* A call is made. *)
LEMMA Pushed ==
  ASSUME NEW C, IsStack(C), C # <<>>, NEW h, IsCall(h), Joined(Last(C), h)
  PROVE  LET D == Append(C, h) IN IsStack(D) /\ D # <<>> /\ Len(D) = Len(C) + 1 /\ Last(D) = h
<1> DEFINE D == Append(C, h)
<1>1. /\ IsSequence(D) /\ Len(C) \in Nat /\ Len(D) = Len(C) + 1
      /\ \A j \in 1 .. Len(C) : D[j] = C[j]
      /\ D[Len(C) + 1] = h
  BY AppendIsSequence DEF IsStack
<1>. HIDE DEF D
<1>2. Last(C) = C[Len(C)] /\ Len(C) \in Nat \ {0}
  BY StackTop
<1>3. D # <<>> /\ Last(D) = h
  BY <1>1, NoneIsSequence DEF Last
<1>4. D[1].call = "run" /\ D[1].end = Length /\ D[1].scope = NoScope
  <2>1. 1 \in 1 .. Len(C)
    BY <1>2
  <2>. QED  BY <1>1, <2>1 DEF IsStack
<1>5. \A i \in 1 .. Len(D) : IsCall(D[i])
  <2> SUFFICES ASSUME NEW i \in 1 .. Len(D) PROVE IsCall(D[i])
    OBVIOUS
  <2>1. i = Len(C) + 1 \/ i \in 1 .. Len(C)
    BY <1>1
  <2>. QED  BY <1>1, <2>1 DEF IsStack
<1>6. \A i \in 1 .. Len(D) - 1 : Joined(D[i], D[i + 1])
  <2> SUFFICES ASSUME NEW i \in 1 .. Len(D) - 1 PROVE Joined(D[i], D[i + 1])
    OBVIOUS
  <2>1. i \in 1 .. Len(C) /\ (i = Len(C) \/ (i \in 1 .. Len(C) - 1 /\ i + 1 \in 1 .. Len(C)))
    BY <1>1
  <2>2. CASE i = Len(C)
    BY <1>1, <1>2, <2>1, <2>2
  <2>3. CASE i \in 1 .. Len(C) - 1 /\ i + 1 \in 1 .. Len(C)
    <3>1. D[i] = C[i] /\ D[i + 1] = C[i + 1]
      BY <1>1, <2>1, <2>3
    <3>. QED  BY <2>3, <3>1 DEF IsStack
  <2>. QED  BY <2>1, <2>2, <2>3
<1>7. IsStack(D)
  BY <1>1, <1>4, <1>5, <1>6 DEF IsStack
<1>. QED  BY <1>1, <1>3, <1>7 DEF D

(* It begins at c. *)
LEMMA PushedChain ==
  ASSUME NEW g, NEW r, NEW C, IsStack(C), C # <<>>, NEW S, Chained(g, r, C, S),
         NEW h, h.call = "run" => h.scope \in g.scopes,
         NEW c \in Nat, Linked(g, Last(C), S[Len(C)], h, c)
  PROVE  \E T : Chained(g, r, Append(C, h), T) /\ T[Len(C) + 1] = c
<1> DEFINE D == Append(C, h)
           T == [S EXCEPT ![Len(C) + 1] = c]
<1>1. /\ IsSequence(D) /\ Len(C) \in Nat /\ Len(D) = Len(C) + 1
      /\ \A j \in 1 .. Len(C) : D[j] = C[j]
      /\ D[Len(C) + 1] = h
  BY AppendIsSequence DEF IsStack
<1>. HIDE DEF D
<1>2. Last(C) = C[Len(C)] /\ Len(C) \in Nat \ {0}
  BY StackTop
<1>3. /\ T \in [Nat -> Nat] /\ T[Len(C) + 1] = c /\ \A i \in 1 .. Len(C) : T[i] = S[i]
  <2>1. S \in [Nat -> Nat]
    BY DEF Chained
  <2>2. T \in [Nat -> Nat] /\ T[Len(C) + 1] = c
    BY <1>1, <2>1
  <2>3. ASSUME NEW i \in 1 .. Len(C) PROVE T[i] = S[i]
    <3>1. i \in Nat /\ i # Len(C) + 1
      BY <1>1, <2>3
    <3>. QED  BY <2>1, <3>1
  <2>. QED  BY <2>2, <2>3
<1>. HIDE DEF T
<1>4. T[1] = r + 1
  <2>1. 1 \in 1 .. Len(C)
    BY <1>2
  <2>. QED  BY <1>3, <2>1 DEF Chained
<1>5. \A i \in 1 .. Len(D) : D[i].call = "run" => D[i].scope \in g.scopes
  <2> SUFFICES ASSUME NEW i \in 1 .. Len(D), D[i].call = "run" PROVE D[i].scope \in g.scopes
    OBVIOUS
  <2>1. i = Len(C) + 1 \/ i \in 1 .. Len(C)
    BY <1>1
  <2>2. CASE i = Len(C) + 1
    BY <1>1, <2>2
  <2>3. CASE i \in 1 .. Len(C)
    BY <1>1, <2>3 DEF Chained
  <2>. QED  BY <2>1, <2>2, <2>3
<1>6. \A i \in 1 .. Len(D) - 1 : Linked(g, D[i], T[i], D[i + 1], T[i + 1])
  <2> SUFFICES ASSUME NEW i \in 1 .. Len(D) - 1 PROVE Linked(g, D[i], T[i], D[i + 1], T[i + 1])
    OBVIOUS
  <2>1. i \in 1 .. Len(C) /\ (i = Len(C) \/ (i \in 1 .. Len(C) - 1 /\ i + 1 \in 1 .. Len(C)))
    BY <1>1
  <2>2. CASE i = Len(C)
    <3>1. D[i] = Last(C) /\ T[i] = S[Len(C)] /\ D[i + 1] = h /\ T[i + 1] = c
      BY <1>1, <1>2, <1>3, <2>1, <2>2
    <3>. QED  BY <3>1
  <2>3. CASE i \in 1 .. Len(C) - 1 /\ i + 1 \in 1 .. Len(C)
    <3>1. D[i] = C[i] /\ D[i + 1] = C[i + 1] /\ T[i] = S[i] /\ T[i + 1] = S[i + 1]
      BY <1>1, <1>3, <2>1, <2>3
    <3>2. Linked(g, C[i], S[i], C[i + 1], S[i + 1])
      BY <2>3 DEF Chained
    <3>. QED  BY <3>1, <3>2
  <2>. QED  BY <2>1, <2>2, <2>3
<1>7. Chained(g, r, D, T)
  BY <1>3, <1>4, <1>5, <1>6 DEF Chained
<1>. QED  BY <1>3, <1>7 DEF D

-----------------------------------------------------------------------------
(* The decoder's state.                                                     *)

NamesAreRead == \A o \in DOMAIN names : names[o] = NameAt(o)

DecoderTypeOK ==
  /\ IsChunk
  /\ record \in Nat /\ (calls # <<>> => HasRecord(record))
  /\ IsStack(calls)
  /\ NamesAreRead
  /\ IsSequence(out)

(* What the operands of a token are. *)
LEMMA TokenIs ==
  ASSUME IsChunk, NEW p \in Nat, p < Length
  PROVE  LET t == TokenAt(p)
         IN /\ t.t = "open" => t.name \in Nat /\ t.list \in BOOLEAN
            /\ t.t = "attr" => t.name \in Nat
            /\ t.t = "subst" => t.index \in Nat
            /\ t.t = "instance" => t.def \in Nat
<1> DEFINE t == TokenAt(p)
<1>1. p \in ChunkPositions
  BY DecoderAssumption DEF ChunkPositions
<1>2. t \in Tokens
  BY <1>1 DEF IsChunk, TokenAt
<1>. HIDE DEF t
<1>3. t.t = "open" => t.name \in Nat /\ t.list \in BOOLEAN
  BY <1>2 DEF Tokens
<1>4. t.t = "attr" => t.name \in Nat
  BY <1>2 DEF Tokens
<1>5. t.t = "subst" => t.index \in Nat
  BY <1>2 DEF Tokens
<1>6. t.t = "instance" => t.def \in Nat
  BY <1>2 DEF Tokens
<1>. QED  BY <1>3, <1>4, <1>5, <1>6 DEF t

(* What the bytes can be read as. *)
LEMMA BytesAre ==
  ASSUME IsChunk, NEW p \in Nat, p < Length
  PROVE  BodyAt(p) \in Nat /\ ValuesAt(p) \in Seq(Descriptors) /\ SizeAt(p) \in Int
<1>1. p \in ChunkPositions
  BY DecoderAssumption DEF ChunkPositions
<1>. QED  BY <1>1 DEF IsChunk, BodyAt, ValuesAt, SizeAt

LEMMA AfterIs ==
  ASSUME NEW o, NEW p \in Nat
  PROVE  After(o, p) \in Nat
BY DEF After

(* What is put in the place of a substitution is nodes. *)
LEMMA ContentIs ==
  ASSUME NEW s, AreValues(s.vals), NEW tok, tok.index \in Nat
  PROVE  IsSequence(Content(Lookup(s, tok)))
<1>1. CASE Lookup(s, tok) = NullValue
  <2>1. Content(NullValue) = <<>>
    BY DEF Content, NullValue
  <2>. QED  BY <1>1, <2>1, NoneIsSequence
<1>2. CASE Lookup(s, tok) # NullValue
  <2>1. Lookup(s, tok) = s.vals[tok.index + 1] /\ ~(tok.index >= Len(s.vals))
    BY <1>2 DEF Lookup
  <2>2. Len(s.vals) \in Nat
    BY SequenceIs DEF AreValues
  <2>3. tok.index + 1 \in 1 .. Len(s.vals)
    BY <2>1, <2>2
  <2>. QED  BY <2>1, <2>3 DEF AreValues
<1>. QED  BY <1>1, <1>2

LEMMA NoValues == AreValues(<<>>)
BY NoneIsSequence DEF AreValues

(* The name found is the one in the text, and it is kept. *)
LEMMA NameIs ==
  ASSUME NamesAreRead, NEW o, NEW p
  PROVE  /\ NameRef(o, p) = NameAt(o)
         /\ (names' = Cached(o, p) /\ chunk' = chunk => NamesAreRead')
<1>1. NameRef(o, p) = NameAt(o)
  BY DEF NamesAreRead, NameRef
<1>2. ASSUME names' = Cached(o, p), chunk' = chunk PROVE NamesAreRead'
  <2> SUFFICES ASSUME NEW x \in DOMAIN names' PROVE names'[x] = NameAt(x)'
    BY DEF NamesAreRead
  <2>1. x \in DOMAIN names \cup {o} /\ names'[x] = IF x = o THEN NameRef(o, p) ELSE names[x]
    BY <1>2 DEF Cached
  <2>2. NameAt(x)' = NameAt(x)
    BY <1>2 DEF NameAt
  <2>. QED  BY <1>1, <2>1, <2>2 DEF NamesAreRead
<1>. QED  BY <1>1, <1>2

(* A call of the token loop begins. *)
LEMMA RunBegins ==
  ASSUME NEW p \in Nat, NEW e \in Nat, NEW s, AreValues(s.vals)
  PROVE  /\ IsLoop(Run(p, e, s)) /\ IsCall(Run(p, e, s)) /\ Run(p, e, s).call = "run"
         /\ Run(p, e, s).end = e /\ Run(p, e, s).scope = s
         /\ \A g : IsGrammatical(g) /\ s \in g.scopes => RunHolds(g, Run(p, e, s), p)
<1> DEFINE f == Run(p, e, s)
<1>1. f = [call |-> "run", pos |-> p, end |-> e, scope |-> s, steps |-> 0, list |-> FALSE,
           over |-> FALSE, open |-> <<>>, roots |-> <<>>]
  BY DEF Run
<1>. HIDE DEF f
<1>2. /\ f.call = "run" /\ f.pos = p /\ f.end = e /\ f.scope = s /\ f.steps = 0 /\ ~f.list /\ f.list \in BOOLEAN
      /\ ~f.over /\ f.over \in BOOLEAN /\ f.open = <<>> /\ f.roots = <<>>
  BY <1>1
<1>3. IsLoop(f)
  <2>1. /\ IsSequence(<<>>) /\ Len(<<>>) <= MaxDepth /\ 0 \in 0 .. MaxTokens
        /\ \A k \in 1 .. Len(<<>>) : IsElement(<<>>[k])
    BY NoneIsSequence, DecoderAssumption
  <2>. QED  BY <1>1, <1>2, <2>1 DEF IsLoop
<1>4. ASSUME NEW g, IsGrammatical(g), s \in g.scopes PROVE RunHolds(g, f, p)
  <2> DEFINE P == [n \in Nat |-> p]
             N == [n \in Nat |-> 0]
  <2>1. Depth(f) = 0 /\ Level(f, 0) = <<>>
    BY <1>2, NoneIsSequence DEF Depth, Level
  <2>2. Nested(g, f, P, N, p, Depth(f))
    <3>1. P \in [Nat -> Nat] /\ N \in [Nat -> Nat] /\ P[0] = p /\ N[0] = 0
      OBVIOUS
    <3>2. \A i : i \notin 0 .. 0 - 1
      OBVIOUS
    <3>. HIDE DEF P, N
    <3>. QED  BY <2>1, <3>1, <3>2 DEF Nested
  <2>3. Continues(g, f, P, N, f.pos, f.steps)
    <3>1. P[0] = f.pos /\ N[0] = f.steps
      BY <1>2
    <3>. HIDE DEF P, N
    <3>2. ASSUME NEW rest, NEW q, NEW m, NEW tag, Says(g, f.pos, f.end, f.scope, f.steps, 0, rest, q, m, tag)
          PROVE  Says(g, P[0], f.end, f.scope, N[0], 0, <<>> \o rest, q, m, tag)
      <4>1. <<>> \o rest = rest
        BY <3>2, SaysTyped, ConcatNone
      <4>. QED  BY <3>1, <3>2, <4>1
    <3>. QED  BY <2>1, <3>2 DEF Continues
  <2>. HIDE DEF P, N
  <2>. QED  BY <1>2, <1>3, <1>4, <2>2, <2>3, Resumes
<1>. QED  BY <1>2, <1>3, <1>4 DEF IsCall, f

-----------------------------------------------------------------------------
(* The steps of the innermost call of the token loop.                       *)

RunMoves(f, f2) ==
  /\ IsLoop(f2) /\ f2.call = "run" /\ SameAbove(f, f2)
  /\ \A g, b : IsGrammatical(g) /\ f.scope \in g.scopes /\ RunHolds(g, f, b) => RunHolds(g, f2, b)

(* The innermost call, if it is one of the token loop. *)
LEMMA TopRun ==
  ASSUME DecoderTypeOK, InRun
  PROVE  /\ IsStack(calls) /\ calls # <<>> /\ Last(calls) = Top /\ IsLoop(Top) /\ Top.call = "run"
         /\ Top.pos \in Nat /\ Top.end \in Nat /\ Top.steps \in Nat
         /\ Depth(Top) \in Nat /\ (Top.open = <<>> <=> Depth(Top) = 0)
<1>1. IsStack(calls) /\ calls # <<>> /\ Last(calls) = Top /\ Top.call = "run"
  BY DEF DecoderTypeOK, InRun, Top
<1>2. IsLoop(Top)
  BY <1>1, StackTop DEF IsCall
<1>. QED  BY <1>1, <1>2, LevelIs

(* It is at a token. *)
LEMMA AtTokenIs ==
  ASSUME DecoderTypeOK, NEW t, AtToken(t)
  PROVE  /\ InRun /\ ~Top.list /\ ~Top.over /\ ~Over(Top) /\ Top.steps < MaxTokens
         /\ TokenAt(Top.pos).t = t /\ Token = TokenAt(Top.pos) /\ Top.pos < Length
<1>1. InRun /\ ~Top.list /\ ~Over(Top) /\ Top.steps < MaxTokens /\ TokenAt(Top.pos).t = t
  BY DEF AtToken, AtLoop
<1>2. Top.pos \in Nat
  BY <1>1, TopRun
<1>. QED  BY <1>1, <1>2, DecoderAssumption DEF Over, Token

LEMMA ReadIsCall ==
  ASSUME NEW f, NEW f2, SameNodes(f, f2)
  PROVE  SameAbove(f, f2)
BY DEF SameNodes, SameAbove

(* Nodes that stand for a token. *)
LEMMA ItemMoves ==
  ASSUME DecoderTypeOK, NEW t, AtToken(t), NEW ns, IsSequence(ns),
         \A g : IsGrammatical(g) => IsItem(g, Top.scope, Top.pos, ns, Top.pos + 1)
  PROVE  RunMoves(Top, Attach(Read(Top), ns))
<1> DEFINE f  == Top
           f1 == Read(f)
           f2 == Attach(f1, ns)
<1>1. /\ IsLoop(f) /\ ~f.list /\ ~f.over /\ ~Over(f) /\ f.steps < MaxTokens /\ f.call = "run"
  BY AtTokenIs, TopRun
<1>. HIDE DEF f
<1>2. /\ IsLoop(f1) /\ SameNodes(f, f1) /\ f1.pos = f.pos + 1 /\ f1.steps = f.steps + 1
      /\ f1.list = f.list /\ f1.over = f.over
  BY <1>1, ReadIs
<1>. HIDE DEF f1
<1>3. /\ IsLoop(f2) /\ SameCall(f1, f2) /\ Depth(f2) = Depth(f1) /\ SameBelow(f1, f2, Depth(f1))
      /\ Level(f2, Depth(f1)) = Level(f1, Depth(f1)) \o ns
  BY <1>1, <1>2, AttachIs
<1>. HIDE DEF f2
<1>4. Depth(f1) = Depth(f) /\ SameBelow(f, f1, Depth(f)) /\ \A i : Level(f1, i) = Level(f, i)
  BY <1>2, SameNodesBelow
<1>5. SameBelow(f, f2, Depth(f)) /\ Depth(f2) = Depth(f) /\ Level(f2, Depth(f)) = Level(f, Depth(f)) \o ns
  BY <1>3, <1>4 DEF SameBelow
<1>6. /\ f2.call = "run" /\ ~f2.list /\ ~f2.over /\ f2.pos = f.pos + 1 /\ f2.steps = f.steps + 1
      /\ f2.end = f.end /\ f2.scope = f.scope
  BY <1>1, <1>2, <1>3 DEF SameCall, SameNodes
<1>7. ASSUME NEW g, NEW b, IsGrammatical(g), f.scope \in g.scopes, RunHolds(g, f, b)
      PROVE  RunHolds(g, f2, b)
  <2>1. IsItem(g, f.scope, f.pos, ns, f.pos + 1)
    BY <1>7 DEF f
  <2>. QED  BY <1>1, <1>3, <1>5, <1>6, <1>7, <2>1, ItemStep
<1>8. RunMoves(f, f2)
  BY <1>1, <1>3, <1>6, <1>7 DEF RunMoves, SameAbove
<1>. QED  BY <1>8 DEF f, f1, f2

(* A token that stands for no node. *)
LEMMA SkipMoves ==
  ASSUME DecoderTypeOK, AtToken("skip")
  PROVE  RunMoves(Top, Read(Top))
<1> DEFINE f  == Top
           f2 == Read(f)
<1>1. /\ IsLoop(f) /\ ~f.list /\ ~f.over /\ ~Over(f) /\ f.steps < MaxTokens /\ f.call = "run"
      /\ TokenAt(f.pos).t = "skip"
  BY AtTokenIs, TopRun
<1>. HIDE DEF f
<1>2. /\ IsLoop(f2) /\ SameNodes(f, f2) /\ f2.pos = f.pos + 1 /\ f2.steps = f.steps + 1
      /\ f2.list = f.list /\ f2.over = f.over
  BY <1>1, ReadIs
<1>. HIDE DEF f2
<1>3. Depth(f2) = Depth(f) /\ SameBelow(f, f2, Depth(f)) /\ Level(f2, Depth(f)) = Level(f, Depth(f))
  BY <1>2, SameNodesBelow
<1>4. Level(f, Depth(f)) \o <<>> = Level(f, Depth(f)) /\ IsSequence(<<>>)
  <2>1. Depth(f) \in 0 .. Depth(f)
    BY <1>1, LevelIs
  <2>. QED  BY <1>1, <2>1, LevelIs, ConcatNone, NoneIsSequence
<1>5. ASSUME NEW g, NEW b, IsGrammatical(g), f.scope \in g.scopes, RunHolds(g, f, b)
      PROVE  RunHolds(g, f2, b)
  <2>1. IsItem(g, f.scope, f.pos, <<>>, f.pos + 1)
    BY <1>1 DEF IsItem
  <2>2. Level(f2, Depth(f)) = Level(f, Depth(f)) \o <<>>
    BY <1>3, <1>4
  <2>. QED  BY <1>1, <1>2, <1>3, <1>4, <1>5, <2>1, <2>2, ItemStep
<1>6. RunMoves(f, f2)
  BY <1>1, <1>2, <1>5 DEF RunMoves, SameAbove, SameNodes
<1>. QED  BY <1>6 DEF f, f2

(* A text. *)
LEMMA ValueMoves ==
  ASSUME DecoderTypeOK, AtToken("value")
  PROVE  RunMoves(Top, Attach(Read(Top), <<Text(Top.pos)>>))
<1>1. IsSequence(<<Text(Top.pos)>>)
  BY OneIsSequence
<1>2. \A g : IsGrammatical(g) => IsItem(g, Top.scope, Top.pos, <<Text(Top.pos)>>, Top.pos + 1)
  BY AtTokenIs DEF IsItem
<1>. QED  BY <1>1, <1>2, ItemMoves

(* A value put in the place of its number. *)
LEMMA SubstitutionMoves ==
  ASSUME DecoderTypeOK, AtToken("subst"), Top.scope.on
  PROVE  RunMoves(Top, Attach(Read(Top), Content(Lookup(Top.scope, Token))))
<1>1. /\ IsLoop(Top) /\ Top.pos \in Nat /\ Top.pos < Length /\ Token = TokenAt(Top.pos)
      /\ TokenAt(Top.pos).t = "subst" /\ IsChunk
  BY AtTokenIs, TopRun DEF DecoderTypeOK
<1>2. Token.index \in Nat
  BY <1>1, TokenIs
<1>3. IsSequence(Content(Lookup(Top.scope, Token)))
  BY <1>1, <1>2, ContentIs DEF IsLoop
<1>4. \A g : IsGrammatical(g) =>
        IsItem(g, Top.scope, Top.pos, Content(Lookup(Top.scope, Token)), Top.pos + 1)
  BY <1>1 DEF IsItem
<1>. QED  BY <1>3, <1>4, ItemMoves

(* The end of stream. *)
LEMMA StopMoves ==
  ASSUME DecoderTypeOK, AtToken("eos")
  PROVE  RunMoves(Top, [Read(Top) EXCEPT !.over = TRUE])
<1> DEFINE f  == Top
           f1 == Read(f)
           f2 == [f1 EXCEPT !.over = TRUE]
<1>1. /\ IsLoop(f) /\ ~f.list /\ ~f.over /\ ~Over(f) /\ f.steps < MaxTokens /\ f.call = "run"
      /\ TokenAt(f.pos).t = "eos"
  BY AtTokenIs, TopRun
<1>. HIDE DEF f
<1>2. /\ IsLoop(f1) /\ SameNodes(f, f1) /\ f1.list = f.list
  BY <1>1, ReadIs
<1>. HIDE DEF f1
<1>3. IsLoop(f2) /\ SameNodes(f1, f2) /\ f2.list = f1.list /\ f2.over
  BY <1>1, <1>2, StoppedIs
<1>. HIDE DEF f2
<1>4. SameNodes(f, f2) /\ ~f2.list
  BY <1>1, <1>2, <1>3 DEF SameNodes
<1>5. ASSUME NEW g, NEW b, IsGrammatical(g), f.scope \in g.scopes, RunHolds(g, f, b)
      PROVE  RunHolds(g, f2, b)
  BY <1>1, <1>3, <1>4, <1>5, StopStep
<1>6. RunMoves(f, f2)
  BY <1>1, <1>3, <1>4, <1>5 DEF RunMoves, SameAbove, SameNodes
<1>. QED  BY <1>6 DEF f, f1, f2

(* A start tag. *)
LEMMA OpenMoves ==
  ASSUME DecoderTypeOK, AtToken("open"), ~TooDeep(Top), NameReadable(Token.name)
  PROVE  RunMoves(Top, [Read(Top) EXCEPT !.pos = After(Token.name, Top.pos),
                                         !.open = Append(@, Elem(NameRef(Token.name, Top.pos))),
                                         !.list = Token.list])
<1> DEFINE f  == Top
           t  == TokenAt(f.pos)
           f2 == [Read(f) EXCEPT !.pos = After(t.name, f.pos), !.open = Append(@, Elem(NameAt(t.name))), !.list = t.list]
<1>1. /\ IsLoop(f) /\ ~f.list /\ ~f.over /\ ~Over(f) /\ f.steps < MaxTokens /\ f.call = "run"
      /\ t.t = "open" /\ Token = t /\ f.pos \in Nat /\ f.pos < Length /\ IsChunk
  BY AtTokenIs, TopRun DEF DecoderTypeOK
<1>2. NameRef(Token.name, Top.pos) = NameAt(t.name)
  BY <1>1, NameIs DEF DecoderTypeOK
<1>3. ~TooDeep(f) /\ NameReadable(t.name) /\ t.list \in BOOLEAN /\ After(t.name, f.pos) \in Nat
  BY <1>1, TokenIs, AfterIs
<1>. HIDE DEF f
<1>4. /\ IsLoop(f2) /\ f2.call = f.call /\ f2.pos = After(t.name, f.pos) /\ f2.end = f.end /\ f2.scope = f.scope
      /\ f2.steps = f.steps + 1 /\ f2.list = t.list /\ f2.over = f.over
      /\ Depth(f2) = Depth(f) + 1 /\ Depth(f) < MaxDepth /\ SameBelow(f, f2, Depth(f))
      /\ Level(f2, Depth(f)) = Level(f, Depth(f))
      /\ f2.open[Depth(f) + 1] = Element(NameAt(t.name), <<>>, <<>>)
  <2> DEFINE x  == After(t.name, f.pos)
             n  == NameAt(t.name)
             ls == t.list
  <2>1. x \in Nat /\ ls \in BOOLEAN
    BY <1>3
  <2>. HIDE DEF t, x, n, ls
  <2>2. Opened(f, [Read(f) EXCEPT !.pos = x, !.open = Append(@, Elem(n)), !.list = ls], x, n, ls)
    BY <1>1, <1>3, <2>1, OpenedIs
  <2>3. Opened(f, f2, x, n, ls)
    BY <2>2 DEF x, n, ls, t
  <2>. HIDE DEF f2
  <2>. QED  BY <2>3 DEF Opened, x, n, ls
<1>. HIDE DEF f2
<1>5. ASSUME NEW g, NEW b, IsGrammatical(g), f.scope \in g.scopes, RunHolds(g, f, b)
      PROVE  RunHolds(g, f2, b)
  BY <1>1, <1>3, <1>4, <1>5, OpenStep
<1>6. RunMoves(f, f2)
  BY <1>1, <1>4, <1>5 DEF RunMoves, SameAbove
<1>. QED  BY <1>1, <1>2, <1>6 DEF f, f2, t

(* An end tag. *)
LEMMA EndMoves ==
  ASSUME DecoderTypeOK, AtToken("end"), Top.open # <<>>
  PROVE  RunMoves(Top, Close(Read(Top)))
<1> DEFINE f  == Top
           f1 == Read(f)
           f2 == Close(f1)
           k  == Depth(f)
<1>1. /\ IsLoop(f) /\ ~f.list /\ ~f.over /\ ~Over(f) /\ f.steps < MaxTokens /\ f.call = "run"
      /\ TokenAt(f.pos).t = "end"
  BY AtTokenIs, TopRun
<1>2. f.open # <<>>
  OBVIOUS
<1>. HIDE DEF f
<1>3. /\ IsLoop(f1) /\ SameNodes(f, f1) /\ f1.pos = f.pos + 1 /\ f1.steps = f.steps + 1
      /\ f1.list = f.list /\ f1.over = f.over
  BY <1>1, ReadIs
<1>. HIDE DEF f1
<1>4. /\ Depth(f1) = k /\ SameBelow(f, f1, k) /\ (\A i : Level(f1, i) = Level(f, i)) /\ f1.open = f.open
  BY <1>3, SameNodesBelow DEF SameNodes
<1>5. /\ IsLoop(f2) /\ SameCall(f1, f2) /\ k \in Nat \ {0} /\ Depth(f2) = k - 1 /\ SameBelow(f1, f2, k - 1)
      /\ Level(f2, k - 1) = Level(f1, k - 1) \o <<Element(f1.open[k].elem, f1.open[k].attrs, Level(f1, k))>>
  BY <1>1, <1>2, <1>3, <1>4, CloseIs
<1>. HIDE DEF f2
<1>6. SameBelow(f, f2, k - 1)
  <2>1. SameBelow(f, f1, k - 1)
    BY <1>4, <1>5, SameBelowLess
  <2>. QED  BY <1>5, <2>1 DEF SameBelow
<1>7. Level(f2, k - 1) = Level(f, k - 1) \o <<Element(f.open[k].elem, f.open[k].attrs, Level(f, k))>>
  BY <1>4, <1>5
<1>8. /\ f2.call = "run" /\ ~f2.list /\ ~f2.over /\ f2.pos = f.pos + 1 /\ f2.steps = f.steps + 1
      /\ f2.end = f.end /\ f2.scope = f.scope
  BY <1>1, <1>3, <1>5 DEF SameCall, SameNodes
<1>9. ASSUME NEW g, NEW b, IsGrammatical(g), f.scope \in g.scopes, RunHolds(g, f, b)
      PROVE  RunHolds(g, f2, b)
  <2>1. Depth(f) # 0
    BY <1>5
  <2>. QED  BY <1>1, <1>5, <1>6, <1>7, <1>8, <1>9, <2>1, EndStep
<1>10. RunMoves(f, f2)
  BY <1>1, <1>5, <1>8, <1>9 DEF RunMoves, SameAbove
<1>. QED  BY <1>10 DEF f, f1, f2

(* An attribute. *)
LEMMA AttributeMoves ==
  ASSUME DecoderTypeOK, AtAttribute, NameReadable(Token.name), ValueReadable(Top.scope, Token.value)
  PROVE  RunMoves(Top, [WithAttribute(Top, NameRef(Token.name, Top.pos), AttrText(Top.scope, Token.value, Top.pos))
                          EXCEPT !.pos = After(Token.name, Top.pos)])
<1> DEFINE f  == Top
           t  == TokenAt(f.pos)
           tx == AttrText(f.scope, t.value, f.pos)
           x  == After(t.name, f.pos)
           f2 == [WithAttribute(f, NameAt(t.name), tx) EXCEPT !.pos = x]
           k  == Depth(f)
<1>1. /\ IsLoop(f) /\ f.list /\ f.call = "run" /\ t.t = "attr" /\ Token = t /\ f.pos \in Nat /\ f.pos < Length
  BY TopRun DEF AtAttribute, Token
<1>2. NameRef(Token.name, Top.pos) = NameAt(t.name)
  BY <1>1, NameIs DEF DecoderTypeOK
<1>3. x \in Nat
  BY <1>1, AfterIs
<1>4. IsAttribute(f.scope, f.pos)
  BY <1>1 DEF IsAttribute
<1>5. [name |-> NameAt(t.name), text |-> tx] = AttributeAt(f.scope, f.pos)
  BY DEF AttributeAt
<1>. HIDE DEF f, tx, x
<1>6. /\ IsLoop(f2) /\ f2.call = f.call /\ f2.pos = x /\ f2.end = f.end /\ f2.scope = f.scope
      /\ f2.steps = f.steps /\ f2.list = f.list /\ f2.over = f.over
      /\ Depth(f2) = k /\ k \in Nat \ {0} /\ SameBelow(f, f2, k - 1)
      /\ \A i \in 0 .. k : Level(f2, i) = Level(f, i)
      /\ f2.open[k].elem = f.open[k].elem
      /\ f2.open[k].attrs = Append(f.open[k].attrs, [name |-> NameAt(t.name), text |-> tx])
  <2> DEFINE n == NameAt(t.name)
  <2>. HIDE DEF t, n
  <2>1. Attributed(f, [WithAttribute(f, n, tx) EXCEPT !.pos = x], x, [name |-> n, text |-> tx])
    BY <1>1, <1>3, WithAttributeIs
  <2>2. Attributed(f, f2, x, [name |-> n, text |-> tx])
    BY <2>1 DEF n, t
  <2>. HIDE DEF f2
  <2>. QED  BY <2>2 DEF Attributed, n
<1>. HIDE DEF f2
<1>7. ASSUME NEW g, NEW b, IsGrammatical(g), f.scope \in g.scopes, RunHolds(g, f, b)
      PROVE  RunHolds(g, f2, b)
  <2>1. f2.pos = After(TokenAt(f.pos).name, f.pos)
    BY <1>6 DEF x
  <2>2. f2.open[k].attrs = Append(f.open[k].attrs, AttributeAt(f.scope, f.pos))
    BY <1>5, <1>6
  <2>. QED  BY <1>1, <1>4, <1>6, <1>7, <2>1, <2>2, AttributeStep
<1>8. RunMoves(f, f2)
  BY <1>1, <1>6, <1>7 DEF RunMoves, SameAbove
<1>. QED  BY <1>1, <1>2, <1>8 DEF f, f2, t, x, tx

(* The end of the attributes. *)
LEMMA ListMoves ==
  ASSUME DecoderTypeOK, InRun, Top.list, ~AtAttribute
  PROVE  RunMoves(Top, NoMore(Top))
<1> DEFINE f  == Top
           f2 == NoMore(f)
<1>1. /\ IsLoop(f) /\ f.list /\ f.call = "run" /\ f.pos \in Nat
  BY TopRun
<1>2. f.pos >= Length \/ TokenAt(f.pos).t # "attr"
  BY <1>1, DecoderAssumption DEF AtAttribute, Token
<1>. HIDE DEF f
<1>3. /\ IsLoop(f2) /\ SameNodes(f, f2) /\ f2.pos = f.pos /\ f2.steps = f.steps /\ ~f2.list /\ f2.over = f.over
  BY <1>1, NoMoreIs
<1>. HIDE DEF f2
<1>4. ~f2.over
  BY <1>1, <1>3 DEF IsLoop
<1>5. ASSUME NEW g, NEW b, IsGrammatical(g), f.scope \in g.scopes, RunHolds(g, f, b)
      PROVE  RunHolds(g, f2, b)
  BY <1>1, <1>2, <1>3, <1>4, <1>5, ListEnds
<1>6. RunMoves(f, f2)
  BY <1>1, <1>3, <1>5 DEF RunMoves, SameAbove, SameNodes
<1>. QED  BY <1>6 DEF f, f2

(* An element closed at the end of the fragment. *)
LEMMA UnclosedMoves ==
  ASSUME DecoderTypeOK, Ended, Top.open # <<>>
  PROVE  RunMoves(Top, Close(Top))
<1> DEFINE f  == Top
           f2 == Close(f)
           k  == Depth(f)
<1>1. /\ IsLoop(f) /\ ~f.list /\ Over(f) /\ f.call = "run"
  BY TopRun DEF Ended
<1>2. f.open # <<>>
  OBVIOUS
<1>. HIDE DEF f
<1>3. /\ IsLoop(f2) /\ SameCall(f, f2) /\ k \in Nat \ {0} /\ Depth(f2) = k - 1 /\ SameBelow(f, f2, k - 1)
      /\ Level(f2, k - 1) = Level(f, k - 1) \o <<Element(f.open[k].elem, f.open[k].attrs, Level(f, k))>>
  BY <1>1, <1>2, CloseIs
<1>. HIDE DEF f2
<1>4. ASSUME NEW g, NEW b, IsGrammatical(g), f.scope \in g.scopes, RunHolds(g, f, b)
      PROVE  RunHolds(g, f2, b)
  <2>1. Depth(f) # 0
    BY <1>3
  <2>. QED  BY <1>1, <1>3, <1>4, <2>1, UnclosedStep
<1>5. RunMoves(f, f2)
  BY <1>1, <1>3, <1>4 DEF RunMoves, SameAbove, SameCall
<1>. QED  BY <1>5 DEF f, f2

-----------------------------------------------------------------------------
(* The stack after a step of its innermost call.                            *)

\* What a step on the stack does: it stays one, and still holds.
StackMoves(C, D) ==
  /\ IsStack(D)
  /\ \A g, r : IsGrammatical(g) /\ StackHolds(g, r, C) => StackHolds(g, r, D)

(* A step of the innermost call is one of the stack. *)
LEMMA TopMoves ==
  ASSUME DecoderTypeOK, InRun, NEW f2, RunMoves(Top, f2)
  PROVE  StackMoves(calls, Append(Front(calls), f2))
<1> DEFINE D == Append(Front(calls), f2)
<1>1. IsStack(calls) /\ calls # <<>> /\ Last(calls) = Top /\ Top.call = "run"
  BY TopRun
<1>2. IsLoop(f2) /\ f2.call = "run" /\ SameAbove(Top, f2) /\ IsCall(f2)
  BY DEF RunMoves, IsCall
<1>3. IsStack(D) /\ D # <<>> /\ Len(D) = Len(calls) /\ Last(D) = f2
  BY <1>1, <1>2, Advanced
<1>4. ASSUME NEW g, NEW r, IsGrammatical(g), StackHolds(g, r, calls) PROVE StackHolds(g, r, D)
  <2>1. PICK S : /\ Chained(g, r, calls, S)
                 /\ calls # <<>> /\ Last(calls).call = "run" => RunHolds(g, Last(calls), S[Len(calls)])
    BY <1>4 DEF StackHolds
  <2>2. Chained(g, r, D, S)
    BY <1>1, <1>2, <2>1, AdvancedChain
  <2>3. Top.scope \in g.scopes
    <3>1. Len(calls) \in 1 .. Len(calls) /\ Top = calls[Len(calls)]
      BY <1>1, StackTop
    <3>. QED  BY <1>1, <2>1, <3>1 DEF Chained
  <2>4. RunHolds(g, f2, S[Len(D)])
    BY <1>1, <1>3, <1>4, <2>1, <2>3 DEF RunMoves
  <2>. HIDE DEF D
  <2>. QED  BY <1>3, <2>2, <2>4 DEF StackHolds
<1>. QED  BY <1>3, <1>4 DEF StackMoves

-----------------------------------------------------------------------------
(* Instances.                                                               *)

\* The instance a has read one value, v, and goes on at p.
ReadsValue(a, a2, v, p) ==
  /\ IsInstance(a2) /\ a2.call = "instance"
  /\ a2.todo = Tail(a.todo) /\ a2.pos = p /\ a2.vals = Append(a.vals, v) /\ a2.body = a.body /\ a2.end = a.end

LEMMA WithValue ==
  ASSUME NEW a, IsInstance(a), a.todo # <<>>, NEW v, IsSequence(Content(v)), NEW p \in Nat
  PROVE  ReadsValue(a, [call |-> "instance", pos |-> p, body |-> a.body, end |-> a.end,
                        todo |-> Tail(a.todo), vals |-> Append(a.vals, v)], v, p)
<1> DEFINE a2 == [call |-> "instance", pos |-> p, body |-> a.body, end |-> a.end,
                  todo |-> Tail(a.todo), vals |-> Append(a.vals, v)]
<1>1. /\ a2.call = "instance" /\ a2.todo = Tail(a.todo) /\ a2.pos = p /\ a2.vals = Append(a.vals, v)
      /\ a2.body = a.body /\ a2.end = a.end
  OBVIOUS
<1>7. a2 = [call |-> "instance", pos |-> a2.pos, body |-> a2.body, end |-> a2.end, todo |-> a2.todo, vals |-> a2.vals]
  OBVIOUS
<1>. HIDE DEF a2
<1>2. a.todo \in Seq(Descriptors) /\ IsSequence(a.vals) /\ Len(a.vals) + Len(a.todo) <= MaxValues
      /\ (\A k \in 1 .. Len(a.vals) : IsSequence(Content(a.vals[k]))) /\ a.body \in Nat /\ a.end \in Nat
  BY DEF IsInstance, AreValues
<1>3. /\ IsSequence(a2.vals) /\ Len(a.vals) \in Nat /\ Len(a2.vals) = Len(a.vals) + 1
      /\ \A k \in 1 .. Len(a.vals) : a2.vals[k] = a.vals[k]
      /\ a2.vals[Len(a.vals) + 1] = v
  BY <1>1, <1>2, AppendIsSequence
<1>4. Tail(a.todo) \in Seq(Descriptors) /\ Len(a.todo) \in Nat /\ Len(Tail(a.todo)) = Len(a.todo) - 1
  BY <1>2
<1>5. AreValues(a2.vals)
  <2> SUFFICES ASSUME NEW k \in 1 .. Len(a2.vals) PROVE IsSequence(Content(a2.vals[k]))
    BY <1>3 DEF AreValues
  <2>1. k = Len(a.vals) + 1 \/ k \in 1 .. Len(a.vals)
    BY <1>3
  <2>. QED  BY <1>2, <1>3, <2>1
<1>6. Len(a2.vals) + Len(a2.todo) <= MaxValues
  <2>1. Len(a2.vals) = Len(a.vals) + 1 /\ Len(a2.todo) = Len(a.todo) - 1
    BY <1>1, <1>3, <1>4
  <2>2. Len(a.vals) \in Nat /\ Len(a.todo) \in Nat /\ Len(a.vals) + Len(a.todo) <= MaxValues
    BY <1>2, <1>3, <1>4
  <2>3. \A i, j : i \in Nat /\ j \in Nat /\ i + j <= MaxValues => (i + 1) + (j - 1) <= MaxValues
    BY DecoderAssumption
  <2>4. (Len(a.vals) + 1) + (Len(a.todo) - 1) <= MaxValues
    BY <2>2, <2>3
  <2>. QED  BY <2>1, <2>4
<1>8. IsInstance(a2)
  BY <1>1, <1>2, <1>4, <1>5, <1>6, <1>7 DEF IsInstance
<1>9. ReadsValue(a, a2, v, p)
  BY <1>1, <1>8 DEF ReadsValue
<1>. QED  BY <1>9 DEF a2

(* A value is read, and takes n positions. *)
LEMMA GotIs ==
  ASSUME NEW a, IsInstance(a), a.todo # <<>>, NEW v, IsSequence(Content(v)), NEW n \in Nat
  PROVE  ReadsValue(a, Got(a, v, n), v, a.pos + n)
<1>1. PICK p, b, e, t, w : a = [call |-> "instance", pos |-> p, body |-> b, end |-> e, todo |-> t, vals |-> w]
  BY DEF IsInstance
<1>2. Got(a, v, n) = [call |-> "instance", pos |-> a.pos + n, body |-> a.body, end |-> a.end,
                      todo |-> Tail(a.todo), vals |-> Append(a.vals, v)]
  <2>1. PICK x, y, z : x = Append(a.vals, v) /\ y = Tail(a.todo) /\ z = a.pos + n
    OBVIOUS
  <2>2. Got(a, v, n) = [a EXCEPT !.vals = x, !.todo = y, !.pos = z]
    BY <2>1 DEF Got
  <2>3. PICK a1 : a1 = [a EXCEPT !.vals = x]
    OBVIOUS
  <2>4. PICK a2 : a2 = [a1 EXCEPT !.todo = y]
    OBVIOUS
  <2>5. Got(a, v, n) = [a2 EXCEPT !.pos = z]
    BY <2>2, <2>3, <2>4
  <2>6. a1 = [call |-> "instance", pos |-> p, body |-> b, end |-> e, todo |-> t, vals |-> x]
    BY <1>1, <2>3
  <2>7. a2 = [call |-> "instance", pos |-> p, body |-> b, end |-> e, todo |-> y, vals |-> x]
    BY <2>4, <2>6
  <2>8. Got(a, v, n) = [call |-> "instance", pos |-> z, body |-> b, end |-> e, todo |-> y, vals |-> x]
    BY <2>5, <2>7
  <2>9. b = a.body /\ e = a.end
    BY <1>1
  <2>. QED  BY <2>1, <2>9, <2>8
<1>3. a.pos + n \in Nat
  BY DEF IsInstance
<1>. QED  BY <1>2, <1>3, WithValue

(* A value is read, and the next is at p. *)
LEMMA GotThere ==
  ASSUME NEW a, IsInstance(a), a.todo # <<>>, NEW v, IsSequence(Content(v)), NEW p \in Nat
  PROVE  ReadsValue(a, [Got(a, v, 0) EXCEPT !.pos = p], v, p)
<1> DEFINE a1 == Got(a, v, 0)
<1>1. ReadsValue(a, a1, v, a.pos + 0)
  BY GotIs
<1>. HIDE DEF a1
<1>2. PICK p1, b, e, t, w : a1 = [call |-> "instance", pos |-> p1, body |-> b, end |-> e, todo |-> t, vals |-> w]
  BY <1>1 DEF ReadsValue, IsInstance
<1>3. [a1 EXCEPT !.pos = p] = [call |-> "instance", pos |-> p, body |-> b, end |-> e, todo |-> t, vals |-> w]
  BY <1>2
<1>4. b = a.body /\ e = a.end /\ t = Tail(a.todo) /\ w = Append(a.vals, v)
  BY <1>1, <1>2 DEF ReadsValue
<1>5. [a1 EXCEPT !.pos = p] = [call |-> "instance", pos |-> p, body |-> a.body, end |-> a.end,
                               todo |-> Tail(a.todo), vals |-> Append(a.vals, v)]
  BY <1>3, <1>4
<1>6. ReadsValue(a, [a1 EXCEPT !.pos = p], v, p)
  BY <1>5, WithValue
<1>. QED  BY <1>6 DEF a1

(* The content of each kind of value is nodes. *)
LEMMA ContentOf ==
  /\ IsSequence(Content(NullValue))
  /\ \A p : IsSequence(Content(Scalar(p)))
  /\ \A ns : IsSequence(ns) => IsSequence(Content(Fragment(ns)))
<1>1. Content(NullValue) = <<>>
  BY DEF Content, NullValue
<1>2. \A p : Content(Scalar(p)) = <<Text(p)>>
  BY DEF Content, Scalar
<1>3. \A ns : Content(Fragment(ns)) = ns
  BY DEF Content, Fragment
<1>. QED  BY <1>1, <1>2, <1>3, NoneIsSequence, OneIsSequence

(* The stack with one value more read by its innermost call. *)
LEMMA ValueStack ==
  ASSUME NEW C, IsStack(C), C # <<>>, Last(C).call = "instance", NEW a2, NEW v, NEW p, ReadsValue(Last(C), a2, v, p)
  PROVE  IsStack(Append(Front(C), a2)) /\ Append(Front(C), a2) # <<>>
<1>1. IsCall(a2) /\ SameAbove(Last(C), a2)
  BY DEF ReadsValue, IsCall, SameAbove
<1>. QED  BY <1>1, Advanced

LEMMA ValueChain ==
  ASSUME NEW g, IsGrammatical(g), NEW r, NEW C, IsStack(C), C # <<>>, Last(C).call = "instance",
         Last(C).todo # <<>>, NEW S, Chained(g, r, C, S),
         NEW a2, NEW v, NEW p, ReadsValue(Last(C), a2, v, p),
         IsValueAt(g, Head(Last(C).todo), Last(C).pos, v, p)
  PROVE  StackHolds(g, r, Append(Front(C), a2))
<1> DEFINE F == Front(C)
           f == Last(F)
           a == Last(C)
           n == Len(C)
           D == Append(F, a2)
<1>1. /\ n \in Nat \ {0} /\ n > 1 /\ a = C[n] /\ IsCall(a) /\ F # <<>> /\ f = C[n - 1] /\ IsCall(f) /\ Joined(f, a)
  BY StackTop
<1>2. IsStack(F) /\ Chained(g, r, F, S) /\ Len(F) = n - 1
  BY <1>1, Popped, PoppedChain, FrontIs DEF IsStack
<1>3. f.call = "run" /\ IsInstance(a)
  BY <1>1 DEF Joined, IsCall
<1>4. AwaitsValues(g, f, S[n - 1], a)
  <2>1. n - 1 \in 1 .. Len(C) - 1 /\ (n - 1) + 1 = n
    BY <1>1
  <2>2. Linked(g, C[n - 1], S[n - 1], C[(n - 1) + 1], S[(n - 1) + 1])
    BY <2>1 DEF Chained
  <2>3. Linked(g, f, S[n - 1], a, S[n])
    BY <1>1, <2>1, <2>2
  <2>. QED  BY <1>3, <2>3 DEF Linked
<1>5. /\ a2.todo = Tail(a.todo) /\ a2.pos = p /\ a2.vals = Append(a.vals, v) /\ a2.body = a.body /\ a2.end = a.end
      /\ a2.call = "instance"
  BY DEF ReadsValue
<1>6. AwaitsValues(g, f, S[n - 1], a2)
  <2>1. a.todo # <<>> /\ IsValueAt(g, Head(a.todo), a.pos, v, p)
    OBVIOUS
  <2>. HIDE DEF a, f, n
  <2>. QED  BY <1>3, <1>4, <1>5, <2>1, ValueStep
<1>. HIDE DEF F, f, a, n
<1>7. Linked(g, Last(F), S[Len(F)], a2, 0)
  BY <1>2, <1>3, <1>5, <1>6 DEF Linked, f
<1>8. PICK T : Chained(g, r, D, T)
  BY <1>1, <1>2, <1>5, <1>7, PushedChain
<1>9. Last(D) = a2
  BY <1>2, AppendIsSequence DEF IsStack, Last
<1>10. StackHolds(g, r, D)
  <2>. HIDE DEF D
  <2>. QED  BY <1>5, <1>8, <1>9 DEF StackHolds
<1>. QED  BY <1>10 DEF D, F

(* The innermost call, if it is an instance. *)
LEMMA TopInstance ==
  ASSUME DecoderTypeOK, InInstance
  PROVE  /\ IsStack(calls) /\ calls # <<>> /\ Last(calls) = Top /\ IsInstance(Top) /\ Top.call = "instance"
         /\ Len(calls) > 1 /\ Top.pos \in Nat /\ IsLoop(Caller) /\ Caller.call = "run"
         /\ ~Caller.list /\ ~Caller.over
<1>1. IsStack(calls) /\ calls # <<>> /\ Last(calls) = Top /\ Top.call = "instance"
  BY DEF DecoderTypeOK, InInstance, Top
<1>2. IsInstance(Top)
  BY <1>1, StackTop DEF IsCall
<1>3. Len(calls) > 1 /\ IsCall(Caller) /\ Joined(Caller, Top)
  BY <1>1, StackTop DEF Caller
<1>4. Caller.call = "run" /\ ~Caller.list /\ ~Caller.over
  BY <1>1, <1>3 DEF Joined
<1>. QED  BY <1>1, <1>2, <1>3, <1>4 DEF IsInstance, IsCall

(* A value that is no fragment. *)
LEMMA ValueReads ==
  ASSUME DecoderTypeOK, InInstance, Top.todo # <<>>, NEW a2, NEW v, NEW p, ReadsValue(Top, a2, v, p),
         \A g : IsGrammatical(g) => IsValueAt(g, Head(Top.todo), Top.pos, v, p)
  PROVE  StackMoves(calls, Append(Front(calls), a2))
<1>1. IsStack(calls) /\ calls # <<>> /\ Last(calls) = Top /\ Top.call = "instance"
  BY TopInstance
<1>2. IsStack(Append(Front(calls), a2))
  BY <1>1, ValueStack
<1>3. ASSUME NEW g, NEW r, IsGrammatical(g), StackHolds(g, r, calls)
      PROVE  StackHolds(g, r, Append(Front(calls), a2))
  <2>1. PICK S : Chained(g, r, calls, S)
    BY <1>3 DEF StackHolds
  <2>2. IsValueAt(g, Head(Top.todo), Top.pos, v, p)
    BY <1>3
  <2>. QED  BY <1>1, <1>3, <2>1, <2>2, ValueChain
<1>. QED  BY <1>2, <1>3 DEF StackMoves

(* A null. *)
LEMMA NullMoves ==
  ASSUME DecoderTypeOK, AtValue("null")
  PROVE  StackMoves(calls, Append(Front(calls), Got(Top, NullValue, 0)))
<1>1. InInstance /\ Top.todo # <<>> /\ Head(Top.todo).kind = "null" /\ IsInstance(Top) /\ Top.pos \in Nat
  BY TopInstance DEF AtValue
<1>2. ReadsValue(Top, Got(Top, NullValue, 0), NullValue, Top.pos + 0)
  BY <1>1, ContentOf, GotIs
<1>3. \A g : IsGrammatical(g) => IsValueAt(g, Head(Top.todo), Top.pos, NullValue, Top.pos + 0)
  <2>1. Top.pos + 0 = Top.pos
    BY <1>1
  <2>. QED  BY <1>1, <2>1 DEF IsValueAt
<1>. QED  BY <1>1, <1>2, <1>3, ValueReads

(* A scalar. *)
LEMMA ScalarMoves ==
  ASSUME DecoderTypeOK, AtValue("scalar"), Top.pos < Length
  PROVE  StackMoves(calls, Append(Front(calls), Got(Top, Scalar(Top.pos), 1)))
<1>1. InInstance /\ Top.todo # <<>> /\ Head(Top.todo).kind = "scalar" /\ IsInstance(Top)
  BY TopInstance DEF AtValue
<1>2. ReadsValue(Top, Got(Top, Scalar(Top.pos), 1), Scalar(Top.pos), Top.pos + 1)
  BY <1>1, ContentOf, GotIs
<1>3. \A g : IsGrammatical(g) => IsValueAt(g, Head(Top.todo), Top.pos, Scalar(Top.pos), Top.pos + 1)
  BY <1>1 DEF IsValueAt
<1>. QED  BY <1>1, <1>2, <1>3, ValueReads

(* A call of the token loop is made. *)
LEMMA RunPushed ==
  ASSUME NEW C, IsStack(C), C # <<>>, NEW p \in Nat, NEW e \in Nat, NEW s, AreValues(s.vals),
         Joined(Last(C), Run(p, e, s))
  PROVE  /\ IsStack(Append(C, Run(p, e, s)))
         /\ \A g, r, S : /\ IsGrammatical(g) /\ Chained(g, r, C, S) /\ s \in g.scopes
                         /\ Linked(g, Last(C), S[Len(C)], Run(p, e, s), p)
                         => StackHolds(g, r, Append(C, Run(p, e, s)))
<1> DEFINE h == Run(p, e, s)
           D == Append(C, h)
<1>1. IsCall(h) /\ h.call = "run" /\ h.scope = s
  BY RunBegins
<1>2. \A g : IsGrammatical(g) /\ s \in g.scopes => RunHolds(g, h, p)
  BY RunBegins
<1>3. Joined(Last(C), h)
  OBVIOUS
<1>. HIDE DEF h
<1>4. IsStack(D) /\ D # <<>> /\ Len(D) = Len(C) + 1 /\ Last(D) = h
  BY <1>1, <1>3, Pushed
<1>5. ASSUME NEW g, NEW r, NEW S, IsGrammatical(g), Chained(g, r, C, S), s \in g.scopes,
             Linked(g, Last(C), S[Len(C)], h, p)
      PROVE  StackHolds(g, r, D)
  <2>1. PICK T : Chained(g, r, D, T) /\ T[Len(C) + 1] = p
    BY <1>1, <1>5, PushedChain
  <2>2. RunHolds(g, Last(D), T[Len(D)])
    BY <1>2, <1>4, <1>5, <2>1
  <2>. HIDE DEF D
  <2>. QED  BY <2>1, <2>2 DEF StackHolds
<1>. QED  BY <1>4, <1>5 DEF h, D

(* A value that is a fragment is to be decoded. *)
LEMMA FragmentCalled ==
  ASSUME DecoderTypeOK, AtValue("fragment")
  PROVE  StackMoves(calls, Append(calls, Run(Top.pos, Length, NoScope)))
<1>1. /\ IsStack(calls) /\ calls # <<>> /\ Last(calls) = Top /\ Top.call = "instance" /\ Top.pos \in Nat
      /\ Top.todo # <<>> /\ Head(Top.todo).kind = "fragment"
  BY TopInstance DEF AtValue
<1>2. AreValues(NoScope.vals) /\ Length \in Nat
  BY NoValues, DecoderAssumption DEF NoScope
<1>3. Run(Top.pos, Length, NoScope).call = "run" /\ Run(Top.pos, Length, NoScope).end = Length
      /\ Run(Top.pos, Length, NoScope).scope = NoScope
  BY DEF Run
<1>4. Joined(Last(calls), Run(Top.pos, Length, NoScope))
  BY <1>1, <1>3 DEF Joined
<1>5. ASSUME NEW g, NEW r, IsGrammatical(g), StackHolds(g, r, calls)
      PROVE  StackHolds(g, r, Append(calls, Run(Top.pos, Length, NoScope)))
  <2>1. PICK S : Chained(g, r, calls, S)
    BY <1>5 DEF StackHolds
  <2>2. NoScope \in g.scopes
    BY <1>5 DEF IsGrammatical, Scopes
  <2>3. Linked(g, Last(calls), S[Len(calls)], Run(Top.pos, Length, NoScope), Top.pos)
    BY <1>1 DEF Linked
  <2>. QED  BY <1>1, <1>2, <1>4, <1>5, <2>1, <2>2, <2>3, RunPushed
<1>. QED  BY <1>1, <1>2, <1>4, <1>5, RunPushed DEF StackMoves

(* The call of the token loop that comes first among the calls in g. *)
LEMMA ScopeIs ==
  ASSUME NEW g, NEW r, NEW C, IsStack(C), C # <<>>, NEW S, Chained(g, r, C, S), Last(C).call = "run"
  PROVE  Last(C).scope \in g.scopes
<1>1. Last(C) = C[Len(C)] /\ Len(C) \in 1 .. Len(C)
  BY StackTop
<1>. QED  BY <1>1 DEF Chained

(* What links the innermost call to the one that waits for it. *)
LEMMA LinkIs ==
  ASSUME NEW g, NEW r, NEW C, IsStack(C), Len(C) > 1, NEW S, Chained(g, r, C, S)
  PROVE  /\ Linked(g, Last(Front(C)), S[Len(Front(C))], Last(C), S[Len(C)])
         /\ Len(Front(C)) = Len(C) - 1 /\ Len(C) \in Nat
<1>1. C # <<>>
  BY NoneIsSequence
<1>2. Last(C) = C[Len(C)] /\ Last(Front(C)) = C[Len(C) - 1] /\ Len(C) \in Nat \ {0}
  BY <1>1, StackTop
<1>3. Len(Front(C)) = Len(C) - 1
  BY <1>1, FrontIs DEF IsStack
<1>4. Len(C) - 1 \in 1 .. Len(C) - 1 /\ (Len(C) - 1) + 1 = Len(C)
  BY <1>2
<1>5. Linked(g, C[Len(C) - 1], S[Len(C) - 1], C[(Len(C) - 1) + 1], S[(Len(C) - 1) + 1])
  BY <1>4 DEF Chained
<1>. QED  BY <1>2, <1>3, <1>4, <1>5

(* A token for an instance: its values are to be read. *)
LEMMA InstanceCalled ==
  ASSUME DecoderTypeOK, AtToken("instance"), NEW o, o = Token.def, InstanceReadable(o, Top.pos),
         NEW a, a = ArrayPos(o, Top.pos)
  PROVE  StackMoves(calls, Append(Front(calls), Read(Top))
                             \o <<Instance(a + 1, o + 1, o + 1 + BodyAt(o), ValuesAt(a))>>)
<1> DEFINE f  == Top
           f2 == Read(f)
           C  == Append(Front(calls), f2)
           h  == Instance(a + 1, o + 1, o + 1 + BodyAt(o), ValuesAt(a))
           D  == Append(C, h)
<1>1. /\ IsLoop(f) /\ ~f.list /\ ~f.over /\ ~Over(f) /\ f.steps < MaxTokens /\ f.call = "run"
      /\ TokenAt(f.pos).t = "instance" /\ Token = TokenAt(f.pos) /\ f.pos \in Nat /\ f.pos < Length /\ IsChunk
      /\ IsStack(calls) /\ calls # <<>> /\ Last(calls) = f
  BY AtTokenIs, TopRun DEF DecoderTypeOK
<1>2. o \in Nat /\ o = TokenAt(f.pos).def
  BY <1>1, TokenIs
<1>3. o < Length /\ a < Length /\ Len(ValuesAt(a)) <= MaxValues
  BY DEF InstanceReadable
<1>4. BodyAt(o) \in Nat /\ a \in Nat
  <2>1. BodyAt(o) \in Nat
    BY <1>1, <1>2, <1>3, BytesAre
  <2>. QED  BY <1>1, <1>2, <2>1 DEF ArrayPos
<1>5. ValuesAt(a) \in Seq(Descriptors)
  BY <1>1, <1>3, <1>4, BytesAre
<1>. HIDE DEF f
<1>6. /\ IsLoop(f2) /\ SameNodes(f, f2) /\ f2.pos = f.pos + 1 /\ f2.steps = f.steps + 1
      /\ f2.list = f.list /\ f2.over = f.over
  BY <1>1, ReadIs
<1>. HIDE DEF f2
<1>7. f2.call = "run" /\ IsCall(f2) /\ SameAbove(f, f2)
  BY <1>1, <1>6 DEF SameNodes, IsCall, SameAbove
<1>8. IsStack(C) /\ C # <<>> /\ Last(C) = f2
  BY <1>1, <1>7, Advanced
<1>. HIDE DEF C
<1>9. /\ h.call = "instance" /\ h.pos = a + 1 /\ h.body = o + 1 /\ h.end = o + 1 + BodyAt(o)
      /\ h.todo = ValuesAt(a) /\ h.vals = <<>>
      /\ h = [call |-> "instance", pos |-> h.pos, body |-> h.body, end |-> h.end, todo |-> h.todo, vals |-> h.vals]
  BY DEF Instance
<1>. HIDE DEF h
<1>10. IsCall(h)
  <2>1. AreValues(h.vals) /\ Len(h.vals) = 0
    BY <1>9, NoValues, NoneIsSequence
  <2>2. Len(h.todo) \in Nat /\ Len(h.vals) + Len(h.todo) <= MaxValues
    <3>1. Len(h.todo) \in Nat /\ Len(h.todo) <= MaxValues
      BY <1>3, <1>5, <1>9
    <3>2. \A i : i \in Nat => 0 + i = i
      OBVIOUS
    <3>. QED  BY <2>1, <3>1, <3>2
  <2>3. h.pos \in Nat /\ h.body \in Nat /\ h.end \in Nat
    BY <1>2, <1>4, <1>9
  <2>. QED  BY <1>5, <1>9, <2>1, <2>2, <2>3 DEF IsCall, IsInstance
<1>11. Joined(Last(C), h)
  BY <1>1, <1>6, <1>7, <1>8 DEF Joined
<1>12. IsStack(D) /\ D # <<>> /\ Last(D) = h
  BY <1>8, <1>10, <1>11, Pushed
<1>13. ASSUME NEW g, NEW r, IsGrammatical(g), StackHolds(g, r, calls) PROVE StackHolds(g, r, D)
  <2>1. PICK S : Chained(g, r, calls, S) /\ RunHolds(g, f, S[Len(calls)])
    BY <1>1, <1>13 DEF StackHolds
  <2>2. Chained(g, r, C, S) /\ Len(C) = Len(calls)
    BY <1>1, <1>7, <2>1, Advanced, AdvancedChain DEF C
  <2>3. f.scope \in g.scopes
    BY <1>1, <2>1, ScopeIs
  <2>4. AwaitsValues(g, f2, S[Len(calls)], h)
    <3>1. h.todo = ValuesAt(ArrayPos(o, f.pos)) /\ h.pos = ArrayPos(o, f.pos) + 1
      BY <1>9 DEF f
    <3>2. InstanceReadable(o, f.pos)
      BY DEF f
    <3>. QED  BY <1>1, <1>2, <1>6, <1>9, <1>13, <2>1, <2>3, <3>1, <3>2, InstanceStep
  <2>5. Linked(g, Last(C), S[Len(C)], h, 0)
    BY <1>7, <1>8, <1>9, <2>2, <2>4 DEF Linked
  <2>6. PICK T : Chained(g, r, D, T)
    BY <1>8, <1>9, <2>2, <2>5, PushedChain
  <2>. HIDE DEF D
  <2>. QED  BY <1>9, <1>12, <2>6 DEF StackHolds
<1>14. StackMoves(calls, D)
  BY <1>12, <1>13 DEF StackMoves
<1>15. D = C \o <<h>>
  BY <1>8, AppendIsJoin DEF IsStack
<1>. QED  BY <1>14, <1>15 DEF C, h, f2, f

(* The values are read: the body is to be decoded. *)
LEMMA BodyCalled ==
  ASSUME DecoderTypeOK, InInstance, Top.todo = <<>>, Top.end <= Length
  PROVE  StackMoves(calls, Append(Front(Front(calls)), [Caller EXCEPT !.pos = Top.pos])
                             \o <<Run(Top.body, Top.end, Scope(Top.vals))>>)
<1> DEFINE a  == Top
           f  == Caller
           F  == Front(calls)
           f2 == [f EXCEPT !.pos = a.pos]
           C  == Append(Front(F), f2)
           s  == Scope(a.vals)
           h  == Run(a.body, a.end, s)
<1>1. /\ IsStack(calls) /\ calls # <<>> /\ Last(calls) = a /\ IsInstance(a) /\ a.call = "instance"
      /\ Len(calls) > 1 /\ a.pos \in Nat /\ IsLoop(f) /\ f.call = "run"
      /\ ~f.list /\ ~f.over
  BY TopInstance
<1>2. IsStack(F) /\ F # <<>> /\ Last(F) = f
  BY <1>1, Popped DEF Caller
<1>3. a.body \in Nat /\ a.end \in Nat /\ AreValues(s.vals)
  BY <1>1 DEF IsInstance, Scope
<1>4. a.todo = <<>> /\ a.end <= Length
  OBVIOUS
<1>. HIDE DEF a, f, F
<1>5. /\ IsLoop(f2) /\ SameNodes(f, f2) /\ f2.pos = a.pos /\ f2.steps = f.steps
      /\ f2.list = f.list /\ f2.over = f.over
  BY <1>1, MovedIs
<1>. HIDE DEF f2
<1>6. f2.call = "run" /\ IsCall(f2) /\ SameAbove(f, f2)
  BY <1>1, <1>5 DEF SameNodes, IsCall, SameAbove
<1>7. IsStack(C) /\ C # <<>> /\ Last(C) = f2 /\ Len(C) = Len(F)
  BY <1>2, <1>6, Advanced
<1>8. Joined(Last(C), h)
  BY <1>1, <1>5, <1>6, <1>7 DEF Joined
<1>9. ASSUME NEW g, NEW r, IsGrammatical(g), StackHolds(g, r, calls) PROVE StackHolds(g, r, Append(C, h))
  <2>1. PICK S : Chained(g, r, calls, S)
    BY <1>9 DEF StackHolds
  <2>2. Chained(g, r, F, S)
    BY <1>1, <2>1, PoppedChain DEF F
  <2>3. Chained(g, r, C, S)
    BY <1>1, <1>2, <1>6, <2>2, AdvancedChain
  <2>4. Linked(g, f, S[Len(F)], a, S[Len(calls)])
    BY <1>1, <1>2, <2>1, LinkIs DEF F
  <2>5. AwaitsValues(g, f, S[Len(F)], a)
    BY <1>1, <2>4 DEF Linked
  <2>6. AwaitsBody(g, f2, S[Len(F)], a.body, a.end, s) /\ s \in g.scopes
    BY <1>1, <1>4, <1>5, <1>9, <2>5, BodyNext
  <2>7. h.call = "run" /\ h.end = a.end /\ h.scope = s
    BY DEF Run
  <2>8. Linked(g, Last(C), S[Len(C)], h, a.body)
    <3>. HIDE DEF h
    <3>. QED  BY <1>6, <1>7, <2>6, <2>7 DEF Linked
  <2>. HIDE DEF C, s
  <2>. QED  BY <1>3, <1>7, <1>8, <1>9, <2>3, <2>6, <2>8, RunPushed
<1>10. IsStack(Append(C, h))
  <2>. HIDE DEF C, s
  <2>. QED  BY <1>3, <1>7, <1>8, RunPushed
<1>11. StackMoves(calls, Append(C, h))
  BY <1>9, <1>10 DEF StackMoves
<1>12. Append(C, h) = C \o <<h>>
  BY <1>7, AppendIsJoin DEF IsStack
<1>. QED  BY <1>11, <1>12 DEF C, h, s, f2, f, a, F

-----------------------------------------------------------------------------
(* A call of the token loop returns.                                        *)

(* The call has read what its fragment says. *)
LEMMA ReturnIs ==
  ASSUME DecoderTypeOK, Returns
  PROVE  /\ IsStack(calls) /\ calls # <<>> /\ Last(calls) = Top /\ IsLoop(Top) /\ Top.call = "run"
         /\ IsSequence(Top.roots)
         /\ \A g, r, S : /\ Chained(g, r, calls, S) /\ RunHolds(g, Top, S[Len(calls)])
              => \E q, m : Says(g, S[Len(calls)], Top.end, Top.scope, 0, 0, Top.roots, q, m, FALSE)
<1>1. /\ IsStack(calls) /\ calls # <<>> /\ Last(calls) = Top /\ IsLoop(Top) /\ Top.call = "run"
      /\ ~Top.list /\ Over(Top) /\ Depth(Top) = 0
  BY TopRun DEF Returns, Ended
<1>2. IsSequence(Top.roots)
  BY <1>1 DEF IsLoop
<1>. QED  BY <1>1, <1>2, Returned

(* A value that is a fragment is read. *)
LEMMA FragmentReads ==
  ASSUME DecoderTypeOK, Returns, Len(calls) > 1, Caller.call = "instance",
         NEW p, p = AfterFragment(Caller.pos, Head(Caller.todo).size, Top.pos), p <= Length
  PROVE  StackMoves(calls, Append(Front(Front(calls)), [Got(Caller, Fragment(Top.roots), 0) EXCEPT !.pos = p]))
<1> DEFINE a  == Caller
           F  == Front(calls)
           v  == Fragment(Top.roots)
           a2 == [Got(a, v, 0) EXCEPT !.pos = p]
<1>1. /\ IsStack(calls) /\ calls # <<>> /\ Last(calls) = Top /\ Top.call = "run" /\ IsSequence(Top.roots)
  BY ReturnIs
<1>2. IsStack(F) /\ F # <<>> /\ Last(F) = a
  BY <1>1, Popped DEF Caller
<1>3. IsCall(a) /\ Joined(a, Top)
  BY <1>1, StackTop DEF Caller
<1>4. /\ IsInstance(a) /\ a.todo # <<>> /\ Head(a.todo).kind = "fragment" /\ a.call = "instance"
      /\ Top.end = Length /\ Top.scope = NoScope
  BY <1>3 DEF IsCall, Joined
<1>5. p \in Nat /\ p = a.pos + Head(a.todo).size
  <2>1. Head(a.todo) \in Descriptors
    BY <1>4 DEF IsInstance
  <2>2. Head(a.todo).size \in Nat
    <3>1. PICK d : d = Head(a.todo) /\ d \in Descriptors
      BY <2>1
    <3>2. d.kind = "fragment"
      BY <1>4, <3>1
    <3>3. d.size \in Nat
      BY <3>1, <3>2 DEF Descriptors
    <3>. QED  BY <3>1, <3>3
  <2>. QED  BY <1>4, <2>2 DEF IsInstance, AfterFragment
<1>6. IsSequence(Content(v))
  BY <1>1, ContentOf
<1>. HIDE DEF a, F, v
<1>7. ReadsValue(a, a2, v, p)
  BY <1>4, <1>5, <1>6, GotThere
<1>. HIDE DEF a2
<1>8. IsStack(Append(Front(F), a2))
  BY <1>2, <1>4, <1>7, ValueStack
<1>9. ASSUME NEW g, NEW r, IsGrammatical(g), StackHolds(g, r, calls)
      PROVE  StackHolds(g, r, Append(Front(F), a2))
  <2>1. PICK S : Chained(g, r, calls, S) /\ RunHolds(g, Top, S[Len(calls)])
    BY <1>1, <1>9 DEF StackHolds
  <2>2. Chained(g, r, F, S)
    BY <1>1, <2>1, PoppedChain DEF F
  <2>3. Linked(g, a, S[Len(F)], Top, S[Len(calls)])
    BY <1>1, <1>2, <2>1, LinkIs DEF F
  <2>4. S[Len(calls)] = a.pos
    BY <1>4, <2>3 DEF Linked
  <2>5. PICK q, m : Says(g, a.pos, Length, NoScope, 0, 0, Top.roots, q, m, FALSE)
    BY <1>4, <2>1, <2>4, ReturnIs
  <2>6. IsValueAt(g, Head(a.todo), a.pos, v, p)
    BY <1>4, <1>5, <2>5 DEF IsValueAt, v
  <2>. QED  BY <1>2, <1>4, <1>7, <1>9, <2>2, <2>6, ValueChain
<1>. QED  BY <1>8, <1>9 DEF StackMoves, F, a2, a, v

(* The body of an instance is read. *)
LEMMA BodyReads ==
  ASSUME DecoderTypeOK, Returns, Len(calls) > 1, Caller.call = "run"
  PROVE  StackMoves(calls, Append(Front(Front(calls)), Attach(Caller, Top.roots)))
<1> DEFINE f  == Caller
           F  == Front(calls)
           ns == Top.roots
           f2 == Attach(f, ns)
           D  == Append(Front(F), f2)
<1>1. /\ IsStack(calls) /\ calls # <<>> /\ Last(calls) = Top /\ Top.call = "run" /\ IsSequence(ns)
  BY ReturnIs
<1>2. IsStack(F) /\ F # <<>> /\ Last(F) = f
  BY <1>1, Popped DEF Caller
<1>3. IsCall(f) /\ Joined(f, Top)
  BY <1>1, StackTop DEF Caller
<1>4. IsLoop(f) /\ ~f.list /\ ~f.over /\ f.call = "run"
  BY <1>3 DEF IsCall, Joined
<1>. HIDE DEF f, F, ns
<1>5. IsLoop(f2) /\ SameCall(f, f2)
  BY <1>1, <1>4, AttachIs
<1>. HIDE DEF f2
<1>6. IsCall(f2) /\ SameAbove(f, f2) /\ f2.call = "run"
  BY <1>4, <1>5 DEF IsCall, SameAbove, SameCall
<1>7. IsStack(D) /\ D # <<>> /\ Last(D) = f2 /\ Len(D) = Len(F)
  BY <1>2, <1>6, Advanced
<1>8. ASSUME NEW g, NEW r, IsGrammatical(g), StackHolds(g, r, calls) PROVE StackHolds(g, r, D)
  <2>1. PICK S : Chained(g, r, calls, S) /\ RunHolds(g, Top, S[Len(calls)])
    BY <1>1, <1>8 DEF StackHolds
  <2>2. Chained(g, r, F, S)
    BY <1>1, <2>1, PoppedChain DEF F
  <2>3. Linked(g, f, S[Len(F)], Top, S[Len(calls)])
    BY <1>1, <1>2, <2>1, LinkIs DEF F
  <2>4. AwaitsBody(g, f, S[Len(F)], S[Len(calls)], Top.end, Top.scope)
    BY <1>1, <1>4, <2>3 DEF Linked
  <2>5. PICK q, m : Says(g, S[Len(calls)], Top.end, Top.scope, 0, 0, ns, q, m, FALSE)
    BY <2>1, ReturnIs DEF ns
  <2>6. f.scope \in g.scopes
    BY <1>2, <1>4, <2>2, ScopeIs
  <2>7. RunHolds(g, f2, S[Len(F)])
    BY <1>4, <1>8, <2>4, <2>5, <2>6, BodyStep DEF f2
  <2>8. Chained(g, r, D, S)
    BY <1>2, <1>4, <1>6, <2>2, AdvancedChain
  <2>. HIDE DEF D
  <2>. QED  BY <1>7, <2>7, <2>8 DEF StackHolds
<1>9. StackMoves(calls, D)
  BY <1>7, <1>8 DEF StackMoves
<1>. QED  BY <1>9 DEF D, F, f2, f, ns

(* A record. *)
LEMMA RecordReads ==
  ASSUME DecoderTypeOK, Returns, Len(calls) = 1
  PROVE  /\ IsSequence(Top.roots)
         /\ \A g, r : IsGrammatical(g) /\ StackHolds(g, r, calls)
              => \E q, m : Says(g, r + 1, Length, NoScope, 0, 0, Top.roots, q, m, FALSE)
<1>1. /\ IsStack(calls) /\ calls # <<>> /\ Last(calls) = Top /\ Top.call = "run" /\ IsSequence(Top.roots)
  BY ReturnIs
<1>2. Top.end = Length /\ Top.scope = NoScope
  <2>1. Top = calls[1]
    BY <1>1, StackTop
  <2>. QED  BY <1>1, <2>1 DEF IsStack
<1>3. ASSUME NEW g, NEW r, IsGrammatical(g), StackHolds(g, r, calls)
      PROVE  \E q, m : Says(g, r + 1, Length, NoScope, 0, 0, Top.roots, q, m, FALSE)
  <2>1. PICK S : Chained(g, r, calls, S) /\ RunHolds(g, Top, S[Len(calls)])
    BY <1>1, <1>3 DEF StackHolds
  <2>2. S[Len(calls)] = r + 1
    BY <2>1 DEF Chained
  <2>. QED  BY <1>2, <2>1, <2>2, ReturnIs
<1>. QED  BY <1>1, <1>3

LEMMA RecordBegins ==
  ASSUME NEW r \in Nat
  PROVE  /\ IsStack(Append(<<>>, Run(r + 1, Length, NoScope)))
         /\ \A g : IsGrammatical(g) => StackHolds(g, r, Append(<<>>, Run(r + 1, Length, NoScope)))
<1> DEFINE h == Run(r + 1, Length, NoScope)
           C == Append(<<>>, h)
<1>1. AreValues(NoScope.vals) /\ Length \in Nat /\ r + 1 \in Nat
  BY NoValues, DecoderAssumption DEF NoScope
<1>2. IsCall(h) /\ h.call = "run" /\ h.end = Length /\ h.scope = NoScope
      /\ \A g : IsGrammatical(g) /\ NoScope \in g.scopes => RunHolds(g, h, r + 1)
  BY <1>1, RunBegins
<1>. HIDE DEF h
<1>3. IsSequence(C) /\ Len(C) = 1 /\ C[1] = h /\ C # <<>> /\ Last(C) = h
  <2>1. C = <<h>>
    OBVIOUS
  <2>2. IsSequence(C) /\ Len(C) = 1 /\ C[1] = h
    BY <2>1, OneIsSequence
  <2>. HIDE DEF C
  <2>. QED  BY <2>2, NoneIsSequence DEF Last
<1>. HIDE DEF C
<1>4. \A i : i \notin 1 .. Len(C) - 1
  BY <1>3
<1>5. IsStack(C)
  <2>1. \A i \in 1 .. Len(C) : i = 1
    BY <1>3
  <2>. QED  BY <1>2, <1>3, <1>4, <2>1 DEF IsStack
<1>6. ASSUME NEW g, IsGrammatical(g) PROVE StackHolds(g, r, C)
  <2> DEFINE S == [n \in Nat |-> r + 1]
  <2>1. S \in [Nat -> Nat] /\ S[1] = r + 1
    OBVIOUS
  <2>. HIDE DEF S
  <2>2. NoScope \in g.scopes
    BY <1>6 DEF IsGrammatical, Scopes
  <2>3. \A i \in 1 .. Len(C) : C[i].call = "run" => C[i].scope \in g.scopes
    <3>1. \A i \in 1 .. Len(C) : i = 1
      BY <1>3
    <3>. QED  BY <1>2, <1>3, <2>2, <3>1
  <2>4. Chained(g, r, C, S)
    BY <1>4, <2>1, <2>3 DEF Chained
  <2>5. RunHolds(g, Last(C), S[Len(C)])
    BY <1>2, <1>3, <1>6, <2>1, <2>2
  <2>. QED  BY <2>4, <2>5 DEF StackHolds
<1>. QED  BY <1>5, <1>6 DEF C, h

(* Between records there is nothing to hold. *)
LEMMA NoCalls ==
  /\ IsStack(<<>>)
  /\ \A g, r : r \in Nat => StackHolds(g, r, <<>>)
<1>1. IsSequence(<<>>) /\ \A i : i \notin 1 .. Len(<<>>) /\ i \notin 1 .. Len(<<>>) - 1
  BY NoneIsSequence
<1>2. ASSUME NEW g, NEW r \in Nat PROVE StackHolds(g, r, <<>>)
  <2> DEFINE S == [n \in Nat |-> r + 1]
  <2>1. S \in [Nat -> Nat] /\ S[1] = r + 1
    OBVIOUS
  <2>. HIDE DEF S
  <2>2. Chained(g, r, <<>>, S)
    BY <1>1, <2>1 DEF Chained
  <2>. QED  BY <2>2 DEF StackHolds
<1>3. IsStack(<<>>)
  BY <1>1 DEF IsStack
<1>. QED  BY <1>2, <1>3

-----------------------------------------------------------------------------
(* The steps of the decoder.                                                *)

\* The calls go on.
Moves == calls # <<>> /\ StackMoves(calls, calls') /\ NamesAreRead' /\ UNCHANGED <<chunk, record, out>>

\* An error ends them.
GivesUp == calls # <<>> /\ Skip /\ NamesAreRead' /\ UNCHANGED <<chunk, out>>

LEMMA NamesStay ==
  ASSUME NamesAreRead, UNCHANGED <<chunk, names>>
  PROVE  NamesAreRead'
BY DEF NamesAreRead, NameAt

LEMMA Failing ==
  ASSUME DecoderTypeOK, calls # <<>>, Fails
  PROVE  GivesUp
BY NamesStay DEF DecoderTypeOK, Fails, GivesUp

LEMMA Moving ==
  ASSUME DecoderTypeOK, calls # <<>>, StackMoves(calls, calls'), UNCHANGED <<chunk, record, names, out>>
  PROVE  Moves
BY NamesStay DEF DecoderTypeOK, Moves

LEMMA TopMoving ==
  ASSUME DecoderTypeOK, InRun, NEW f2, RunMoves(Top, f2), Set(f2), UNCHANGED <<chunk, record, names, out>>
  PROVE  Moves
<1>1. calls' = Append(Front(calls), f2) /\ calls # <<>>
  BY DEF Set, InRun
<1>2. StackMoves(calls, Append(Front(calls), f2))
  BY TopMoves
<1>. QED  BY <1>1, <1>2, Moving

(* A name is read, and kept. *)
LEMMA TopNames ==
  ASSUME DecoderTypeOK, InRun, NEW f2, RunMoves(Top, f2), Set(f2),
         NEW o, NEW p, names' = Cached(o, p), UNCHANGED <<chunk, record, out>>
  PROVE  Moves
<1>1. calls' = Append(Front(calls), f2) /\ calls # <<>>
  BY DEF Set, InRun
<1>2. StackMoves(calls, Append(Front(calls), f2))
  BY TopMoves
<1>3. NamesAreRead'
  BY NameIs DEF DecoderTypeOK
<1>. QED  BY <1>1, <1>2, <1>3 DEF Moves

(* The token loop. *)
LEMMA LoopSteps ==
  ASSUME DecoderTypeOK, TokenLoop
  PROVE  Moves \/ GivesUp
<1>1. \A t : AtToken(t) => InRun /\ calls # <<>>
  BY DEF AtToken, AtLoop, InRun
<1>2. CASE TooManyTokens
  BY <1>2, Failing DEF TooManyTokens, AtLoop, InRun
<1>3. CASE UnknownToken
  BY <1>1, <1>3, Failing DEF UnknownToken
<1>4. CASE EndOfStream
  <2>1. AtToken("eos") /\ Set([Read(Top) EXCEPT !.over = TRUE]) /\ UNCHANGED <<chunk, record, names, out>>
    BY <1>4 DEF EndOfStream
  <2>. QED  BY <1>1, <2>1, StopMoves, TopMoving
<1>5. CASE SkipToken
  <2>1. AtToken("skip") /\ Set(Read(Top)) /\ UNCHANGED <<chunk, record, names, out>>
    BY <1>5 DEF SkipToken
  <2>. QED  BY <1>1, <2>1, SkipMoves, TopMoving
<1>6. CASE OpenElement
  <2> DEFINE f2 == [Read(Top) EXCEPT !.pos = After(Token.name, Top.pos),
                                     !.open = Append(@, Elem(NameRef(Token.name, Top.pos))),
                                     !.list = Token.list]
  <2>1. /\ AtToken("open") /\ ~TooDeep(Top) /\ NameReadable(Token.name) /\ Set(f2)
        /\ names' = Cached(Token.name, Top.pos) /\ UNCHANGED <<chunk, record, out>>
    BY <1>6 DEF OpenElement
  <2>2. RunMoves(Top, f2)
    BY <2>1, OpenMoves
  <2>. HIDE DEF f2
  <2>. QED  BY <1>1, <2>1, <2>2, TopNames
<1>7. CASE OpenFails
  BY <1>1, <1>7, Failing DEF OpenFails
<1>8. CASE EndElement
  <2>1. AtToken("end") /\ Top.open # <<>> /\ Set(Close(Read(Top))) /\ UNCHANGED <<chunk, record, names, out>>
    BY <1>8 DEF EndElement
  <2>. QED  BY <1>1, <2>1, EndMoves, TopMoving
<1>9. CASE UnbalancedClose
  BY <1>1, <1>9, Failing DEF UnbalancedClose
<1>10. CASE ValueToken
  <2>1. AtToken("value") /\ Set(Attach(Read(Top), <<Text(Top.pos)>>)) /\ UNCHANGED <<chunk, record, names, out>>
    BY <1>10 DEF ValueToken
  <2>. QED  BY <1>1, <2>1, ValueMoves, TopMoving
<1>11. CASE Substitution
  <2>1. /\ AtToken("subst") /\ Top.scope.on /\ Set(Attach(Read(Top), Content(Lookup(Top.scope, Token))))
        /\ UNCHANGED <<chunk, record, names, out>>
    BY <1>11 DEF Substitution
  <2>. QED  BY <1>1, <2>1, SubstitutionMoves, TopMoving
<1>12. CASE OutsideTemplate
  BY <1>1, <1>12, Failing DEF OutsideTemplate
<1>13. CASE Attribute
  <2> DEFINE f2 == [WithAttribute(Top, NameRef(Token.name, Top.pos), AttrText(Top.scope, Token.value, Top.pos))
                      EXCEPT !.pos = After(Token.name, Top.pos)]
  <2>1. /\ AtAttribute /\ NameReadable(Token.name) /\ ValueReadable(Top.scope, Token.value) /\ Set(f2)
        /\ names' = Cached(Token.name, Top.pos) /\ UNCHANGED <<chunk, record, out>>
    BY <1>13 DEF Attribute
  <2>2. RunMoves(Top, f2) /\ InRun
    BY <2>1, AttributeMoves DEF AtAttribute
  <2>. HIDE DEF f2
  <2>. QED  BY <2>1, <2>2, TopNames
<1>14. CASE AttributeFails
  <2>1. calls # <<>> /\ Skip /\ UNCHANGED <<chunk, out>>
        /\ names' = IF NameReadable(Token.name) THEN Cached(Token.name, Top.pos) ELSE names
    BY <1>14 DEF AttributeFails, AtAttribute, InRun
  <2>2. NamesAreRead'
    <3>1. CASE NameReadable(Token.name)
      BY <2>1, <3>1, NameIs DEF DecoderTypeOK
    <3>2. CASE ~NameReadable(Token.name)
      BY <2>1, <3>2, NamesStay DEF DecoderTypeOK
    <3>. QED  BY <3>1, <3>2
  <2>. QED  BY <2>1, <2>2 DEF GivesUp
<1>15. CASE EndOfList
  <2>1. InRun /\ Top.list /\ ~AtAttribute /\ Set(NoMore(Top)) /\ UNCHANGED <<chunk, record, names, out>>
    BY <1>15 DEF EndOfList
  <2>. QED  BY <2>1, ListMoves, TopMoving
<1>16. CASE TemplateInstance
  <2> DEFINE o == Token.def
             a == ArrayPos(o, Top.pos)
  <2>1. /\ AtToken("instance") /\ InstanceReadable(o, Top.pos)
        /\ calls' = Append(Front(calls), Read(Top)) \o <<Instance(a + 1, o + 1, o + 1 + BodyAt(o), ValuesAt(a))>>
        /\ UNCHANGED <<chunk, record, names, out>>
    BY <1>16 DEF TemplateInstance
  <2>2. StackMoves(calls, Append(Front(calls), Read(Top)) \o <<Instance(a + 1, o + 1, o + 1 + BodyAt(o), ValuesAt(a))>>)
    BY <2>1, InstanceCalled
  <2>. QED  BY <1>1, <2>1, <2>2, Moving
<1>17. CASE InstanceFails
  BY <1>1, <1>17, Failing DEF InstanceFails
<1>. QED
  BY <1>2, <1>3, <1>4, <1>5, <1>6, <1>7, <1>8, <1>9, <1>10, <1>11, <1>12, <1>13, <1>14, <1>15, <1>16, <1>17
     DEF TokenLoop

(* The values of an instance. *)
LEMMA ValueSteps ==
  ASSUME DecoderTypeOK, Values
  PROVE  Moves \/ GivesUp
<1>1. InInstance => calls # <<>>
  BY DEF InInstance
<1>2. \A k : AtValue(k) => InInstance
  BY DEF AtValue
<1>3. CASE NullRead
  <2>1. /\ AtValue("null") /\ calls' = Append(Front(calls), Got(Top, NullValue, 0))
        /\ UNCHANGED <<chunk, record, names, out>>
    BY <1>3 DEF NullRead, Set
  <2>. QED  BY <1>1, <1>2, <2>1, NullMoves, Moving
<1>4. CASE ScalarRead
  <2>1. /\ AtValue("scalar") /\ Top.pos < Length /\ calls' = Append(Front(calls), Got(Top, Scalar(Top.pos), 1))
        /\ UNCHANGED <<chunk, record, names, out>>
    BY <1>4 DEF ScalarRead, Set
  <2>. QED  BY <1>1, <1>2, <2>1, ScalarMoves, Moving
<1>5. CASE ValueFails
  BY <1>1, <1>2, <1>5, Failing DEF ValueFails
<1>6. CASE DecodeFragment
  <2>1. /\ AtValue("fragment") /\ calls' = Append(calls, Run(Top.pos, Length, NoScope))
        /\ UNCHANGED <<chunk, record, names, out>>
    BY <1>6 DEF DecodeFragment, Call
  <2>. QED  BY <1>1, <1>2, <2>1, FragmentCalled, Moving
<1>7. CASE DecodeBody
  <2>1. /\ InInstance /\ Top.todo = <<>> /\ Top.end <= Length
        /\ calls' = Append(Front(Front(calls)), [Caller EXCEPT !.pos = Top.pos])
                      \o <<Run(Top.body, Top.end, Scope(Top.vals))>>
        /\ UNCHANGED <<chunk, record, names, out>>
    BY <1>7 DEF DecodeBody, Caller
  <2>. QED  BY <1>1, <2>1, BodyCalled, Moving
<1>8. CASE BodyFails
  BY <1>1, <1>8, Failing DEF BodyFails
<1>. QED  BY <1>3, <1>4, <1>5, <1>6, <1>7, <1>8 DEF Values

(* The end of a call. *)
LEMMA EndSteps ==
  ASSUME DecoderTypeOK, Ends
  PROVE  Moves \/ GivesUp \/ RecordDecoded
<1>1. Ended => InRun /\ calls # <<>>
  BY DEF Ended, InRun
<1>2. Returns => Ended
  BY DEF Returns
<1>3. CASE CloseUnclosed
  <2>1. Ended /\ Top.open # <<>> /\ Set(Close(Top)) /\ UNCHANGED <<chunk, record, names, out>>
    BY <1>3 DEF CloseUnclosed
  <2>. QED  BY <1>1, <2>1, UnclosedMoves, TopMoving
<1>4. CASE FragmentDecoded
  <2> DEFINE p == AfterFragment(Caller.pos, Head(Caller.todo).size, Top.pos)
  <2>1. /\ Returns /\ Len(calls) > 1 /\ Caller.call = "instance" /\ p <= Length
        /\ calls' = Append(Front(Front(calls)), [Got(Caller, Fragment(Top.roots), 0) EXCEPT !.pos = p])
        /\ UNCHANGED <<chunk, record, names, out>>
    BY <1>4 DEF FragmentDecoded, ReturnTo
  <2>2. StackMoves(calls, Append(Front(Front(calls)), [Got(Caller, Fragment(Top.roots), 0) EXCEPT !.pos = p]))
    BY <2>1, FragmentReads
  <2>. QED  BY <1>1, <1>2, <2>1, <2>2, Moving
<1>5. CASE FragmentFails
  BY <1>1, <1>2, <1>5, Failing DEF FragmentFails
<1>6. CASE BodyDecoded
  <2>1. /\ Returns /\ Len(calls) > 1 /\ Caller.call = "run"
        /\ calls' = Append(Front(Front(calls)), Attach(Caller, Top.roots))
        /\ UNCHANGED <<chunk, record, names, out>>
    BY <1>6 DEF BodyDecoded, ReturnTo
  <2>. QED  BY <1>1, <1>2, <2>1, BodyReads, Moving
<1>. QED  BY <1>3, <1>4, <1>5, <1>6 DEF Ends

(* All the steps. *)
LEMMA StepIs ==
  ASSUME DecoderTypeOK, DecoderNext
  PROVE  DecodeRecord \/ Moves \/ GivesUp \/ RecordDecoded
BY LoopSteps, ValueSteps, EndSteps DEF DecoderNext

(* The rules speak of the bytes, which stay. *)
LEMMA GrammarStays ==
  ASSUME chunk' = chunk, NEW CONSTANT g
  PROVE  IsGrammatical(g)' <=> IsGrammatical(g)
<1>1. /\ FragmentEnds(g)' <=> FragmentEnds(g)
  BY DEF FragmentEnds, HasToken, TokenAt, Says
<1>2. ElementEnds(g)' <=> ElementEnds(g)
  BY DEF ElementEnds, HasToken, TokenAt, Says
<1>3. Items(g)' <=> Items(g)
  BY DEF Items, HasToken, TokenAt, Says, IsItem, IsInstanceOf, ArrayPos, BodyAt, ValuesAt, InstanceReadable,
         HasValues, Scope, Text, Content, Lookup, NullValue, Inline
<1>4. Elements(g)' <=> Elements(g)
  BY DEF Elements, HasToken, TokenAt, Says, IsStartTag, NameReadable, HasAttributes, After, Inline, Element, NameAt
<1>5. AttributeLists(g)' <=> AttributeLists(g)
  BY DEF AttributeLists, HasAttributes, IsAttribute, AttributeAt, NameReadable, ValueReadable, NameAt, TokenAt,
         AttrText, After, Inline, Lookup, NullValue
<1>6. ValueLists(g)' <=> ValueLists(g)
  BY DEF ValueLists, HasValues, IsValueAt, Says, NullValue, Scalar, Fragment, NoScope, Descriptors
<1>7. (Scopes(g)' <=> Scopes(g)) /\ (IsReading(g)' <=> IsReading(g))
  BY DEF Scopes, IsReading, HasValues, Says, HasAttributes, NoScope, Scope
<1>. QED  BY <1>1, <1>2, <1>3, <1>4, <1>5, <1>6, <1>7 DEF IsGrammatical

(* A record that can be decoded has a size, and stays where it is. *)
LEMMA RecordIs ==
  ASSUME IsChunk, NEW p \in Nat, HasRecord(p)
  PROVE  SizeAt(p) \in Nat \ {0} /\ p + SizeAt(p) \in Nat
<1>1. p < Length /\ SizeAt(p) >= 1
  BY DEF HasRecord
<1>. QED  BY <1>1, BytesAre

\* The records decoded are records of the chunk, one behind the other, and all
\* before the one that is next.
RecordsApart ==
  /\ \A k \in 1 .. Len(out) : /\ out[k].record \in Nat /\ HasRecord(out[k].record)
                              /\ out[k].record + SizeAt(out[k].record) <= record
  /\ \A j, k \in 1 .. Len(out) : j < k => out[j].record + SizeAt(out[j].record) <= out[k].record

\* What has been decoded, and what is being decoded, is what the bytes say.
TreesHold ==
  \A g : IsGrammatical(g) =>
    /\ StackHolds(g, record, calls)
    /\ \A k \in 1 .. Len(out) :
         \E q, m : Says(g, out[k].record + 1, Length, NoScope, 0, 0, out[k].nodes, q, m, FALSE)

LEMMA TypeStarts == DecoderInit => DecoderTypeOK
<1> SUFFICES ASSUME DecoderInit PROVE DecoderTypeOK
  OBVIOUS
<1>1. IsChunk /\ record = 0 /\ calls = <<>> /\ names = [o \in {} |-> ""] /\ out = <<>>
  BY DEF DecoderInit
<1>2. NamesAreRead
  BY <1>1 DEF NamesAreRead
<1>. QED  BY <1>1, <1>2, NoCalls, NoneIsSequence DEF DecoderTypeOK

LEMMA TypeStep == DecoderTypeOK /\ [DecoderNext]_dvars => DecoderTypeOK'
<1> SUFFICES ASSUME DecoderTypeOK, [DecoderNext]_dvars PROVE DecoderTypeOK'
  OBVIOUS
<1>1. CASE DecodeRecord
  <2>1. /\ calls' = Append(<<>>, Run(record + 1, Length, NoScope)) /\ HasRecord(record) /\ record \in Nat
        /\ UNCHANGED <<chunk, record, names, out>>
    BY <1>1 DEF DecodeRecord, Call, DecoderTypeOK
  <2>2. IsStack(calls')
    BY <2>1, RecordBegins
  <2>3. NamesAreRead'
    BY <2>1, NamesStay DEF DecoderTypeOK
  <2>. QED  BY <2>1, <2>2, <2>3 DEF DecoderTypeOK, IsChunk, HasRecord, SizeAt
<1>2. CASE Moves
  BY <1>2 DEF Moves, StackMoves, DecoderTypeOK, IsChunk, HasRecord, SizeAt
<1>3. ASSUME calls' = <<>>, NextRecord, calls # <<>>, NamesAreRead', chunk' = chunk, IsSequence(out')
      PROVE  DecoderTypeOK'
  <2>1. record' \in Nat
    BY <1>3, RecordIs DEF DecoderTypeOK, NextRecord
  <2>2. IsStack(calls')
    BY <1>3, NoCalls
  <2>. QED  BY <1>3, <2>1, <2>2 DEF DecoderTypeOK, IsChunk
<1>4. CASE GivesUp
  BY <1>3, <1>4 DEF GivesUp, Skip, DecoderTypeOK
<1>5. CASE RecordDecoded
  <2>1. /\ calls' = <<>> /\ NextRecord /\ UNCHANGED <<chunk, names>>
        /\ out' = Append(out, [record |-> record, nodes |-> Top.roots]) /\ calls # <<>>
    BY <1>5 DEF RecordDecoded, Returns, Ended, InRun
  <2>2. IsSequence(out')
    BY <2>1, AppendIsSequence DEF DecoderTypeOK
  <2>3. NamesAreRead'
    BY <2>1, NamesStay DEF DecoderTypeOK
  <2>. QED  BY <1>3, <2>1, <2>2, <2>3
<1>6. CASE UNCHANGED dvars
  BY <1>6 DEF dvars, DecoderTypeOK, IsChunk, HasRecord, SizeAt, NamesAreRead, NameAt
<1>. QED  BY <1>1, <1>2, <1>4, <1>5, <1>6, StepIs

(* In every chunk, the state of the decoder keeps its shape: a stack of     *)
(* calls, the outermost one a record's, each waiting for the one above it;  *)
(* no call with more than MaxDepth elements open or MaxTokens tokens read,  *)
(* no instance with more than MaxValues values, and no cursor, offset or    *)
(* length that is not a number, whatever the bytes are; and a cache whose   *)
(* every name is the one its offset leads to, whoever put it there.         *)
THEOREM DecoderTypes == DecoderSpec => []DecoderTypeOK
<1>. QED  BY TypeStarts, TypeStep, PTL DEF DecoderSpec

(* One record more. *)
LEMMA OneMore ==
  ASSUME DecoderTypeOK, RecordDecoded
  PROVE  /\ Len(out) \in Nat /\ Len(out') = Len(out) + 1
         /\ \A k \in 1 .. Len(out) : out'[k] = out[k]
         /\ out'[Len(out) + 1].record = record /\ out'[Len(out) + 1].nodes = Top.roots
         /\ Returns /\ Len(calls) = 1 /\ calls' = <<>> /\ NextRecord /\ chunk' = chunk
<1> DEFINE e == [record |-> record, nodes |-> Top.roots]
<1>1. out' = Append(out, e) /\ IsSequence(out)
  BY DEF RecordDecoded, DecoderTypeOK
<1>2. e.record = record /\ e.nodes = Top.roots
  OBVIOUS
<1>. HIDE DEF e
<1>3. /\ Len(out) \in Nat /\ Len(out') = Len(out) + 1
      /\ \A k \in 1 .. Len(out) : out'[k] = out[k]
      /\ out'[Len(out) + 1] = e
  BY <1>1, AppendIsSequence
<1>. QED  BY <1>2, <1>3 DEF RecordDecoded

(* No record is decoded twice, and no part of the chunk as two records:     *)
(* those decoded are records of the chunk in order, each behind the end of  *)
(* the one before, also when those between them failed at any step.         *)
THEOREM RecordsOnce == DecoderSpec => []RecordsApart
<1>1. DecoderInit => RecordsApart
  <2> SUFFICES ASSUME DecoderInit PROVE RecordsApart
    OBVIOUS
  <2>1. \A k : k \notin 1 .. Len(out)
    BY NoneIsSequence DEF DecoderInit
  <2>. QED  BY <2>1 DEF RecordsApart
<1>2. RecordsApart /\ DecoderTypeOK /\ [DecoderNext]_dvars => RecordsApart'
  <2> SUFFICES ASSUME RecordsApart, DecoderTypeOK, [DecoderNext]_dvars PROVE RecordsApart'
    OBVIOUS
  <2>1. CASE UNCHANGED <<chunk, record, out>>
    BY <2>1 DEF RecordsApart, HasRecord, SizeAt
  <2>2. ASSUME calls # <<>>, NextRecord, chunk' = chunk
        PROVE  record \in Nat /\ HasRecord(record) /\ SizeAt(record) \in Nat /\ record' = record + SizeAt(record)
    BY <2>2, RecordIs DEF DecoderTypeOK, NextRecord
  <2>3. CASE GivesUp
    <3>1. calls # <<>> /\ NextRecord /\ chunk' = chunk /\ out' = out
      BY <2>3 DEF GivesUp, Skip
    <3>2. \A k \in 1 .. Len(out) : SizeAt(out[k].record) \in Nat
      BY RecordIs DEF RecordsApart, DecoderTypeOK
    <3>3. ASSUME NEW k \in 1 .. Len(out) PROVE out[k].record + SizeAt(out[k].record) <= record'
      BY <2>2, <3>1, <3>2 DEF RecordsApart
    <3>. QED  BY <3>1, <3>3 DEF RecordsApart, HasRecord, SizeAt
  <2>4. CASE RecordDecoded
    <3>1. /\ Len(out) \in Nat /\ Len(out') = Len(out) + 1
          /\ \A k \in 1 .. Len(out) : out'[k] = out[k]
          /\ out'[Len(out) + 1].record = record
      BY <2>4, OneMore
    <3>2. calls # <<>> /\ NextRecord /\ chunk' = chunk
      BY <2>4, OneMore DEF Returns, Ended, InRun
    <3>3. \A k \in 1 .. Len(out') : k = Len(out) + 1 \/ k \in 1 .. Len(out)
      BY <3>1
    <3>4. \A k \in 1 .. Len(out) : SizeAt(out[k].record) \in Nat
      BY RecordIs DEF RecordsApart, DecoderTypeOK
    <3>5. ASSUME NEW k \in 1 .. Len(out')
          PROVE  /\ out'[k].record \in Nat /\ HasRecord(out'[k].record)
                 /\ out'[k].record + SizeAt(out'[k].record) <= record'
      <4>1. CASE k = Len(out) + 1
        BY <2>2, <3>1, <3>2, <4>1
      <4>2. CASE k \in 1 .. Len(out)
        BY <2>2, <3>1, <3>2, <3>4, <4>2 DEF RecordsApart
      <4>. QED  BY <3>3, <4>1, <4>2
    <3>6. ASSUME NEW j \in 1 .. Len(out'), NEW k \in 1 .. Len(out'), j < k
          PROVE  out'[j].record + SizeAt(out'[j].record) <= out'[k].record
      <4>1. j \in 1 .. Len(out)
        BY <3>1, <3>6
      <4>2. CASE k = Len(out) + 1
        BY <2>2, <3>1, <3>2, <4>1, <4>2 DEF RecordsApart
      <4>3. CASE k \in 1 .. Len(out)
        BY <2>2, <3>1, <3>2, <3>6, <4>1, <4>3 DEF RecordsApart
      <4>. QED  BY <3>3, <4>2, <4>3
    <3>. QED  BY <3>2, <3>5, <3>6 DEF RecordsApart, HasRecord, SizeAt
  <2>. QED  BY <2>1, <2>3, <2>4, StepIs DEF DecodeRecord, Moves, dvars
<1>. QED  BY <1>1, <1>2, DecoderTypes, PTL DEF DecoderSpec

(* The inductive invariant: the calls under way, and the records decoded,   *)
(* hold what every reading that follows the rules says of their bytes.      *)
THEOREM TreesAreRead == DecoderSpec => []TreesHold
<1>1. DecoderInit => TreesHold
  <2> SUFFICES ASSUME DecoderInit PROVE TreesHold
    OBVIOUS
  <2>1. calls = <<>> /\ record = 0 /\ \A k : k \notin 1 .. Len(out)
    BY NoneIsSequence DEF DecoderInit
  <2>. QED  BY <2>1, NoCalls DEF TreesHold
<1>2. TreesHold /\ DecoderTypeOK /\ DecoderTypeOK' /\ [DecoderNext]_dvars => TreesHold'
  <2> SUFFICES ASSUME TreesHold, DecoderTypeOK, DecoderTypeOK', [DecoderNext]_dvars,
                      NEW CONSTANT g, IsGrammatical(g)'
               PROVE  /\ StackHolds(g, record', calls')
                      /\ \A k \in 1 .. Len(out') :
                           \E q, m : Says(g, out'[k].record + 1, Length, NoScope, 0, 0, out'[k].nodes, q, m, FALSE)
    BY DEF TreesHold
  <2>1. chunk' = chunk
    BY StepIs DEF DecodeRecord, Moves, GivesUp, RecordDecoded, dvars
  <2>2. /\ IsGrammatical(g) /\ StackHolds(g, record, calls)
        /\ \A k \in 1 .. Len(out) :
             \E q, m : Says(g, out[k].record + 1, Length, NoScope, 0, 0, out[k].nodes, q, m, FALSE)
    BY <2>1, GrammarStays DEF TreesHold
  <2>3. calls' = <<>> => StackHolds(g, record', calls')
    BY NoCalls DEF DecoderTypeOK
  <2>4. CASE DecodeRecord
    <3>1. /\ calls' = Append(<<>>, Run(record + 1, Length, NoScope)) /\ record \in Nat
          /\ record' = record /\ out' = out
      BY <2>4 DEF DecodeRecord, Call, DecoderTypeOK
    <3>. QED  BY <2>2, <3>1, RecordBegins
  <2>5. CASE Moves
    BY <2>2, <2>5 DEF Moves, StackMoves
  <2>6. CASE GivesUp
    BY <2>2, <2>3, <2>6 DEF GivesUp, Skip
  <2>7. CASE RecordDecoded
    <3>1. /\ Len(out) \in Nat /\ Len(out') = Len(out) + 1
          /\ \A k \in 1 .. Len(out) : out'[k] = out[k]
          /\ out'[Len(out) + 1].record = record /\ out'[Len(out) + 1].nodes = Top.roots
          /\ Returns /\ Len(calls) = 1 /\ calls' = <<>>
      BY <2>7, OneMore
    <3>2. \E q, m : Says(g, record + 1, Length, NoScope, 0, 0, Top.roots, q, m, FALSE)
      BY <2>2, <3>1, RecordReads
    <3>3. ASSUME NEW k \in 1 .. Len(out')
          PROVE  \E q, m : Says(g, out'[k].record + 1, Length, NoScope, 0, 0, out'[k].nodes, q, m, FALSE)
      <4>1. k = Len(out) + 1 \/ k \in 1 .. Len(out)
        BY <3>1
      <4>2. CASE k = Len(out) + 1
        BY <3>1, <3>2, <4>2
      <4>3. CASE k \in 1 .. Len(out)
        BY <2>2, <3>1, <4>3
      <4>. QED  BY <4>1, <4>2, <4>3
    <3>. QED  BY <2>3, <3>1, <3>3
  <2>8. CASE UNCHANGED dvars
    BY <2>2, <2>8 DEF dvars
  <2>. QED  BY <2>4, <2>5, <2>6, <2>7, <2>8, StepIs
<1>. QED  BY <1>1, <1>2, DecoderTypes, PTL DEF DecoderSpec

TreesAreWritten == \A k \in 1 .. Len(out) : IsWrittenAs(out[k].record, out[k].nodes)

(* The tree of a decoded record is one that the grammar derives from the    *)
(* record's bytes: however instances and fragments call each other, where-  *)
(* ever a name was first read, whatever was left open, and however many     *)
(* records failed before, nothing is lost, added, moved or read twice.      *)
THEOREM TreesAreAsWritten == DecoderSpec => []TreesAreWritten
<1>1. TreesHold => TreesAreWritten
  BY DEF TreesHold, TreesAreWritten, IsWrittenAs
<1>. QED  BY <1>1, TreesAreRead, PTL

-----------------------------------------------------------------------------
(* There are readings that follow the rules.                                *)

AttributesOf == [name : { NameAt(o) : o \in ChunkPositions }, text : Seq(Nat)]

\* A set of trees: the texts, and the elements whose children are in it.
IsForest(T) ==
  /\ \A p \in Nat : Text(p) \in T
  /\ \A o \in ChunkPositions, ats \in Seq(AttributesOf), cs \in Seq(T) : Element(NameAt(o), ats, cs) \in T

ValuesOf(T) == {NullValue} \cup { Scalar(p) : p \in Nat } \cup { Fragment(ns) : ns \in Seq(T) }

ScopesOf(T) == {NoScope} \cup { Scope(vs) : vs \in Seq(ValuesOf(T)) }

\* The reading that states everything of them.
Everything(T) ==
  [scopes |-> ScopesOf(T),
   nodes  |-> Nat \X Nat \X ScopesOf(T) \X Nat \X Nat \X Seq(T) \X Nat \X Nat \X BOOLEAN,
   values |-> Seq(Descriptors) \X Nat \X Seq(ValuesOf(T)) \X Nat,
   attrs  |-> ScopesOf(T) \X Nat \X Seq(AttributesOf) \X Nat]

LEMMA EverythingStates ==
  ASSUME NEW T, NEW g, g = Everything(T)
  PROVE  /\ g.scopes = ScopesOf(T)
         /\ \A p, e, s, n, d, ns, q, m, tag :
              Says(g, p, e, s, n, d, ns, q, m, tag) <=>
                /\ p \in Nat /\ e \in Nat /\ s \in ScopesOf(T) /\ n \in Nat /\ d \in Nat
                /\ ns \in Seq(T) /\ q \in Nat /\ m \in Nat /\ tag \in BOOLEAN
         /\ \A ds, p, vs, q :
              HasValues(g, ds, p, vs, q) <=>
                ds \in Seq(Descriptors) /\ p \in Nat /\ vs \in Seq(ValuesOf(T)) /\ q \in Nat
         /\ \A s, p, ats, q :
              HasAttributes(g, s, p, ats, q) <=>
                s \in ScopesOf(T) /\ p \in Nat /\ ats \in Seq(AttributesOf) /\ q \in Nat
<1>1. /\ g.scopes = ScopesOf(T)
      /\ g.nodes = Nat \X Nat \X ScopesOf(T) \X Nat \X Nat \X Seq(T) \X Nat \X Nat \X BOOLEAN
      /\ g.values = Seq(Descriptors) \X Nat \X Seq(ValuesOf(T)) \X Nat
      /\ g.attrs = ScopesOf(T) \X Nat \X Seq(AttributesOf) \X Nat
  BY DEF Everything
<1>2. \A p, e, s, n, d, ns, q, m, tag :
        Says(g, p, e, s, n, d, ns, q, m, tag) <=>
          /\ p \in Nat /\ e \in Nat /\ s \in ScopesOf(T) /\ n \in Nat /\ d \in Nat
          /\ ns \in Seq(T) /\ q \in Nat /\ m \in Nat /\ tag \in BOOLEAN
  BY <1>1 DEF Says
<1>3. \A ds, p, vs, q :
        HasValues(g, ds, p, vs, q) <=>
          ds \in Seq(Descriptors) /\ p \in Nat /\ vs \in Seq(ValuesOf(T)) /\ q \in Nat
  BY <1>1 DEF HasValues
<1>4. \A s, p, ats, q :
        HasAttributes(g, s, p, ats, q) <=>
          s \in ScopesOf(T) /\ p \in Nat /\ ats \in Seq(AttributesOf) /\ q \in Nat
  BY <1>1 DEF HasAttributes
<1>. QED  BY <1>1, <1>2, <1>3, <1>4

(* The value found in a scope is a value, and its content is in the forest. *)
LEMMA LookupOf ==
  ASSUME NEW T, IsForest(T), NEW s \in ScopesOf(T), NEW tok, tok.index \in Nat
  PROVE  /\ Content(Lookup(s, tok)) \in Seq(T)
         /\ Lookup(s, tok).kind = "text" => Lookup(s, tok).at \in Nat
<1>1. s.vals \in Seq(ValuesOf(T))
  <2>1. CASE s = NoScope
    BY <2>1 DEF NoScope
  <2>2. CASE s # NoScope
    <3>1. PICK vs \in Seq(ValuesOf(T)) : s = Scope(vs)
      BY <2>2 DEF ScopesOf
    <3>. QED  BY <3>1 DEF Scope
  <2>. QED  BY <2>1, <2>2
<1>2. Lookup(s, tok) \in ValuesOf(T)
  <2>1. CASE tok.ignore \/ tok.index >= Len(s.vals)
    BY <2>1 DEF Lookup, ValuesOf
  <2>2. CASE ~(tok.ignore \/ tok.index >= Len(s.vals))
    <3>1. Lookup(s, tok) = s.vals[tok.index + 1]
      BY <2>2 DEF Lookup
    <3>2. Len(s.vals) \in Nat
      BY <1>1
    <3>3. tok.index + 1 \in 1 .. Len(s.vals)
      BY <2>2, <3>2
    <3>4. s.vals[tok.index + 1] \in ValuesOf(T)
      BY <1>1, <3>3
    <3>. QED  BY <3>1, <3>4
  <2>. QED  BY <2>1, <2>2
<1>3. \A v \in ValuesOf(T) : Content(v) \in Seq(T) /\ (v.kind = "text" => v.at \in Nat)
  <2> SUFFICES ASSUME NEW v \in ValuesOf(T) PROVE Content(v) \in Seq(T) /\ (v.kind = "text" => v.at \in Nat)
    OBVIOUS
  <2>1. CASE v = NullValue
    <3>1. v.kind = "null" /\ Content(v) = <<>>
      BY <2>1 DEF NullValue, Content
    <3>2. <<>> \in Seq(T)
      OBVIOUS
    <3>. QED  BY <3>1, <3>2
  <2>2. ASSUME NEW p \in Nat, v = Scalar(p) PROVE Content(v) \in Seq(T) /\ v.at \in Nat
    <3>1. v.at = p /\ Content(v) = <<Text(p)>>
      BY <2>2 DEF Scalar, Content
    <3>2. Text(p) \in T
      BY DEF IsForest
    <3>3. <<Text(p)>> \in Seq(T)
      BY <3>2
    <3>. QED  BY <3>1, <3>3
  <2>3. ASSUME NEW ns \in Seq(T), v = Fragment(ns) PROVE Content(v) \in Seq(T) /\ v.kind # "text"
    <3>1. v.kind = "nodes" /\ Content(v) = ns
      BY <2>3 DEF Fragment, Content
    <3>. QED  BY <3>1
  <2>. QED  BY <2>1, <2>2, <2>3 DEF ValuesOf
<1>. QED  BY <1>2, <1>3

(* What stands in the chunk is in the forest. *)
LEMMA AttributeOf ==
  ASSUME IsChunk, NEW T, IsForest(T), NEW s \in ScopesOf(T), NEW p \in Nat, IsAttribute(s, p)
  PROVE  AttributeAt(s, p) \in AttributesOf /\ TokenAt(p).name \in Nat
<1> DEFINE t == TokenAt(p)
<1>1. p < Length /\ t.t = "attr" /\ NameReadable(t.name) /\ ValueReadable(s, t.value)
  BY DEF IsAttribute
<1>2. t \in Tokens
  BY <1>1, DecoderAssumption DEF IsChunk, TokenAt, ChunkPositions
<1>. HIDE DEF t
<1>3. t.name \in Nat /\ t.value \in AttrValues
  BY <1>1, <1>2 DEF Tokens
<1>4. NameAt(t.name) \in { NameAt(o) : o \in ChunkPositions }
  BY <1>1, <1>3, DecoderAssumption DEF NameReadable, ChunkPositions
<1>5. AttrText(s, t.value, p) \in Seq(Nat)
  <2>1. CASE t.value.t = "value"
    BY <2>1 DEF AttrText
  <2>2. CASE t.value.t # "value"
    <3>1. t.value.index \in Nat
      BY <1>1, <1>3, <2>2 DEF ValueReadable, AttrValues
    <3>2. Lookup(s, t.value).kind = "text" => Lookup(s, t.value).at \in Nat
      BY <3>1, LookupOf
    <3>. QED  BY <2>2, <3>2 DEF AttrText
  <2>. QED  BY <2>1, <2>2
<1>6. AttributeAt(s, p) = [name |-> NameAt(t.name), text |-> AttrText(s, t.value, p)]
  BY DEF AttributeAt, t
<1>7. AttributeAt(s, p) \in AttributesOf
  BY <1>4, <1>5, <1>6 DEF AttributesOf
<1>. QED  BY <1>3, <1>7 DEF t

(* Everything, said of a forest, follows the rules. *)
THEOREM RulesCanBeFollowed ==
  ASSUME IsChunk, NEW T, IsForest(T)
  PROVE  IsGrammatical(Everything(T))
<1> DEFINE g == Everything(T)
<1>1. /\ g.scopes = ScopesOf(T)
      /\ \A p, e, s, n, d, ns, q, m, tag :
           Says(g, p, e, s, n, d, ns, q, m, tag) <=>
             /\ p \in Nat /\ e \in Nat /\ s \in ScopesOf(T) /\ n \in Nat /\ d \in Nat
             /\ ns \in Seq(T) /\ q \in Nat /\ m \in Nat /\ tag \in BOOLEAN
      /\ \A ds, p, vs, q :
           HasValues(g, ds, p, vs, q) <=>
             ds \in Seq(Descriptors) /\ p \in Nat /\ vs \in Seq(ValuesOf(T)) /\ q \in Nat
      /\ \A s, p, ats, q :
           HasAttributes(g, s, p, ats, q) <=>
             s \in ScopesOf(T) /\ p \in Nat /\ ats \in Seq(AttributesOf) /\ q \in Nat
  BY EverythingStates
<1>. HIDE DEF g
<1>2. IsReading(g)
  <2>1. \A ns \in Seq(T) : IsSequence(ns)
    BY IsSequenceFrom
  <2>2. \A vs \in Seq(ValuesOf(T)) : IsSequence(vs)
    BY IsSequenceFrom
  <2>3. \A ats \in Seq(AttributesOf) : IsSequence(ats)
    BY IsSequenceFrom
  <2>. QED  BY <1>1, <2>1, <2>2, <2>3 DEF IsReading
<1>3. /\ <<>> \in Seq(T) /\ <<>> \in Seq(ValuesOf(T)) /\ <<>> \in Seq(AttributesOf) /\ <<>> \in Seq(Descriptors)
      /\ \A i : i \in Nat => i + 1 \in Nat
      /\ TRUE \in BOOLEAN /\ FALSE \in BOOLEAN
  OBVIOUS
<1>12. g.scopes = ScopesOf(T)
  BY <1>1
<1>4. FragmentEnds(g)
  <2>1. ASSUME NEW p \in Nat, NEW e \in Nat, NEW n \in Nat, NEW d \in Nat, NEW s \in g.scopes
        PROVE  Says(g, p, e, s, n, d, <<>>, p, n, FALSE) /\ Says(g, p, e, s, n, d, <<>>, p + 1, n + 1, FALSE)
    <3>1. s \in ScopesOf(T) /\ p + 1 \in Nat /\ n + 1 \in Nat
      BY <1>12
    <3>. QED  BY <1>1, <1>3, <3>1
  <2>2. \A p, e, n, d \in Nat, s \in g.scopes :
          /\ p >= e \/ p >= Length => Says(g, p, e, s, n, d, <<>>, p, n, FALSE)
          /\ HasToken(p, e, n) /\ TokenAt(p).t = "eos" => Says(g, p, e, s, n, d, <<>>, p + 1, n + 1, FALSE)
    <3>. TAKE p, e, n, d \in Nat, s \in g.scopes
    <3>. QED  BY <2>1
  <2>. QED  BY <2>2, Zenon DEF FragmentEnds
<1>5. ElementEnds(g)
  BY <1>1, <1>3 DEF ElementEnds
<1>6. Items(g)
  <2> SUFFICES ASSUME NEW p \in Nat, NEW e \in Nat, NEW n \in Nat, NEW d \in Nat, NEW s \in ScopesOf(T),
                      NEW ns, NEW q, NEW rest, NEW r, NEW m, NEW tag,
                      HasToken(p, e, n), IsItem(g, s, p, ns, q), Says(g, q, e, s, n + 1, d, rest, r, m, tag)
               PROVE  Says(g, p, e, s, n, d, ns \o rest, r, m, tag)
    BY <1>12 DEF Items
  <2> DEFINE t == TokenAt(p)
  <2>1. rest \in Seq(T) /\ r \in Nat /\ m \in Nat /\ tag \in BOOLEAN
    BY <1>1
  <2>2. p < Length /\ (t.t = "subst" => t.index \in Nat)
    BY TokenIs DEF HasToken
  <2>3. ns \in Seq(T)
    <3>1. CASE ns = <<>>
      BY <1>3, <3>1
    <3>2. CASE ns = <<Text(p)>>
      <4>1. Text(p) \in T
        BY DEF IsForest
      <4>. QED  BY <3>2, <4>1
    <3>3. CASE t.t = "subst" /\ ns = Content(Lookup(s, t))
      <4>. HIDE DEF t
      <4>. QED  BY <2>2, <3>3, LookupOf
    <3>4. CASE IsInstanceOf(g, t.def, p, ns, q)
      BY <1>1, <3>4 DEF IsInstanceOf
    <3>. QED  BY <3>1, <3>2, <3>3, <3>4 DEF IsItem
  <2>4. ns \o rest \in Seq(T)
    BY <2>1, <2>3
  <2>. QED  BY <1>1, <2>1, <2>4
<1>7. Elements(g)
  <2> SUFFICES ASSUME NEW p \in Nat, NEW e \in Nat, NEW n \in Nat, NEW d \in Nat, NEW s \in g.scopes
               PROVE  \A ats, q, cs, r, m :
                        HasToken(p, e, n) /\ d < MaxDepth /\ IsStartTag(g, s, p, ats, q) =>
                          LET it == <<Element(NameAt(TokenAt(p).name), ats, cs)>>
                          IN /\ Says(g, q, e, s, n + 1, d + 1, cs, r, m, FALSE)
                                  => Says(g, p, e, s, n, d, it, r, m, FALSE)
                             /\ Says(g, q, e, s, n + 1, d + 1, cs, r, m, TRUE) =>
                                  \A rest, r2, m2, tag : Says(g, r, e, s, m, d, rest, r2, m2, tag)
                                                           => Says(g, p, e, s, n, d, it \o rest, r2, m2, tag)
    BY Zenon DEF Elements
  <2> TAKE ats, q, cs, r, m
  <2> HAVE HasToken(p, e, n) /\ d < MaxDepth /\ IsStartTag(g, s, p, ats, q)
  <2>7. s \in ScopesOf(T)
    BY <1>12
  <2> DEFINE it == <<Element(NameAt(TokenAt(p).name), ats, cs)>>
  <2>1. TokenAt(p).name \in ChunkPositions
    <3>1. TokenAt(p).name \in Nat
      BY TokenIs DEF HasToken, IsStartTag
    <3>. QED  BY <3>1, DecoderAssumption DEF IsStartTag, NameReadable, ChunkPositions
  <2>2. ats \in Seq(AttributesOf)
    BY <1>1, <1>3 DEF IsStartTag
  <2>3. ASSUME cs \in Seq(T) PROVE it \in Seq(T)
    <3>1. Element(NameAt(TokenAt(p).name), ats, cs) \in T
      BY <2>1, <2>2, <2>3 DEF IsForest
    <3>. QED  BY <3>1
  <2>. HIDE DEF it
  <2>4. ASSUME NEW tag, Says(g, q, e, s, n + 1, d + 1, cs, r, m, tag)
        PROVE  it \in Seq(T) /\ r \in Nat /\ m \in Nat
    BY <1>1, <2>3, <2>4
  <2>5. Says(g, q, e, s, n + 1, d + 1, cs, r, m, FALSE) => Says(g, p, e, s, n, d, it, r, m, FALSE)
    BY <1>1, <1>3, <2>4, <2>7
  <2>6. ASSUME Says(g, q, e, s, n + 1, d + 1, cs, r, m, TRUE),
               NEW rest, NEW r2, NEW m2, NEW tag, Says(g, r, e, s, m, d, rest, r2, m2, tag)
        PROVE  Says(g, p, e, s, n, d, it \o rest, r2, m2, tag)
    <3>1. rest \in Seq(T) /\ r2 \in Nat /\ m2 \in Nat /\ tag \in BOOLEAN
      BY <1>1, <2>6
    <3>2. it \in Seq(T)
      BY <2>4, <2>6
    <3>3. it \o rest \in Seq(T)
      BY <3>1, <3>2
    <3>. QED  BY <1>1, <2>7, <3>1, <3>3
  <2>. QED  BY <2>5, <2>6 DEF it
<1>8. AttributeLists(g)
  <2> SUFFICES ASSUME NEW p \in Nat, NEW s \in ScopesOf(T)
               PROVE  /\ p >= Length \/ TokenAt(p).t # "attr" => HasAttributes(g, s, p, <<>>, p)
                      /\ IsAttribute(s, p) =>
                           \A ats, q : HasAttributes(g, s, After(TokenAt(p).name, p), ats, q)
                                         => HasAttributes(g, s, p, <<AttributeAt(s, p)>> \o ats, q)
    BY <1>1 DEF AttributeLists
  <2>1. HasAttributes(g, s, p, <<>>, p)
    BY <1>1, <1>3
  <2>2. ASSUME IsAttribute(s, p), NEW ats, NEW q, HasAttributes(g, s, After(TokenAt(p).name, p), ats, q)
        PROVE  HasAttributes(g, s, p, <<AttributeAt(s, p)>> \o ats, q)
    <3>1. AttributeAt(s, p) \in AttributesOf
      BY <2>2, AttributeOf
    <3>2. ats \in Seq(AttributesOf) /\ q \in Nat
      BY <1>1, <2>2
    <3>3. <<AttributeAt(s, p)>> \in Seq(AttributesOf)
      BY <3>1
    <3>4. <<AttributeAt(s, p)>> \o ats \in Seq(AttributesOf)
      BY <3>2, <3>3
    <3>. QED  BY <1>1, <3>2, <3>4
  <2>. QED  BY <2>1, <2>2
<1>9. ValueLists(g)
  <2> SUFFICES ASSUME NEW p \in Nat
               PROVE  /\ HasValues(g, <<>>, p, <<>>, p)
                      /\ \A ds \in Seq(Descriptors) : \A v, q, vs, r :
                           ds # <<>> /\ IsValueAt(g, Head(ds), p, v, q) /\ HasValues(g, Tail(ds), q, vs, r)
                             => HasValues(g, ds, p, <<v>> \o vs, r)
    BY <1>1 DEF ValueLists
  <2>1. HasValues(g, <<>>, p, <<>>, p)
    BY <1>1, <1>3
  <2>2. ASSUME NEW ds \in Seq(Descriptors), NEW v, NEW q, NEW vs, NEW r,
               IsValueAt(g, Head(ds), p, v, q), HasValues(g, Tail(ds), q, vs, r)
        PROVE  HasValues(g, ds, p, <<v>> \o vs, r)
    <3>1. v \in ValuesOf(T)
      BY <1>1, <2>2 DEF IsValueAt, ValuesOf
    <3>2. vs \in Seq(ValuesOf(T)) /\ r \in Nat
      BY <1>1, <2>2
    <3>3. <<v>> \in Seq(ValuesOf(T))
      BY <3>1
    <3>4. <<v>> \o vs \in Seq(ValuesOf(T))
      BY <3>2, <3>3
    <3>. QED  BY <1>1, <3>2, <3>4
  <2>. QED  BY <2>1, <2>2
<1>10. Scopes(g)
  BY <1>1 DEF Scopes, ScopesOf
<1>11. IsGrammatical(g)
  BY <1>2, <1>4, <1>5, <1>6, <1>7, <1>8, <1>9, <1>10 DEF IsGrammatical
<1>. QED  BY <1>11 DEF g
=============================================================================
