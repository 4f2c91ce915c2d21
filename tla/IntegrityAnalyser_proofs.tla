------------------------ MODULE IntegrityAnalyser_proofs ------------------------
(***************************************************************************)
(* Proofs about the integrity checks.  The analyser: what its walks of the *)
(* records report, for files of any number of chunks with any records.  By *)
(* itself the provider of an event: for any table of known providers.      *)
(***************************************************************************)
EXTENDS IntegrityAnalyser, ProviderHeuristics, CommonLemmas

-----------------------------------------------------------------------------
(* The walk of the records.                                                 *)

\* Where a walk from p goes: into every set with p that holds what follows.
Closed(c, S) == \A q \in S : Readable(c, q) => q + c.claims[q].size \in S

Reached(c, p) ==
  { q \in 0 .. Area : /\ Readable(c, q)
                      /\ \A S \in SUBSET (0 .. Area) : p \in S /\ Closed(c, S) => q \in S }

(* The size of a record is a number that leads to a later position.         *)
LEMMA NextPosition ==
  ASSUME NEW c, IsPlace(c), NEW p, Readable(c, p)
  PROVE  /\ p \in 0 .. Area - 1 /\ c.claims[p].size \in Nat /\ IsClaim(c.claims[p])
         /\ p + c.claims[p].size \in 0 .. Area /\ p < p + c.claims[p].size
<1>1. p \in 0 .. Area - 1 /\ IsClaim(c.claims[p]) /\ c.free \in Int /\ c.free <= Area
  BY DEF IsPlace, Readable
<1>2. c.claims[p].size \in Nat /\ c.claims[p].size >= 7 /\ p + c.claims[p].size <= c.free
  BY <1>1 DEF Readable, IsClaim, MinRecord
<1>. QED  BY <1>1, <1>2, AnalyserAssumption

LEMMA ReachedStep ==
  ASSUME NEW c, IsPlace(c), NEW p \in 0 .. Area
  PROVE  Reached(c, p) = IF Readable(c, p) THEN {p} \cup Reached(c, p + c.claims[p].size) ELSE {}
<1>1. CASE ~Readable(c, p)
  <2>1. {p} \in SUBSET (0 .. Area) /\ Closed(c, {p})
    BY <1>1 DEF Closed
  <2>2. ASSUME NEW q \in Reached(c, p) PROVE FALSE
    <3>1. q \in {p} /\ Readable(c, q)
      BY <2>1, <2>2 DEF Reached
    <3>. QED  BY <1>1, <3>1
  <2>. QED  BY <1>1, <2>2
<1>2. CASE Readable(c, p)
  <2> DEFINE n == p + c.claims[p].size
  <2>1. n \in 0 .. Area
    BY <1>2, NextPosition
  <2>. HIDE DEF n
  <2>2. ASSUME NEW q \in Reached(c, p), q # p PROVE q \in Reached(c, n)
    <3>1. ASSUME NEW S \in SUBSET (0 .. Area), n \in S, Closed(c, S) PROVE q \in S
      <4>1. S \cup {p} \in SUBSET (0 .. Area) /\ Closed(c, S \cup {p})
        BY <3>1 DEF Closed, n
      <4>. QED  BY <2>2, <4>1 DEF Reached
    <3>. QED  BY <2>2, <3>1 DEF Reached
  <2>3. p \in Reached(c, p)
    BY <1>2 DEF Reached
  <2>4. ASSUME NEW q \in Reached(c, n) PROVE q \in Reached(c, p)
    <3>1. ASSUME NEW S \in SUBSET (0 .. Area), p \in S, Closed(c, S) PROVE q \in S
      <4>1. n \in S
        BY <1>2, <3>1 DEF Closed, n
      <4>. QED  BY <2>4, <3>1, <4>1 DEF Reached
    <3>. QED  BY <2>4, <3>1 DEF Reached
  <2>5. Reached(c, p) = {p} \cup Reached(c, n)
    BY <2>2, <2>3, <2>4
  <2>. QED  BY <1>2, <2>5 DEF n
<1>. QED  BY <1>1, <1>2

(* The walk as it is defined.                                               *)
LEMMA VisitedStep ==
  ASSUME NEW c, IsPlace(c), NEW p \in 0 .. Area
  PROVE  VisitedFrom(c)[p] =
           IF Readable(c, p) THEN {p} \cup VisitedFrom(c)[p + c.claims[p].size] ELSE {}
<1> DEFINE from[q \in 0 .. Area] ==
             IF Readable(c, q) THEN {q} \cup from[q + c.claims[q].size] ELSE {}
           g == [q \in 0 .. Area |-> Reached(c, q)]
<1>1. from = CHOOSE h : h = [q \in 0 .. Area |-> IF Readable(c, q) THEN {q} \cup h[q + c.claims[q].size] ELSE {}]
  OBVIOUS
<1>2. VisitedFrom(c) = from
  BY DEF VisitedFrom
<1>. HIDE DEF from
<1>3. g = [q \in 0 .. Area |-> IF Readable(c, q) THEN {q} \cup g[q + c.claims[q].size] ELSE {}]
  <2>1. ASSUME NEW q \in 0 .. Area
        PROVE  Reached(c, q) = IF Readable(c, q) THEN {q} \cup g[q + c.claims[q].size] ELSE {}
    <3>1. CASE Readable(c, q)
      <4>1. q + c.claims[q].size \in 0 .. Area
        BY <3>1, NextPosition
      <4>. QED  BY <3>1, <4>1, ReachedStep
    <3>2. CASE ~Readable(c, q)
      BY <3>2, ReachedStep
    <3>. QED  BY <3>1, <3>2
  <2>. QED  BY <2>1
<1>4. from = [q \in 0 .. Area |-> IF Readable(c, q) THEN {q} \cup from[q + c.claims[q].size] ELSE {}]
  <2>. HIDE DEF g
  <2>. QED  BY <1>1, <1>3
<1>5. from[p] = IF Readable(c, p) THEN {p} \cup from[p + c.claims[p].size] ELSE {}
  BY <1>4
<1>. QED  BY <1>2, <1>5

(* The records of a walk lie behind one another.                            *)
LEMMA VisitedBehind ==
  ASSUME NEW c, IsPlace(c), NEW p \in 0 .. Area
  PROVE  /\ VisitedFrom(c)[p] \subseteq p .. Area
         /\ \A q \in VisitedFrom(c)[p] : Readable(c, q)
         /\ \A q, r \in VisitedFrom(c)[p] : q < r => q + c.claims[q].size <= r
<1> DEFINE V == VisitedFrom(c)
           Ok(q) == /\ V[q] \subseteq q .. Area
                    /\ \A r \in V[q] : Readable(c, r)
                    /\ \A r, t \in V[q] : r < t => r + c.claims[r].size <= t
           Bad == { q \in 0 .. Area : ~Ok(q) }
<1>1. SUFFICES ASSUME ~Ok(p) PROVE FALSE
  OBVIOUS
<1>2. PICK q \in Bad : \A r \in Bad : r <= q
  <2>1. Bad \subseteq 0 .. Area /\ Bad # {} /\ Area \in Nat
    BY <1>1, AnalyserAssumption
  <2>. HIDE DEF Bad
  <2>. QED  BY <2>1, GreatestNat
<1>3. q \in 0 .. Area /\ Area \in Nat /\ ~Ok(q)
  BY <1>2, AnalyserAssumption
<1>. HIDE DEF V
<1>4. V[q] = IF Readable(c, q) THEN {q} \cup V[q + c.claims[q].size] ELSE {}
  BY <1>3, VisitedStep DEF V
<1>5. CASE ~Readable(c, q)
  BY <1>3, <1>4, <1>5
<1>6. CASE Readable(c, q)
  <2> DEFINE n == q + c.claims[q].size
  <2>1. n \in 0 .. Area /\ q < n
    BY <1>6, NextPosition
  <2>2. Ok(n)
    <3>. HIDE DEF n, Ok
    <3>1. n \notin Bad
      BY <1>2, <1>3, <2>1
    <3>. QED  BY <2>1, <3>1
  <2>3. V[q] = {q} \cup V[n]
    BY <1>4, <1>6
  <2>4. \A r \in V[n] : r \in n .. Area
    BY <2>2
  <2>5. \A r, t \in V[q] : r < t => r + c.claims[r].size <= t
    <3> SUFFICES ASSUME NEW r \in V[q], NEW t \in V[q], r < t PROVE r + c.claims[r].size <= t
      OBVIOUS
    <3>. HIDE DEF n
    <3>1. CASE r = q
      <4>1. t \in V[n]
        BY <1>3, <2>3, <3>1
      <4>. QED  BY <2>4, <4>1, <3>1, <2>1 DEF n
    <3>2. CASE r \in V[n] /\ t \in V[n]
      BY <2>2, <3>2
    <3>3. CASE r \in V[n] /\ t = q
      BY <1>3, <2>1, <2>4, <3>3
    <3>. QED  BY <2>3, <3>1, <3>2, <3>3
  <2>6. V[q] \subseteq q .. Area /\ \A r \in V[q] : Readable(c, r)
    <3>. HIDE DEF n
    <3>. QED  BY <1>3, <1>6, <2>1, <2>2, <2>3, <2>4
  <2>. QED  BY <1>3, <2>5, <2>6
<1>. QED  BY <1>5, <1>6

-----------------------------------------------------------------------------
(* What is said of deletions.                                               *)

\* What a sequence of anomalies says of them.
Told(s) == { s[k].what : k \in { n \in 1 .. Len(s) : s[n].kind = "deletion" } }

Quiet(s) == IsSequence(s) /\ \A k \in 1 .. Len(s) : s[k].kind # "deletion"

\* What is to be said of the records at the positions P of the place n of f,
ToTell(f, n, P) ==
  { Deletion(f.places[n], n, p).what : p \in { q \in P : Ghosts(f.places[n], q) # {} } }

\* and of the records s.
Hidden(f, s) ==
  { Deletion(f.places[s[k].chunk], s[k].chunk, s[k].pos).what :
      k \in { n \in 1 .. Len(s) : Ghosts(f.places[s[n].chunk], s[n].pos) # {} } }

IsRecord(f, r) ==
  /\ r.chunk \in 1 .. Len(f.places)
  /\ r.pos \in DOMAIN f.places[r.chunk].claims
  /\ r.id = f.places[r.chunk].claims[r.pos].id
  /\ r.time = f.places[r.chunk].claims[r.pos].time

AnalyserTypeInv ==
  /\ IsFile(file)
  /\ pc \in {"header", "chunks", "records", "cross", "rank", "done"}
  /\ i \in Nat \ {0}
  /\ IsSequence(out) /\ IsSequence(chunks)
  /\ IsSequence(recs) /\ \A k \in 1 .. Len(recs) : IsRecord(file, recs[k])
  /\ IsSequence(all) /\ \A k \in 1 .. Len(all) : IsRecord(file, all[k])
  /\ pc = "records" => i <= Len(file.places) /\ pos \in 0 .. Area

\* The deletions told are those in the records met and, as a chunk is searched
\* before its records are read, those in the records the walk has still to meet.
DeletionInv ==
  /\ pc = "header" => out = <<>> /\ all = <<>>
  /\ pc \in {"chunks", "cross", "rank"} => Told(out) = Hidden(file, all)
  /\ pc = "records" => Told(out) = Hidden(file, all) \cup ToTell(file, i, VisitedFrom(Chunk)[pos])
  /\ pc = "done" /\ file.long => Told(out) = Hidden(file, all)
  /\ pc = "done" /\ file.long =>
       \E n \in 0 .. Len(out) : { k \in 1 .. Len(out) : out[k].kind = "deletion" } = 1 .. n

(* A file's places.                                                         *)
LEMMA PlaceAt ==
  ASSUME NEW f, IsFile(f), NEW n \in 1 .. Len(f.places)
  PROVE  IsPlace(f.places[n])
<1>1. DOMAIN f.places = 1 .. Len(f.places)
  BY SequenceIs DEF IsFile
<1>. QED  BY <1>1 DEF IsFile

LEMMA RecordTyped ==
  ASSUME NEW f, IsFile(f), NEW r, IsRecord(f, r)
  PROVE  r.id \in Int /\ r.time \in Nat
<1> DEFINE claim == f.places[r.chunk].claims[r.pos]
<1>1. IsClaim(claim)
  BY PlaceAt DEF IsRecord, IsPlace
<1>2. r.id = claim.id /\ r.time = claim.time
  BY DEF IsRecord
<1>. HIDE DEF claim
<1>3. claim.id \in Int /\ claim.time \in Nat
  BY <1>1, AnalyserAssumption DEF IsClaim
<1>. QED  BY <1>2, <1>3

LEMMA NothingSaid == Told(<<>>) = {} /\ Quiet(<<>>)
BY NoneIsSequence DEF Told, Quiet

LEMMA QuietTells ==
  ASSUME NEW s, Quiet(s)
  PROVE  Told(s) = {}
BY DEF Quiet, Told

LEMMA ToldTogether ==
  ASSUME NEW s, IsSequence(s), NEW t, IsSequence(t)
  PROVE  IsSequence(s \o t) /\ Told(s \o t) = Told(s) \cup Told(t)
<1>1. /\ IsSequence(s \o t)
      /\ Len(s) \in Nat /\ Len(t) \in Nat /\ Len(s \o t) = Len(s) + Len(t)
      /\ \A j \in 1 .. Len(s) + Len(t) : (s \o t)[j] = IF j <= Len(s) THEN s[j] ELSE t[j - Len(s)]
  BY ConcatIsSequence
<1> DEFINE u == s \o t
           m == Len(s)
           n == Len(t)
<1>2. /\ \A j \in 1 .. m : j \in 1 .. m + n /\ u[j] = s[j]
      /\ \A j \in 1 .. n : m + j \in 1 .. m + n /\ u[m + j] = t[j]
      /\ \A j \in 1 .. m + n : j \in 1 .. m \/ \E l \in 1 .. n : j = m + l
  <2>1. \A j \in 1 .. m : j \in 1 .. m + n /\ u[j] = s[j]
    BY <1>1
  <2>2. \A j \in 1 .. n : m + j \in 1 .. m + n /\ u[m + j] = t[j]
    BY <1>1
  <2>3. ASSUME NEW j \in 1 .. m + n, j \notin 1 .. m PROVE \E l \in 1 .. n : j = m + l
    <3>1. j - m \in 1 .. n /\ j = m + (j - m)
      BY <1>1, <2>3
    <3>. QED  BY <3>1
  <2>. QED  BY <2>1, <2>2, <2>3
<1>3. Len(u) = m + n
  BY <1>1
<1>. HIDE DEF u, m, n
<1>4. Told(u) \subseteq Told(s) \cup Told(t)
  <2> SUFFICES ASSUME NEW j \in 1 .. m + n, u[j].kind = "deletion" PROVE u[j].what \in Told(s) \cup Told(t)
    BY <1>3 DEF Told
  <2>1. CASE j \in 1 .. m
    BY <1>2, <2>1 DEF Told, m
  <2>2. CASE \E l \in 1 .. n : j = m + l
    BY <1>2, <2>2 DEF Told, n
  <2>. QED  BY <1>2, <2>1, <2>2
<1>5. Told(s) \subseteq Told(u)
  <2> SUFFICES ASSUME NEW j \in 1 .. m, s[j].kind = "deletion" PROVE s[j].what \in Told(u)
    BY DEF Told, m
  <2>. QED  BY <1>2, <1>3 DEF Told
<1>6. Told(t) \subseteq Told(u)
  <2> SUFFICES ASSUME NEW j \in 1 .. n, t[j].kind = "deletion" PROVE t[j].what \in Told(u)
    BY DEF Told, n
  <2>. QED  BY <1>2, <1>3 DEF Told
<1>. QED  BY <1>1, <1>4, <1>5, <1>6 DEF u

LEMMA QuietTogether ==
  ASSUME NEW s, Quiet(s), NEW t, Quiet(t)
  PROVE  Quiet(s \o t)
<1>1. /\ IsSequence(s \o t)
      /\ Len(s) \in Nat /\ Len(t) \in Nat /\ Len(s \o t) = Len(s) + Len(t)
      /\ \A j \in 1 .. Len(s) + Len(t) : (s \o t)[j] = IF j <= Len(s) THEN s[j] ELSE t[j - Len(s)]
  BY ConcatIsSequence DEF Quiet
<1>2. ASSUME NEW j \in 1 .. Len(s \o t) PROVE (s \o t)[j].kind # "deletion"
  <2>1. CASE j <= Len(s)
    BY <1>1, <2>1 DEF Quiet
  <2>2. CASE ~(j <= Len(s))
    <3>1. j - Len(s) \in 1 .. Len(t) /\ (s \o t)[j] = t[j - Len(s)]
      BY <1>1, <2>2
    <3>. QED  BY <3>1 DEF Quiet
  <2>. QED  BY <2>1, <2>2
<1>. QED  BY <1>1, <1>2 DEF Quiet

(* A check adds no deletions where it has nothing to do with them.          *)
LEMMA QuietAdds ==
  ASSUME NEW s, IsSequence(s), NEW t, Quiet(t)
  PROVE  IsSequence(s \o t) /\ Told(s \o t) = Told(s)
<1>1. IsSequence(t) /\ Told(t) = {}
  BY QuietTells DEF Quiet
<1>. QED  BY <1>1, ToldTogether

LEMMA QuietAlarms ==
  ASSUME NEW n \in Nat, NEW s, DOMAIN s = 1 .. n, s = [k \in 1 .. n |-> s[k]],
         \A k \in 1 .. n : s[k].kind # "deletion"
  PROVE  Quiet(s)
BY MadeSequence DEF Quiet

LEMMA QuietUnless ==
  ASSUME NEW cond, NEW k, k # "deletion", NEW w
  PROVE  Quiet(Unless(cond, k, w))
<1>1. CASE cond
  BY <1>1, NothingSaid DEF Unless
<1>2. CASE ~cond
  <2> DEFINE s == <<Anomaly(k, w)>>
  <2>1. DOMAIN s = 1 .. 1 /\ s = [n \in 1 .. 1 |-> s[n]] /\ \A n \in 1 .. 1 : s[n].kind # "deletion"
    BY DEF Anomaly
  <2>2. Unless(cond, k, w) = s
    BY <1>2 DEF Unless
  <2>. HIDE DEF s
  <2>. QED  BY <2>1, <2>2, QuietAlarms
<1>. QED  BY <1>1, <1>2

(* As many of a part of the positions as a number.                          *)
LEMMA PickedPositions ==
  ASSUME NEW n \in Int, NEW P \in SUBSET (1 .. n)
  PROVE  IsFiniteSet(P) /\ P \in SUBSET Int /\ Cardinality(P) \in Nat
<1>1. IsFiniteSet(1 .. n)
  <2>1. 1 \in Int /\ n \in Int
    OBVIOUS
  <2>. QED  BY <2>1, FS_Interval
<1>2. IsFiniteSet(P)
  BY <1>1, FS_Subset
<1>3. Cardinality(P) \in Nat
  BY <1>2, FS_CardinalityType
<1>. QED  BY <1>2, <1>3

LEMMA TimesQuiet ==
  ASSUME NEW rs, IsSequence(rs)
  PROVE  Quiet(TimesChecked(rs))
<1> DEFINE P == { k \in 1 .. Len(rs) - 1 : Backwards(rs[k], rs[k + 1]) }
           s == TimesChecked(rs)
<1>1. Len(rs) - 1 \in Int
  BY SequenceIs
<1>2. Cardinality(P) \in Nat
  <2>1. P \in SUBSET (1 .. Len(rs) - 1)
    OBVIOUS
  <2>. HIDE DEF P
  <2>. QED  BY <1>1, <2>1, PickedPositions
<1>3. /\ DOMAIN s = 1 .. Cardinality(P) /\ s = [k \in 1 .. Cardinality(P) |-> s[k]]
      /\ \A k \in 1 .. Cardinality(P) : s[k].kind # "deletion"
  BY DEF TimesChecked, Map, Only, Anomaly
<1>. HIDE DEF s, P
<1>4. Quiet(s)
  BY <1>2, <1>3, QuietAlarms
<1>. QED  BY <1>4 DEF s

LEMMA ReadIs ==
  ASSUME IsSequence(chunks)
  PROVE  IsSequence(Read) /\ Len(Read) = Len(chunks) /\ Len(chunks) \in Nat
<1>1. Len(chunks) \in Nat /\ DOMAIN chunks = 1 .. Len(chunks)
  BY SequenceIs
<1>2. DOMAIN Read = 1 .. Len(chunks) /\ Read = [k \in 1 .. Len(chunks) |-> Read[k]]
  BY <1>1 DEF Read, Map
<1>. QED  BY <1>1, <1>2, MadeSequence

LEMMA GapsQuiet ==
  ASSUME IsSequence(chunks)
  PROVE  Quiet(GapsChecked)
<1> DEFINE P == { k \in 1 .. Len(Read) - 1 : Read[k + 1].first # (Read[k].last + 1) % Wrap }
           s == GapsChecked
<1>1. Len(Read) - 1 \in Int
  BY ReadIs
<1>2. Cardinality(P) \in Nat
  <2>1. P \in SUBSET (1 .. Len(Read) - 1)
    OBVIOUS
  <2>. HIDE DEF P
  <2>. QED  BY <1>1, <2>1, PickedPositions
<1>3. /\ DOMAIN s = 1 .. Cardinality(P) /\ s = [k \in 1 .. Cardinality(P) |-> s[k]]
      /\ \A k \in 1 .. Cardinality(P) : s[k].kind # "deletion"
  BY DEF GapsChecked, Map, Only, Anomaly
<1>. HIDE DEF s, P
<1>4. Quiet(s)
  BY <1>2, <1>3, QuietAlarms
<1>. QED  BY <1>4 DEF s

LEMMA GuidsQuiet ==
  ASSUME IsSequence(chunks)
  PROVE  Quiet(GuidsChecked)
<1> DEFINE P == { k \in 1 .. Len(Read) : Read[k].guid # Read[1].guid }
           s == GuidsChecked
<1>1. Len(Read) \in Int
  BY ReadIs
<1>2. Cardinality(P) \in Nat
  <2>1. P \in SUBSET (1 .. Len(Read))
    OBVIOUS
  <2>. HIDE DEF P
  <2>. QED  BY <1>1, <2>1, PickedPositions
<1>3. DOMAIN Ascending(P) = 1 .. Cardinality(P)
  BY DEF Ascending, Arranged
<1>4. /\ DOMAIN s = 1 .. Cardinality(P) /\ s = [k \in 1 .. Cardinality(P) |-> s[k]]
      /\ \A k \in 1 .. Cardinality(P) : s[k].kind # "deletion"
  BY <1>3 DEF GuidsChecked, Map, Anomaly
<1>. HIDE DEF s, P
<1>5. Quiet(s)
  BY <1>2, <1>4, QuietAlarms
<1>. QED  BY <1>5 DEF s

LEMMA ExportQuiet ==
  ASSUME IsSequence(all)
  PROVE  Quiet(ExportChecked)
<1> DEFINE P == { k \in 1 .. Len(all) : all[k].time = 0 }
           s == ExportChecked
<1>1. Len(all) \in Int
  BY SequenceIs
<1>2. Cardinality(P) \in Nat
  <2>1. P \in SUBSET (1 .. Len(all))
    OBVIOUS
  <2>. HIDE DEF P
  <2>. QED  BY <1>1, <2>1, PickedPositions
<1>3. /\ DOMAIN s = 1 .. Cardinality(P) /\ s = [k \in 1 .. Cardinality(P) |-> s[k]]
      /\ \A k \in 1 .. Cardinality(P) : s[k].kind # "deletion"
  BY DEF ExportChecked, Map, Only, Anomaly
<1>. HIDE DEF s, P
<1>4. Quiet(s)
  BY <1>2, <1>3, QuietAlarms
<1>. QED  BY <1>4 DEF s

LEMMA PhantomsQuiet ==
  ASSUME IsSequence(all)
  PROVE  Quiet(PhantomsChecked)
<1> DEFINE rs == SortedById(all)
           P == { k \in 1 .. Len(rs) - 1 : Phantom(rs[k], rs[k + 1]) }
           s == PhantomsChecked
<1>1. Len(all) \in Nat
  BY SequenceIs
<1>2. DOMAIN rs = 1 .. Len(all) /\ rs = [k \in 1 .. Len(all) |-> rs[k]]
  BY DEF SortedById, SortedBy
<1>3. Len(rs) - 1 \in Int
  <2>. HIDE DEF rs
  <2>. QED  BY <1>1, <1>2, MadeSequence
<1>4. Cardinality(P) \in Nat
  <2>1. P \in SUBSET (1 .. Len(rs) - 1)
    OBVIOUS
  <2>. HIDE DEF P, rs
  <2>. QED  BY <1>3, <2>1, PickedPositions
<1>5. /\ DOMAIN s = 1 .. Cardinality(P) /\ s = [k \in 1 .. Cardinality(P) |-> s[k]]
      /\ \A k \in 1 .. Cardinality(P) : s[k].kind # "deletion"
  BY DEF PhantomsChecked, Map, Only, Anomaly
<1>. HIDE DEF s, P, rs
<1>6. Quiet(s)
  BY <1>4, <1>5, QuietAlarms
<1>. QED  BY <1>6 DEF s

LEMMA HeaderQuiet == Quiet(HeaderChecked)
<1>1. CASE ~file.header
  BY <1>1, NothingSaid DEF HeaderChecked
<1>2. CASE file.header
  <2> DEFINE a == Unless(file.next > HighestId, "next id", <<file.next, HighestId>>)
             b == Unless(file.count = Len(chunks), "count", <<file.count, Len(chunks)>>)
  <2>1. Quiet(a) /\ Quiet(b)
    BY QuietUnless
  <2>2. HeaderChecked = a \o b
    BY <1>2 DEF HeaderChecked
  <2>. HIDE DEF a, b
  <2>. QED  BY <2>1, <2>2, QuietTogether
<1>. QED  BY <1>1, <1>2

(* The search of a chunk tells what is hidden in the records of its walk.   *)
LEMMA SearchTells ==
  ASSUME NEW f, IsFile(f), NEW n \in 1 .. Len(f.places)
  PROVE  /\ IsSequence(Deletions(f.places[n], n))
         /\ Told(Deletions(f.places[n], n)) = ToTell(f, n, VisitedFrom(f.places[n])[0])
<1> DEFINE c == f.places[n]
           P == { p \in Visited(c) : Ghosts(c, p) # {} }
           a == Ascending(P)
           s == Deletions(c, n)
           m == Cardinality(P)
<1>1. IsPlace(c)
  BY PlaceAt
<1>2. Visited(c) = VisitedFrom(c)[0] /\ VisitedFrom(c)[0] \subseteq 0 .. Area
  <2>1. 0 \in 0 .. Area
    BY AnalyserAssumption
  <2>. QED  BY <1>1, <2>1, VisitedBehind DEF Visited
<1>3. P \in SUBSET Int /\ IsFiniteSet(P)
  <2>1. IsFiniteSet(0 .. Area)
    <3>1. 0 \in Int /\ Area \in Int
      BY AnalyserAssumption
    <3>. QED  BY <3>1, FS_Interval
  <2>2. P \subseteq 0 .. Area
    BY <1>2
  <2>. HIDE DEF P
  <2>3. IsFiniteSet(P)
    BY <2>1, <2>2, FS_Subset
  <2>. QED  BY <2>2, <2>3
<1>4. m \in Nat /\ a \in [1 .. m -> P] /\ \A p \in P : \E r \in 1 .. m : a[r] = p
  <2>. HIDE DEF P
  <2>. QED  BY <1>3, AscendingInOrder
<1>5. DOMAIN a = 1 .. m
  BY <1>4
<1>. HIDE DEF a, m, P
<1>6. s = [r \in 1 .. m |-> Deletion(c, n, a[r])]
  BY <1>5 DEF Deletions, Map, P, a
<1>7. IsSequence(s) /\ Len(s) = m
  <2>1. DOMAIN s = 1 .. m /\ s = [r \in 1 .. m |-> s[r]]
    BY <1>6
  <2>. HIDE DEF s
  <2>. QED  BY <1>4, <2>1, MadeSequence
<1>8. \A r \in 1 .. m : s[r].kind = "deletion" /\ s[r].what = Deletion(c, n, a[r]).what
  <2>1. \A p : Deletion(c, n, p).kind = "deletion"
    BY DEF Deletion, Anomaly
  <2>. HIDE DEF s
  <2>. QED  BY <1>6, <2>1
<1>. HIDE DEF s
<1>9. Told(s) = { Deletion(c, n, a[r]).what : r \in 1 .. m }
  BY <1>7, <1>8 DEF Told
<1>10. { Deletion(c, n, a[r]).what : r \in 1 .. m } = { Deletion(c, n, p).what : p \in P }
  BY <1>4
<1>11. ToTell(f, n, VisitedFrom(c)[0]) = { Deletion(c, n, p).what : p \in P }
  BY <1>2 DEF ToTell, P
<1>. QED  BY <1>7, <1>9, <1>10, <1>11 DEF s

LEMMA ToTellTogether ==
  ASSUME NEW f, NEW n, NEW P, NEW Q
  PROVE  ToTell(f, n, P \cup Q) = ToTell(f, n, P) \cup ToTell(f, n, Q)
BY DEF ToTell

(* One record more.                                                         *)
LEMMA HiddenStep ==
  ASSUME NEW f, NEW s, IsSequence(s), NEW r
  PROVE  Hidden(f, Append(s, r)) = Hidden(f, s) \cup ToTell(f, r.chunk, {r.pos})
<1> DEFINE t == Append(s, r)
           What(x) == Deletion(f.places[x.chunk], x.chunk, x.pos).what
           Holds(x) == Ghosts(f.places[x.chunk], x.pos) # {}
<1>1. /\ Len(s) \in Nat /\ Len(t) = Len(s) + 1
      /\ \A j \in 1 .. Len(s) : t[j] = s[j]
      /\ t[Len(s) + 1] = r
  BY AppendIsSequence
<1>2. /\ Hidden(f, t) = { What(t[k]) : k \in { n \in 1 .. Len(t) : Holds(t[n]) } }
      /\ Hidden(f, s) = { What(s[k]) : k \in { n \in 1 .. Len(s) : Holds(s[n]) } }
      /\ ToTell(f, r.chunk, {r.pos}) = IF Holds(r) THEN {What(r)} ELSE {}
  BY DEF Hidden, ToTell
<1>3. /\ Len(s) + 1 \in 1 .. Len(t)
      /\ \A k \in 1 .. Len(s) : k \in 1 .. Len(t)
      /\ \A k \in 1 .. Len(t) : k \in 1 .. Len(s) \/ k = Len(s) + 1
  BY <1>1
<1>. HIDE DEF t, What, Holds
<1>. QED  BY <1>1, <1>2, <1>3 DEF t

(* The report.                                                              *)
LEMMA DistinctTells ==
  ASSUME NEW s, IsSequence(s)
  PROVE  IsSequence(Distinct(s)) /\ Told(Distinct(s)) = Told(s)
<1> DEFINE P == { k \in 1 .. Len(s) : \A j \in 1 .. k - 1 : ~Same(s[j], s[k]) }
           d == Only(s, P)
           n == Cardinality(P)
<1>1. Distinct(s) = d
  BY DEF Distinct
<1>2. IsSequence(d) /\ Len(d) = n /\ n \in Nat /\ { d[r] : r \in 1 .. n } = { s[p] : p \in P }
  <2>1. P \in SUBSET (1 .. Len(s))
    OBVIOUS
  <2>. HIDE DEF P
  <2>. QED  BY <2>1, OnlyPicks
<1>3. Len(s) \in Nat
  BY SequenceIs
<1>4. ASSUME NEW k \in 1 .. Len(s) PROVE \E p \in P : Same(s[p], s[k])
  <2> DEFINE Sames == { p \in 1 .. Len(s) : Same(s[p], s[k]) }
  <2>1. PICK p \in Sames : \A q \in Sames : p <= q
    <3>1. k \in Sames /\ Sames \subseteq Nat
      BY <1>3 DEF Same
    <3>. HIDE DEF Sames
    <3>. QED  BY <3>1, LeastNat
  <2>2. ASSUME NEW j \in 1 .. p - 1 PROVE ~Same(s[j], s[p])
    <3>1. j \in 1 .. Len(s) /\ ~(p <= j)
      BY <1>3, <2>1
    <3>2. j \notin Sames
      BY <2>1, <3>1
    <3>. QED  BY <2>1, <3>1, <3>2 DEF Same
  <2>3. p \in P /\ Same(s[p], s[k])
    BY <2>1, <2>2
  <2>. QED  BY <2>3
<1>. HIDE DEF d, n
<1>5. Told(d) = { x.what : x \in { y \in { d[r] : r \in 1 .. n } : y.kind = "deletion" } }
  BY <1>2 DEF Told
<1>6. Told(s) = { s[p].what : p \in { q \in P : s[q].kind = "deletion" } }
  <2>1. ASSUME NEW k \in 1 .. Len(s), s[k].kind = "deletion"
        PROVE  s[k].what \in { s[p].what : p \in { q \in P : s[q].kind = "deletion" } }
    <3>1. PICK p \in P : s[p].kind = s[k].kind /\ s[p].what = s[k].what
      BY <1>4 DEF Same
    <3>. HIDE DEF P
    <3>. QED  BY <2>1, <3>1
  <2>2. \A p \in P : p \in 1 .. Len(s)
    OBVIOUS
  <2>. HIDE DEF P
  <2>. QED  BY <2>1, <2>2 DEF Told
<1>. HIDE DEF P
<1>7. { x.what : x \in { y \in { s[p] : p \in P } : y.kind = "deletion" } }
        = { s[p].what : p \in { q \in P : s[q].kind = "deletion" } }
  OBVIOUS
<1>. QED  BY <1>1, <1>2, <1>5, <1>6, <1>7

(* The anomalies of some kinds.                                             *)
LEMMA OfKinds ==
  ASSUME NEW s, IsSequence(s), NEW kinds
  PROVE  /\ IsSequence(Of(s, kinds)) /\ Len(Of(s, kinds)) \in Nat
         /\ \A k \in 1 .. Len(Of(s, kinds)) : Of(s, kinds)[k].kind \in kinds
         /\ "deletion" \in kinds => Told(Of(s, kinds)) = Told(s)
<1> DEFINE P == { k \in 1 .. Len(s) : s[k].kind \in kinds }
           o == Only(s, P)
           n == Cardinality(P)
<1>1. Of(s, kinds) = o
  BY DEF Of
<1>2. IsSequence(o) /\ Len(o) = n /\ n \in Nat /\ { o[r] : r \in 1 .. n } = { s[p] : p \in P }
  <2>1. P \in SUBSET (1 .. Len(s))
    OBVIOUS
  <2>. HIDE DEF P
  <2>. QED  BY <2>1, OnlyPicks
<1>. HIDE DEF o, n
<1>3. \A x \in { s[p] : p \in P } : x.kind \in kinds
  OBVIOUS
<1>4. \A k \in 1 .. n : o[k] \in { s[p] : p \in P }
  BY <1>2
<1>5. \A k \in 1 .. n : o[k].kind \in kinds
  BY <1>3, <1>4
<1>6. ASSUME "deletion" \in kinds PROVE Told(o) = Told(s)
  <2>1. Told(o) = { x.what : x \in { y \in { o[r] : r \in 1 .. n } : y.kind = "deletion" } }
    BY <1>2 DEF Told
  <2>2. Told(s) = { x.what : x \in { y \in { s[p] : p \in P } : y.kind = "deletion" } }
    BY <1>6 DEF Told
  <2>. QED  BY <1>2, <2>1, <2>2
<1>. QED  BY <1>1, <1>2, <1>5, <1>6

(* What is reported of deletions is what was found of them, and first.      *)
LEMMA RankedTells ==
  ASSUME NEW s, IsSequence(s)
  PROVE  /\ IsSequence(Ranked(s)) /\ Told(Ranked(s)) = Told(s)
         /\ \E n \in 0 .. Len(Ranked(s)) : { k \in 1 .. Len(Ranked(s)) : Ranked(s)[k].kind = "deletion" } = 1 .. n
<1> DEFINE d == Distinct(s)
           a == Of(d, Critical)
           b == Of(d, High)
           c == Of(d, Medium)
<1>1. IsSequence(d) /\ Told(d) = Told(s)
  BY DistinctTells
<1>. HIDE DEF d
<1>2. IsSequence(a) /\ Told(a) = Told(s) /\ \A k \in 1 .. Len(a) : a[k].kind = "deletion"
  <2>1. \A x : x \in Critical <=> x = "deletion"
    BY DEF Critical
  <2>. QED  BY <1>1, <2>1, OfKinds
<1>3. Quiet(b) /\ Quiet(c)
  <2>1. "deletion" \notin High /\ "deletion" \notin Medium
    BY Zenon DEF High, Medium
  <2>2. /\ IsSequence(b) /\ \A k \in 1 .. Len(b) : b[k].kind \in High
        /\ IsSequence(c) /\ \A k \in 1 .. Len(c) : c[k].kind \in Medium
    BY <1>1, OfKinds
  <2>. QED  BY <2>1, <2>2 DEF Quiet
<1>. HIDE DEF a, b, c
<1> DEFINE r == (a \o b) \o c
<1>4. Ranked(s) = r
  BY DEF Ranked, a, b, c, d
<1>5. IsSequence(a \o b) /\ Told(a \o b) = Told(a) /\ IsSequence(r) /\ Told(r) = Told(a \o b)
  BY <1>2, <1>3, QuietAdds
<1>6. /\ Len(a) \in Nat /\ Len(b) \in Nat /\ Len(c) \in Nat
      /\ Len(a \o b) = Len(a) + Len(b) /\ Len(r) = Len(a) + Len(b) + Len(c)
      /\ \A j \in 1 .. Len(a) + Len(b) : (a \o b)[j] = IF j <= Len(a) THEN a[j] ELSE b[j - Len(a)]
      /\ \A j \in 1 .. (Len(a) + Len(b)) + Len(c) :
           r[j] = IF j <= Len(a) + Len(b) THEN (a \o b)[j] ELSE c[j - (Len(a) + Len(b))]
  <2>1. IsSequence(b) /\ IsSequence(c)
    BY <1>3 DEF Quiet
  <2>2. /\ Len(a) \in Nat /\ Len(b) \in Nat /\ Len(a \o b) = Len(a) + Len(b)
        /\ \A j \in 1 .. Len(a) + Len(b) : (a \o b)[j] = IF j <= Len(a) THEN a[j] ELSE b[j - Len(a)]
    BY <1>2, <2>1, ConcatIsSequence
  <2>3. /\ Len(c) \in Nat /\ Len(r) = Len(a \o b) + Len(c)
        /\ \A j \in 1 .. Len(a \o b) + Len(c) :
             r[j] = IF j <= Len(a \o b) THEN (a \o b)[j] ELSE c[j - Len(a \o b)]
    BY <1>5, <2>1, ConcatIsSequence
  <2>. HIDE DEF r
  <2>. QED  BY <2>2, <2>3
<1>. HIDE DEF r
<1>7. ASSUME NEW k \in 1 .. Len(r) PROVE r[k].kind = "deletion" <=> k \in 1 .. Len(a)
  <2>1. CASE k <= Len(a)
    <3>1. k \in 1 .. Len(a) /\ r[k] = a[k]
      BY <1>6, <2>1
    <3>. QED  BY <1>2, <3>1
  <2>2. CASE Len(a) < k /\ k <= Len(a) + Len(b)
    <3>1. k - Len(a) \in 1 .. Len(b) /\ r[k] = b[k - Len(a)]
      BY <1>6, <2>2
    <3>. QED  BY <1>3, <1>6, <2>2, <3>1 DEF Quiet
  <2>3. CASE Len(a) + Len(b) < k
    <3>1. k - (Len(a) + Len(b)) \in 1 .. Len(c) /\ r[k] = c[k - (Len(a) + Len(b))] /\ ~(k <= Len(a))
      BY <1>6, <2>3
    <3>. QED  BY <1>3, <3>1 DEF Quiet
  <2>. QED  BY <1>6, <2>1, <2>2, <2>3
<1>8. { k \in 1 .. Len(r) : r[k].kind = "deletion" } = 1 .. Len(a) /\ Len(a) \in 0 .. Len(r)
  BY <1>6, <1>7
<1>. QED  BY <1>2, <1>4, <1>5, <1>8

AnalyserInv == AnalyserTypeInv /\ DeletionInv

LEMMA SingleAnomaly ==
  ASSUME NEW k, NEW w
  PROVE  IsSequence(<<Anomaly(k, w)>>)
<1> DEFINE s == <<Anomaly(k, w)>>
<1>1. DOMAIN s = 1 .. 1 /\ s = [n \in 1 .. 1 |-> s[n]]
  OBVIOUS
<1>. HIDE DEF s
<1>2. IsSequence(s)
  BY <1>1, MadeSequence
<1>. QED  BY <1>2 DEF s

LEMMA InitHolds == Init => AnalyserInv
<1> SUFFICES ASSUME Init PROVE AnalyserInv
  OBVIOUS
<1>1. AnalyserTypeInv
  BY NoneIsSequence DEF Init, AnalyserTypeInv
<1>2. DeletionInv
  BY DEF Init, DeletionInv
<1>. QED  BY <1>1, <1>2 DEF AnalyserInv

LEMMA TooShortHolds == AnalyserInv /\ TooShort => AnalyserInv'
<1> SUFFICES ASSUME AnalyserInv, TooShort PROVE AnalyserInv'
  OBVIOUS
<1>1. AnalyserTypeInv'
  BY SingleAnomaly DEF AnalyserInv, AnalyserTypeInv, TooShort
<1>2. DeletionInv'
  BY DEF DeletionInv, TooShort
<1>. QED  BY <1>1, <1>2 DEF AnalyserInv

LEMMA ReadHeaderHolds == AnalyserInv /\ ReadHeader => AnalyserInv'
<1> SUFFICES ASSUME AnalyserInv, ReadHeader PROVE AnalyserInv'
  OBVIOUS
<1>1. Quiet(out')
  <2>1. CASE ~file.header
    BY <2>1, NothingSaid DEF ReadHeader
  <2>2. CASE file.header
    <3> DEFINE a == Unless(file.sumOk, "file checksum", <<>>)
               b == Unless(~file.dirty, "dirty", <<>>)
               c == Unless(~file.full, "full", <<>>)
               d == Unless(file.count # 0, "empty", <<>>)
    <3>1. Quiet(a)
      BY QuietUnless
    <3>2. Quiet(b)
      BY QuietUnless
    <3>3. Quiet(c)
      BY QuietUnless
    <3>4. Quiet(d)
      BY QuietUnless
    <3>5. out' = ((a \o b) \o c) \o d
      BY <2>2 DEF ReadHeader
    <3>. HIDE DEF a, b, c, d
    <3>6. Quiet(a \o b)
      BY <3>1, <3>2, QuietTogether
    <3>7. Quiet((a \o b) \o c)
      BY <3>3, <3>6, QuietTogether
    <3>. QED  BY <3>4, <3>5, <3>7, QuietTogether
  <2>. QED  BY <2>1, <2>2
<1>2. AnalyserTypeInv'
  <2>1. IsSequence(out')
    BY <1>1 DEF Quiet
  <2>. QED  BY <2>1 DEF AnalyserInv, AnalyserTypeInv, ReadHeader
<1>3. DeletionInv'
  <2>1. Told(out') = {}
    BY <1>1, QuietTells
  <2>2. Hidden(file', all') = {}
    <3>1. all' = <<>>
      BY DEF AnalyserInv, DeletionInv, ReadHeader
    <3>. QED  BY <3>1 DEF Hidden
  <2>. QED  BY <2>1, <2>2 DEF DeletionInv, ReadHeader
<1>. QED  BY <1>2, <1>3 DEF AnalyserInv

LEMMA PassOverHolds == AnalyserInv /\ PassOver => AnalyserInv'
<1> SUFFICES ASSUME AnalyserInv, PassOver PROVE AnalyserInv'
  OBVIOUS
<1>1. AnalyserTypeInv'
  BY DEF AnalyserInv, AnalyserTypeInv, PassOver, More
<1>2. DeletionInv'
  BY DEF AnalyserInv, DeletionInv, PassOver, More
<1>. QED  BY <1>1, <1>2 DEF AnalyserInv

LEMMA CutOffHolds == AnalyserInv /\ CutOff => AnalyserInv'
<1> SUFFICES ASSUME AnalyserInv, CutOff PROVE AnalyserInv'
  OBVIOUS
<1>1. IsSequence(out') /\ Told(out') = Told(out)
  <2> DEFINE t == IF Chunk.parses THEN LengthChecked(Chunk) ELSE <<>>
  <2>1. Quiet(LengthChecked(Chunk))
    BY QuietUnless DEF LengthChecked
  <2>2. Quiet(t)
    BY <2>1, NothingSaid
  <2>3. out' = out \o t
    BY DEF CutOff
  <2>. HIDE DEF t
  <2>. QED  BY <2>2, <2>3, QuietAdds DEF AnalyserInv, AnalyserTypeInv
<1>2. AnalyserTypeInv'
  BY <1>1 DEF AnalyserInv, AnalyserTypeInv, CutOff, More
<1>3. DeletionInv'
  BY <1>1 DEF AnalyserInv, DeletionInv, CutOff, More
<1>. QED  BY <1>2, <1>3 DEF AnalyserInv

(* A chunk's records are searched before any of them is read.               *)
LEMMA ReadChunkHolds == AnalyserInv /\ ReadChunk => AnalyserInv'
<1> SUFFICES ASSUME AnalyserInv, ReadChunk PROVE AnalyserInv'
  OBVIOUS
<1>1. i \in 1 .. Len(file.places) /\ 0 \in 0 .. Area /\ IsSequence(out) /\ pc = "chunks" /\ IsFile(file)
  <2>1. Len(file.places) \in Nat /\ IsFile(file)
    BY SequenceIs DEF AnalyserInv, AnalyserTypeInv, IsFile
  <2>2. 0 \in 0 .. Area
    BY AnalyserAssumption
  <2>3. i \in Nat \ {0} /\ IsSequence(out)
    BY DEF AnalyserInv, AnalyserTypeInv
  <2>4. pc = "chunks" /\ i <= Len(file.places)
    BY DEF ReadChunk, More
  <2>. QED  BY <2>1, <2>2, <2>3, <2>4
<1>2. IsSequence(out') /\ Told(out') = Told(out) \cup ToTell(file, i, VisitedFrom(Chunk)[0])
  <2> DEFINE a == Unless(Chunk.headerOk, "header checksum", i)
             b == Unless(Chunk.free < 0 \/ Chunk.areaOk, "area checksum", i)
             c == LengthChecked(Chunk)
             d == Deletions(Chunk, i)
  <2>1. Quiet(a)
    BY QuietUnless
  <2>2. Quiet(b)
    BY QuietUnless
  <2>3. Quiet(c)
    BY QuietUnless DEF LengthChecked
  <2>4. IsSequence(d) /\ Told(d) = ToTell(file, i, VisitedFrom(Chunk)[0])
    BY <1>1, SearchTells DEF Chunk
  <2>5. out' = ((out \o a) \o b) \o c \o d
    BY DEF ReadChunk
  <2>. HIDE DEF a, b, c, d
  <2>6. IsSequence(out \o a) /\ Told(out \o a) = Told(out)
    BY <1>1, <2>1, QuietAdds
  <2>7. IsSequence((out \o a) \o b) /\ Told((out \o a) \o b) = Told(out)
    BY <2>6, <2>2, QuietAdds
  <2>8. IsSequence(((out \o a) \o b) \o c) /\ Told(((out \o a) \o b) \o c) = Told(out)
    BY <2>7, <2>3, QuietAdds
  <2>. QED  BY <2>4, <2>5, <2>8, ToldTogether
<1>3. AnalyserTypeInv'
  <2>1. /\ IsSequence(recs') /\ Len(recs') = 0
        /\ pos' = 0 /\ pc' = "records" /\ UNCHANGED <<file, i, all, chunks>>
    BY NoneIsSequence DEF ReadChunk, NoRecords
  <2>2. i <= Len(file.places)
    BY <1>1
  <2>. QED  BY <1>1, <1>2, <2>1, <2>2 DEF AnalyserInv, AnalyserTypeInv
<1>4. DeletionInv'
  <2>1. Told(out) = Hidden(file, all)
    BY <1>1 DEF AnalyserInv, DeletionInv
  <2>2. pc' = "records" /\ file' = file /\ all' = all /\ i' = i /\ pos' = 0 /\ Chunk' = Chunk
    BY DEF ReadChunk, Chunk
  <2>3. Told(out') = Hidden(file', all') \cup ToTell(file', i', VisitedFrom(Chunk')[pos'])
    BY <1>2, <2>1, <2>2
  <2>. QED  BY <2>2, <2>3 DEF DeletionInv
<1>. QED  BY <1>3, <1>4 DEF AnalyserInv

LEMMA ReadRecordHolds == AnalyserInv /\ ReadRecord => AnalyserInv'
<1> SUFFICES ASSUME AnalyserInv, ReadRecord PROVE AnalyserInv'
  OBVIOUS
<1> DEFINE r == [chunk |-> i, pos |-> pos, id |-> Chunk.claims[pos].id, time |-> Chunk.claims[pos].time]
           next == pos + Chunk.claims[pos].size
<1>1. /\ i \in 1 .. Len(file.places) /\ IsFile(file) /\ pos \in 0 .. Area
      /\ IsSequence(recs) /\ IsSequence(all) /\ \A k \in 1 .. Len(all) : IsRecord(file, all[k])
  <2>1. Len(file.places) \in Nat /\ IsFile(file)
    BY SequenceIs DEF AnalyserInv, AnalyserTypeInv, IsFile
  <2>. QED  BY <2>1 DEF AnalyserInv, AnalyserTypeInv, ReadRecord
<1>2. IsPlace(Chunk) /\ Chunk = file.places[i]
  BY <1>1, PlaceAt DEF Chunk
<1>3. next \in 0 .. Area /\ Readable(Chunk, pos) /\ pos \in DOMAIN Chunk.claims
  BY <1>2, NextPosition DEF ReadRecord, Readable
<1>4. /\ recs' = Append(recs, r) /\ all' = Append(all, r) /\ pos' = next
      /\ file' = file /\ pc' = pc /\ i' = i /\ chunks' = chunks /\ out' = out /\ Chunk' = Chunk
  BY DEF ReadRecord, Chunk
<1>5. r.chunk = i /\ r.pos = pos /\ IsRecord(file, r)
  BY <1>1, <1>2, <1>3 DEF IsRecord
<1>. HIDE DEF r, next
<1>6. AnalyserTypeInv'
  <2>1. /\ IsSequence(recs') /\ IsSequence(all')
        /\ Len(all) \in Nat /\ Len(all') = Len(all) + 1
        /\ \A k \in 1 .. Len(all) : all'[k] = all[k]
        /\ all'[Len(all) + 1] = r
    BY <1>1, <1>4, AppendIsSequence
  <2>2. \A k \in 1 .. Len(all') : IsRecord(file', all'[k])
    <3>1. \A k \in 1 .. Len(all') : k \in 1 .. Len(all) \/ k = Len(all) + 1
      BY <2>1
    <3>. QED  BY <1>1, <1>4, <1>5, <2>1, <3>1
  <2>3. \A k \in 1 .. Len(recs') : IsRecord(file', recs'[k])
    <3>1. /\ Len(recs) \in Nat /\ Len(recs') = Len(recs) + 1
          /\ \A k \in 1 .. Len(recs) : recs'[k] = recs[k]
          /\ recs'[Len(recs) + 1] = r
      BY <1>1, <1>4, AppendIsSequence
    <3>2. \A k \in 1 .. Len(recs') : k \in 1 .. Len(recs) \/ k = Len(recs) + 1
      BY <3>1
    <3>3. \A k \in 1 .. Len(recs) : IsRecord(file, recs[k])
      BY DEF AnalyserInv, AnalyserTypeInv
    <3>. QED  BY <1>4, <1>5, <3>1, <3>2, <3>3
  <2>. QED  BY <1>3, <1>4, <2>1, <2>2, <2>3 DEF AnalyserInv, AnalyserTypeInv
<1>7. DeletionInv'
  <2>1. pc = "records" /\ Told(out) = Hidden(file, all) \cup ToTell(file, i, VisitedFrom(Chunk)[pos])
    BY DEF AnalyserInv, DeletionInv, ReadRecord
  <2>2. VisitedFrom(Chunk)[pos] = {pos} \cup VisitedFrom(Chunk)[next]
    BY <1>1, <1>2, <1>3, VisitedStep DEF next
  <2>3. Hidden(file, Append(all, r)) = Hidden(file, all) \cup ToTell(file, i, {pos})
    BY <1>1, <1>5, HiddenStep
  <2>4. Told(out) = Hidden(file, Append(all, r)) \cup ToTell(file, i, VisitedFrom(Chunk)[next])
    BY <2>1, <2>2, <2>3, ToTellTogether
  <2>5. Told(out') = Hidden(file', all') \cup ToTell(file', i', VisitedFrom(Chunk')[pos'])
    BY <1>4, <2>4
  <2>. QED  BY <1>4, <2>1, <2>5 DEF DeletionInv
<1>. QED  BY <1>6, <1>7 DEF AnalyserInv

LEMMA EndOfRecordsHolds == AnalyserInv /\ EndOfRecords => AnalyserInv'
<1> SUFFICES ASSUME AnalyserInv, EndOfRecords PROVE AnalyserInv'
  OBVIOUS
<1>1. /\ i \in 1 .. Len(file.places) /\ IsFile(file) /\ pos \in 0 .. Area
      /\ IsSequence(recs) /\ IsSequence(out) /\ IsSequence(chunks)
  <2>1. Len(file.places) \in Nat /\ IsFile(file)
    BY SequenceIs DEF AnalyserInv, AnalyserTypeInv, IsFile
  <2>. QED  BY <2>1 DEF AnalyserInv, AnalyserTypeInv, EndOfRecords
<1>2. IsSequence(out') /\ Told(out') = Told(out)
  BY <1>1, TimesQuiet, QuietAdds DEF EndOfRecords
<1>3. AnalyserTypeInv'
  <2>1. IsSequence(chunks') /\ i + 1 \in Nat \ {0}
    BY <1>1, AppendIsSequence DEF EndOfRecords
  <2>. QED  BY <1>1, <1>2, <2>1 DEF AnalyserInv, AnalyserTypeInv, EndOfRecords
<1>4. DeletionInv'
  <2>1. VisitedFrom(Chunk)[pos] = {}
    BY <1>1, PlaceAt, VisitedStep DEF EndOfRecords, Chunk
  <2>2. Told(out) = Hidden(file, all)
    BY <2>1 DEF AnalyserInv, DeletionInv, EndOfRecords, ToTell
  <2>. QED  BY <1>2, <2>2 DEF DeletionInv, EndOfRecords
<1>. QED  BY <1>3, <1>4 DEF AnalyserInv

LEMMA EndOfFileHolds == AnalyserInv /\ EndOfFile => AnalyserInv'
<1> SUFFICES ASSUME AnalyserInv, EndOfFile PROVE AnalyserInv'
  OBVIOUS
<1>1. AnalyserTypeInv'
  BY DEF AnalyserInv, AnalyserTypeInv, EndOfFile
<1>2. DeletionInv'
  BY DEF AnalyserInv, DeletionInv, EndOfFile
<1>. QED  BY <1>1, <1>2 DEF AnalyserInv

LEMMA CrossChecksHolds == AnalyserInv /\ CrossChecks => AnalyserInv'
<1> SUFFICES ASSUME AnalyserInv, CrossChecks PROVE AnalyserInv'
  OBVIOUS
<1>1. IsSequence(chunks) /\ IsSequence(all) /\ IsSequence(out)
  BY DEF AnalyserInv, AnalyserTypeInv
<1>2. IsSequence(out') /\ Told(out') = Told(out)
  <2> DEFINE a == GapsChecked
             b == HeaderChecked
             c == GuidsChecked
             d == ExportChecked
             e == PhantomsChecked
  <2>1. Quiet(a) /\ Quiet(b) /\ Quiet(c) /\ Quiet(d) /\ Quiet(e)
    BY <1>1, GapsQuiet, HeaderQuiet, GuidsQuiet, ExportQuiet, PhantomsQuiet
  <2>2. out' = ((((out \o a) \o b) \o c) \o d) \o e
    BY DEF CrossChecks
  <2>. HIDE DEF a, b, c, d, e
  <2>3. IsSequence(out \o a) /\ Told(out \o a) = Told(out)
    BY <1>1, <2>1, QuietAdds
  <2>4. IsSequence((out \o a) \o b) /\ Told((out \o a) \o b) = Told(out)
    BY <2>1, <2>3, QuietAdds
  <2>5. IsSequence(((out \o a) \o b) \o c) /\ Told(((out \o a) \o b) \o c) = Told(out)
    BY <2>1, <2>4, QuietAdds
  <2>6. IsSequence((((out \o a) \o b) \o c) \o d) /\ Told((((out \o a) \o b) \o c) \o d) = Told(out)
    BY <2>1, <2>5, QuietAdds
  <2>. QED  BY <2>1, <2>2, <2>6, QuietAdds
<1>3. AnalyserTypeInv'
  BY <1>2 DEF AnalyserInv, AnalyserTypeInv, CrossChecks
<1>4. DeletionInv'
  BY <1>2 DEF AnalyserInv, DeletionInv, CrossChecks
<1>. QED  BY <1>3, <1>4 DEF AnalyserInv

LEMMA RankHolds == AnalyserInv /\ Rank => AnalyserInv'
<1> SUFFICES ASSUME AnalyserInv, Rank PROVE AnalyserInv'
  OBVIOUS
<1>1. IsSequence(out) /\ out' = Ranked(out)
  BY DEF AnalyserInv, AnalyserTypeInv, Rank
<1>2. /\ IsSequence(out') /\ Told(out') = Told(out)
      /\ \E n \in 0 .. Len(out') : { k \in 1 .. Len(out') : out'[k].kind = "deletion" } = 1 .. n
  BY <1>1, RankedTells
<1>3. AnalyserTypeInv'
  BY <1>2 DEF AnalyserInv, AnalyserTypeInv, Rank
<1>4. DeletionInv'
  BY <1>2 DEF AnalyserInv, DeletionInv, Rank
<1>. QED  BY <1>3, <1>4 DEF AnalyserInv

(* What the report has to say of deletions, from the invariant.             *)
LEMMA ReportTells == AnalyserInv => DeletionsTold
<1> SUFFICES ASSUME AnalyserInv, pc = "done", file.long PROVE DeletionsTold
  BY DEF DeletionsTold
<1> DEFINE deletions == { k \in DOMAIN out : out[k].kind = "deletion" }
<1>1. DOMAIN out = 1 .. Len(out) /\ Len(out) \in Nat
  BY SequenceIs DEF AnalyserInv, AnalyserTypeInv
<1>2. { out[k].what : k \in deletions } = Hidden(file, all)
  BY <1>1 DEF AnalyserInv, DeletionInv, Told
<1>3. deletions = 1 .. Cardinality(deletions)
  <2>1. PICK n \in 0 .. Len(out) : deletions = 1 .. n
    BY <1>1 DEF AnalyserInv, DeletionInv
  <2>2. n \in Nat /\ 1 \in Int
    BY <1>1
  <2>3. Cardinality(1 .. n) = n
    BY <2>2, FS_Interval
  <2>. HIDE DEF deletions
  <2>. QED  BY <2>1, <2>3
<1>. HIDE DEF deletions
<1>4. ASSUME NEW k \in 1 .. Len(all)
      PROVE  /\ Inside(all[k]) = Ghosts(file.places[all[k].chunk], all[k].pos)
             /\ Deletion(file.places[all[k].chunk], all[k].chunk, all[k].pos).what
                  = <<all[k].chunk, all[k].id, file.places[all[k].chunk].claims[all[k].pos].size, Min(Inside(all[k]))>>
  <2> DEFINE c == file.places[all[k].chunk]
             p == all[k].pos
             z == c.claims[p].size
  <2>1. IsRecord(file, all[k]) /\ IsFile(file)
    BY DEF AnalyserInv, AnalyserTypeInv
  <2>2. IsPlace(c) /\ p \in DOMAIN c.claims
    BY <2>1, PlaceAt DEF IsRecord
  <2>3. p \in Nat /\ z \in Nat /\ \A q \in DOMAIN c.claims : q \in Int
    <3>1. DOMAIN c.claims \subseteq 0 .. Area - 1 /\ IsClaim(c.claims[p]) /\ Area \in Nat
      BY <2>2, AnalyserAssumption DEF IsPlace
    <3>. HIDE DEF c, p, z
    <3>. QED  BY <2>2, <3>1 DEF IsClaim, z
  <2>4. Inside(all[k]) = { q \in DOMAIN c.claims : p + 24 \div 4 <= q /\ q + 1 <= p + z - 1 }
    BY DEF Inside
  <2>5. Ghosts(c, p) = { q \in DOMAIN c.claims : p + 6 <= q /\ q < p + z - 1 }
    BY DEF Ghosts, HeaderUnits
  <2>. HIDE DEF c, p, z
  <2>6. 24 \div 4 = 6
    OBVIOUS
  <2>7. Inside(all[k]) = Ghosts(c, p)
    BY <2>3, <2>4, <2>5, <2>6
  <2>8. c.claims[p].id = all[k].id
    BY <2>1 DEF IsRecord, c, p
  <2>. QED  BY <2>7, <2>8 DEF Deletion, Anomaly, c, p, z
<1>5. Hiding = { all[k] : k \in { n \in 1 .. Len(all) : Ghosts(file.places[all[n].chunk], all[n].pos) # {} } }
  BY <1>4 DEF Hiding
<1>6. Hidden(file, all)
        = { <<r.chunk, r.id, file.places[r.chunk].claims[r.pos].size, Min(Inside(r))>> : r \in Hiding }
  BY <1>4, <1>5 DEF Hidden
<1>. QED  BY <1>2, <1>3, <1>6 DEF DeletionsTold, deletions

LEMMA AnalyserKept == AnalyserInv /\ [Next]_vars => AnalyserInv'
<1> SUFFICES ASSUME AnalyserInv, [Next]_vars PROVE AnalyserInv'
  OBVIOUS
<1>1. CASE UNCHANGED vars
  BY <1>1 DEF vars, AnalyserInv, AnalyserTypeInv, DeletionInv, Chunk
<1>. QED  BY <1>1, TooShortHolds, ReadHeaderHolds, PassOverHolds, CutOffHolds, ReadChunkHolds,
             ReadRecordHolds, EndOfRecordsHolds, EndOfFileHolds, CrossChecksHolds, RankHolds DEF Next

(* What is hidden in a record is told, and nothing else: the two walks, of  *)
(* the search and of the records, agree.                                    *)
THEOREM DeletionsAreTold == Spec => []DeletionsTold
BY InitHolds, AnalyserKept, ReportTells, PTL DEF Spec

-----------------------------------------------------------------------------
(* A sound log.                                                             *)

LastOf(c) == Max(DOMAIN c.claims)

\* The ids count up from the first record on, and no time is missing.
CountsUp(s) == \A k \in 1 .. Len(s) : s[k].id = s[1].id + (k - 1) /\ s[k].time > 0

Rising(s) == \A k \in 1 .. Len(s) - 1 : s[k].time <= s[k + 1].time

\* The last of the records s is the last one of the place n.
EndsWith(f, s, n) ==
  \/ n = 0 /\ Len(s) = 0
  \/ n > 0 /\ Len(s) > 0 /\ s[Len(s)].chunk = n /\ s[Len(s)].pos = LastOf(f.places[n])

\* The last of the records s is the one before the position p of the place n.
EndsBefore(f, s, n, p) ==
  Len(s) > 0 /\ s[Len(s)].chunk = n /\ s[Len(s)].pos + f.places[n].claims[s[Len(s)].pos].size = p

\* What has been read of a sound log: all of the places before this one, in
\* this one all before the position.
CleanInv ==
  /\ out = <<>>
  /\ CountsUp(all)
  /\ \A k \in 1 .. Len(chunks) : chunks[k] = k
  /\ pc \in {"header", "chunks", "records"} => Len(chunks) = i - 1 /\ i <= Len(file.places) + 1
  /\ pc \in {"header", "chunks"} => EndsWith(file, all, i - 1)
  /\ pc = "records" =>
       /\ Rising(recs)
       /\ \A q \in DOMAIN Chunk.claims : q < pos \/ q \in VisitedFrom(Chunk)[pos]
       /\ \/ pos = 0 /\ Len(recs) = 0 /\ EndsWith(file, all, i - 1)
          \/ Len(recs) > 0 /\ EndsBefore(file, all, i, pos) /\ recs[Len(recs)] = all[Len(all)]
  /\ pc \in {"cross", "rank", "done"} => Len(chunks) = Len(file.places)

SoundInv == SoundLog(file) => CleanInv

LEMMA PlaceOf ==
  ASSUME NEW f, IsFile(f), SoundLog(f), NEW n \in 1 .. Len(f.places)
  PROVE  IsPlace(f.places[n]) /\ SoundChunk(f.places[n])
<1>1. IsPlace(f.places[n]) /\ n \in DOMAIN f.places
  BY PlaceAt, SequenceIs DEF IsFile
<1>. QED  BY <1>1 DEF SoundLog

(* The records of a sound chunk lie behind one another from the beginning   *)
(* on.                                                                      *)
LEMMA SoundWalk ==
  ASSUME NEW c, IsPlace(c), SoundChunk(c)
  PROVE  /\ Readable(c, 0)
         /\ \A p \in DOMAIN c.claims : Readable(c, p) /\ p \in Nat
         /\ \A p, q \in DOMAIN c.claims : p < q => p + c.claims[p].size <= q
         /\ \A p \in DOMAIN c.claims : Ghosts(c, p) = {}
<1> DEFINE D == DOMAIN c.claims
<1>1. 0 \in 0 .. Area /\ D \subseteq 0 .. Area - 1 /\ Area \in Nat
  BY AnalyserAssumption DEF IsPlace
<1>2. D = VisitedFrom(c)[0] /\ D # {}
  BY DEF SoundChunk, Visited
<1>3. /\ \A p \in D : Readable(c, p)
      /\ \A p, q \in D : p < q => p + c.claims[p].size <= q
  BY <1>1, <1>2, VisitedBehind
<1>4. Readable(c, 0)
  BY <1>1, <1>2, VisitedStep
<1>5. ASSUME NEW p \in D, NEW q \in Ghosts(c, p) PROVE FALSE
  <2>1. p \in Nat /\ q \in D /\ q \in Nat /\ c.claims[p].size \in Nat
    BY <1>1 DEF Ghosts, IsPlace, IsClaim
  <2>2. p + 6 <= q /\ q < p + c.claims[p].size - 1
    BY <1>5 DEF Ghosts, HeaderUnits
  <2>3. p < q
    BY <2>1, <2>2
  <2>4. p + c.claims[p].size <= q
    BY <1>3, <2>1, <2>3
  <2>. QED  BY <2>1, <2>2, <2>4
<1>. QED  BY <1>1, <1>3, <1>4, <1>5

(* Its first record is at the beginning, and it has a last one.             *)
LEMMA SoundEnds ==
  ASSUME NEW c, IsPlace(c), SoundChunk(c)
  PROVE  /\ Min(DOMAIN c.claims) = 0 /\ 0 \in DOMAIN c.claims
         /\ LastOf(c) \in DOMAIN c.claims /\ \A q \in DOMAIN c.claims : q <= LastOf(c)
<1> DEFINE D == DOMAIN c.claims
<1>1. D \subseteq 0 .. Area /\ D # {} /\ Area \in Nat
  BY AnalyserAssumption DEF IsPlace, SoundChunk
<1>2. 0 \in D
  BY SoundWalk DEF Readable
<1>. HIDE DEF D
<1>3. Min(D) \in D /\ \A q \in D : Min(D) <= q
  <2>1. \E x \in D : \A q \in D : x <= q
    BY <1>1, <1>2
  <2>. QED  BY <2>1 DEF Min
<1>4. Min(D) = 0
  <2> DEFINE m == Min(D)
  <2>1. m \in 0 .. Area /\ m <= 0
    BY <1>1, <1>2, <1>3
  <2>. HIDE DEF m
  <2>2. m = 0
    BY <2>1
  <2>. QED  BY <2>2 DEF m
<1>5. Max(D) \in D /\ \A q \in D : q <= Max(D)
  <2>1. PICK x \in D : \A q \in D : q <= x
    BY <1>1, GreatestNat
  <2>2. \E y \in D : \A q \in D : y >= q
    BY <1>1, <2>1
  <2>3. Max(D) \in D /\ \A q \in D : Max(D) >= q
    BY <2>2 DEF Max
  <2>. QED  BY <1>1, <2>3
<1>. QED  BY <1>2, <1>4, <1>5 DEF D, LastOf

(* The ids go on from chunk to chunk.                                       *)
LEMMA SoundStep ==
  ASSUME NEW f, IsFile(f), SoundLog(f), NEW n \in 1 .. Len(f.places) - 1
  PROVE  /\ n \in 1 .. Len(f.places) /\ n + 1 \in 1 .. Len(f.places)
         /\ Follows(f.places[n].claims[LastOf(f.places[n])], f.places[n + 1].claims[0])
         /\ f.places[n + 1].first = (f.places[n].last + 1) % Wrap
<1>1. Len(f.places) \in Nat
  BY SequenceIs DEF IsFile
<1>2. n \in 1 .. Len(f.places) /\ n + 1 \in 1 .. Len(f.places)
  BY <1>1
<1> DEFINE c == f.places[n]
           d == f.places[n + 1]
           a == c.claims[LastOf(c)]
           b == d.claims[0]
<1>3. IsPlace(c) /\ SoundChunk(c) /\ IsPlace(d) /\ SoundChunk(d)
  BY <1>2, PlaceOf
<1>4. Min(DOMAIN d.claims) = 0 /\ 0 \in DOMAIN d.claims /\ LastOf(c) \in DOMAIN c.claims
  BY <1>3, SoundEnds
<1>5. Follows(a, b)
  BY <1>4 DEF SoundLog, LastOf
<1>6. d.first = b.id /\ c.last = a.id
  BY <1>3, <1>4 DEF SoundChunk, LastOf
<1>7. a.id \in 0 .. Wrap - 1 /\ b.id \in 0 .. Wrap - 1 /\ b.id = a.id + 1 /\ Wrap \in Nat \ {0}
  <2>1. IsClaim(a) /\ IsClaim(b)
    BY <1>3, <1>4 DEF IsPlace
  <2>. QED  BY <1>5, <2>1, AnalyserAssumption DEF IsClaim, Follows
<1>8. (a.id + 1) % Wrap = b.id
  <2>. HIDE DEF a, b
  <2>1. \A x \in 0 .. Wrap - 1 : x % Wrap = x
    BY <1>7
  <2>. QED  BY <1>7, <2>1
<1>. QED  BY <1>2, <1>5, <1>6, <1>8

LEMMA NoneMade ==
  ASSUME NEW s, DOMAIN s = {}, s = [k \in {} |-> s[k]]
  PROVE  s = <<>>
OBVIOUS

(* Nothing is made of nothing picked.                                       *)
LEMMA NonePicked ==
  /\ \A s : Only(s, {}) = <<>>
  /\ Ascending({}) = <<>>
  /\ DOMAIN <<>> = {}
<1>1. Cardinality({}) = 0
  BY FS_EmptySet
<1>2. 1 .. 0 = {}
  OBVIOUS
<1>3. ASSUME NEW s PROVE Only(s, {}) = <<>>
  <2> DEFINE o == Only(s, {})
  <2>1. DOMAIN o = {} /\ o = [k \in {} |-> o[k]]
    BY <1>1, <1>2 DEF Only
  <2>. HIDE DEF o
  <2>2. o = <<>>
    BY <2>1, NoneMade
  <2>. QED  BY <2>2 DEF o
<1>4. Ascending({}) = <<>>
  <2> DEFINE a == Ascending({})
  <2>1. DOMAIN a = {} /\ a = [k \in {} |-> a[k]]
    BY <1>1, <1>2 DEF Ascending, Arranged
  <2>. HIDE DEF a
  <2>2. a = <<>>
    BY <2>1, NoneMade
  <2>. QED  BY <2>2 DEF a
<1>5. DOMAIN <<>> = {}
  OBVIOUS
<1>. QED  BY <1>3, <1>4, <1>5

LEMMA NoneTwice == <<>> \o <<>> = <<>>
BY EmptySeq, ConcatProperties

(* The walk ends behind the last record.                                    *)
LEMMA WalkedOver ==
  ASSUME NEW c, IsPlace(c), SoundChunk(c), NEW p \in DOMAIN c.claims,
         \A q \in DOMAIN c.claims : q < p + c.claims[p].size
  PROVE  p = LastOf(c)
<1>1. LastOf(c) \in DOMAIN c.claims /\ p <= LastOf(c)
  BY SoundEnds
<1>2. p \in Nat /\ LastOf(c) \in Nat
  BY <1>1, SoundWalk
<1>3. p + c.claims[p].size \in Nat
  BY SoundWalk, NextPosition, AnalyserAssumption
<1>4. ~(p < LastOf(c))
  <2>1. p < LastOf(c) => p + c.claims[p].size <= LastOf(c)
    BY <1>1, SoundWalk
  <2>2. LastOf(c) < p + c.claims[p].size
    BY <1>1
  <2>. QED  BY <1>2, <1>3, <2>1, <2>2
<1>. QED  BY <1>1, <1>2, <1>4

(* One record more that follows the last.                                   *)
LEMMA CountsOn ==
  ASSUME NEW s, IsSequence(s), CountsUp(s), NEW r, r.time > 0, r.id \in Int,
         Len(s) > 0 => s[1].id \in Int /\ r.id = s[Len(s)].id + 1
  PROVE  CountsUp(Append(s, r))
<1> DEFINE t == Append(s, r)
<1>1. /\ Len(s) \in Nat /\ Len(t) = Len(s) + 1
      /\ \A j \in 1 .. Len(s) : t[j] = s[j]
      /\ t[Len(s) + 1] = r
  BY AppendIsSequence
<1>. HIDE DEF t
<1>2. SUFFICES ASSUME NEW k \in 1 .. Len(t) PROVE t[k].id = t[1].id + (k - 1) /\ t[k].time > 0
  BY DEF CountsUp, t
<1>3. CASE k \in 1 .. Len(s)
  <2>1. 1 \in 1 .. Len(s)
    BY <1>1, <1>3
  <2>. QED  BY <1>1, <1>3, <2>1 DEF CountsUp
<1>4. CASE k = Len(s) + 1 /\ Len(s) = 0
  BY <1>1, <1>4
<1>5. CASE k = Len(s) + 1 /\ Len(s) > 0
  <2>1. Len(s) \in 1 .. Len(s) /\ 1 \in 1 .. Len(s) /\ t[1] = s[1] /\ t[k] = r
    BY <1>1, <1>5
  <2>2. s[Len(s)].id = s[1].id + (Len(s) - 1) /\ s[1].id \in Int /\ r.id = s[Len(s)].id + 1
    BY <1>5, <2>1 DEF CountsUp
  <2>3. r.id = s[1].id + (k - 1)
    BY <1>1, <1>5, <2>2
  <2>. QED  BY <2>1, <2>3
<1>. QED  BY <1>1, <1>3, <1>4, <1>5

LEMMA RisesOn ==
  ASSUME NEW s, IsSequence(s), Rising(s), NEW r, Len(s) > 0 => s[Len(s)].time <= r.time
  PROVE  Rising(Append(s, r))
<1> DEFINE t == Append(s, r)
<1>1. /\ Len(s) \in Nat /\ Len(t) = Len(s) + 1
      /\ \A j \in 1 .. Len(s) : t[j] = s[j]
      /\ t[Len(s) + 1] = r
  BY AppendIsSequence
<1>. HIDE DEF t
<1>2. SUFFICES ASSUME NEW k \in 1 .. Len(t) - 1 PROVE t[k].time <= t[k + 1].time
  BY DEF Rising, t
<1>3. CASE k \in 1 .. Len(s) - 1
  <2>1. k \in 1 .. Len(s) /\ k + 1 \in 1 .. Len(s) /\ s[k].time <= s[k + 1].time
    BY <1>1, <1>3 DEF Rising
  <2>. QED  BY <1>1, <2>1
<1>4. CASE k = Len(s) /\ Len(s) > 0
  <2>1. k \in 1 .. Len(s) /\ t[k] = s[Len(s)] /\ t[k + 1] = r
    BY <1>1, <1>4
  <2>. QED  BY <1>4, <2>1
<1>. QED  BY <1>1, <1>3, <1>4

(* The checks of what counts up have nothing to say.                        *)
LEMMA TimesClean ==
  ASSUME NEW rs, IsSequence(rs), Rising(rs), \A k \in 1 .. Len(rs) : rs[k].time \in Nat
  PROVE  TimesChecked(rs) = <<>>
<1> DEFINE P == { k \in 1 .. Len(rs) - 1 : Backwards(rs[k], rs[k + 1]) }
<1>1. Len(rs) \in Nat
  BY SequenceIs
<1>2. ASSUME NEW k \in 1 .. Len(rs) - 1 PROVE ~Backwards(rs[k], rs[k + 1])
  <2>1. rs[k].time <= rs[k + 1].time /\ rs[k].time \in Nat /\ rs[k + 1].time \in Nat
    BY <1>1 DEF Rising
  <2>. QED  BY <2>1 DEF Backwards
<1>3. P = {}
  BY <1>2
<1>. HIDE DEF P
<1>4. DOMAIN Only(Windows(rs), P) = {}
  BY <1>3, NonePicked
<1> DEFINE s == TimesChecked(rs)
<1>5. DOMAIN s = {} /\ s = [k \in {} |-> s[k]]
  BY <1>4 DEF TimesChecked, Map, P
<1>. HIDE DEF s
<1>6. s = <<>>
  BY <1>5, NoneMade
<1>. QED  BY <1>6 DEF s

(* Records that count up are in the order of their ids.                     *)
LEMMA CountsInOrder ==
  ASSUME NEW s, IsSequence(s), CountsUp(s), \A k \in 1 .. Len(s) : s[k].id \in Int
  PROVE  SortedById(s) = s
<1> DEFINE n == Len(s)
           T == { s[k] : k \in DOMAIN s }
           key == [k \in 1 .. n |-> s[k].id]
<1>1. n \in Nat /\ DOMAIN s = 1 .. n /\ s \in Seq(T)
  BY SequenceIs
<1>2. \A k \in 1 .. n : key[k] = s[1].id + (k - 1) /\ s[1].id \in Int
  BY <1>1 DEF CountsUp
<1>3. key \in [1 .. n -> Int] /\ \A j, k \in 1 .. n : (key[j] = key[k] => j = k) /\ (key[j] < key[k] <=> j < k)
  <2>1. key \in [1 .. n -> Int]
    OBVIOUS
  <2>2. ASSUME NEW j \in 1 .. n, NEW k \in 1 .. n PROVE (key[j] = key[k] => j = k) /\ (key[j] < key[k] <=> j < k)
    <3>1. key[j] = s[1].id + (j - 1) /\ key[k] = s[1].id + (k - 1) /\ s[1].id \in Int
      BY <1>2
    <3>. HIDE DEF key, n
    <3>. QED  BY <1>1, <3>1
  <2>. QED  BY <2>1, <2>2
<1>4. SortedById(s) = SortedBy(s, key)
  BY DEF SortedById
<1>. HIDE DEF key, T
<1> DEFINE t == SortedBy(s, key)
<1>5. ASSUME NEW j \in 1 .. n PROVE t[j] = s[j]
  <2>1. Lower(n, key, j) = 1 .. j - 1
    BY <1>1, <1>3 DEF Lower
  <2>2. j - 1 \in Int /\ 1 \in Int /\ j \in Nat \ {0}
    BY <1>1
  <2>3. Cardinality(1 .. j - 1) = j - 1
    BY <2>2, FS_Interval
  <2>4. t[1 + Cardinality(Lower(n, key, j))] = s[j]
    BY <1>1, <1>3, SortedPlace
  <2>5. 1 + (j - 1) = j
    BY <2>2
  <2>. QED  BY <2>1, <2>3, <2>4, <2>5
<1>6. t = [r \in 1 .. n |-> t[r]]
  BY DEF SortedBy
<1>7. s = [r \in 1 .. n |-> s[r]]
  BY <1>1
<1>. HIDE DEF t
<1>8. t = s
  BY <1>5, <1>6, <1>7
<1>. QED  BY <1>4, <1>8 DEF t

LEMMA PhantomsClean ==
  ASSUME IsSequence(all), CountsUp(all), \A k \in 1 .. Len(all) : all[k].id \in Int
  PROVE  PhantomsChecked = <<>>
<1> DEFINE P == { k \in 1 .. Len(all) - 1 : Phantom(all[k], all[k + 1]) }
<1>1. Len(all) \in Nat
  BY SequenceIs
<1>2. ASSUME NEW k \in 1 .. Len(all) - 1 PROVE ~Phantom(all[k], all[k + 1])
  <2>1. k \in 1 .. Len(all) /\ k + 1 \in 1 .. Len(all) /\ 1 \in 1 .. Len(all)
    BY <1>1
  <2>2. all[k].id = all[1].id + (k - 1) /\ all[k + 1].id = all[1].id + k /\ all[1].id \in Int
    BY <2>1 DEF CountsUp
  <2>3. all[k + 1].id - all[k].id - 1 = 0
    BY <2>1, <2>2
  <2>4. 0 % Wrap = 0 /\ ~(2 * 0 >= Wrap)
    BY AnalyserAssumption
  <2>5. Missing(all[k], all[k + 1]) = 0
    BY <2>3, <2>4 DEF Missing
  <2>. QED  BY <2>5 DEF Phantom
<1>3. P = {}
  BY <1>2
<1>. HIDE DEF P
<1>4. DOMAIN Only(Windows(all), P) = {}
  BY <1>3, NonePicked
<1> DEFINE s == PhantomsChecked
<1>5. SortedById(all) = all
  BY CountsInOrder
<1>6. DOMAIN s = {} /\ s = [k \in {} |-> s[k]]
  BY <1>4, <1>5 DEF PhantomsChecked, Map, P
<1>. HIDE DEF s
<1>7. s = <<>>
  BY <1>6, NoneMade
<1>. QED  BY <1>7 DEF s

LEMMA ExportClean ==
  ASSUME IsSequence(all), CountsUp(all), \A k \in 1 .. Len(all) : all[k].time \in Nat
  PROVE  ExportChecked = <<>>
<1> DEFINE P == { k \in 1 .. Len(all) : all[k].time = 0 }
<1>1. P = {}
  BY DEF CountsUp
<1>. HIDE DEF P
<1>2. DOMAIN Only(all, P) = {}
  BY <1>1, NonePicked
<1> DEFINE s == ExportChecked
<1>3. DOMAIN s = {} /\ s = [k \in {} |-> s[k]]
  BY <1>2 DEF ExportChecked, Map, P
<1>. HIDE DEF s
<1>4. s = <<>>
  BY <1>3, NoneMade
<1>. QED  BY <1>4 DEF s

(* All places of a sound log have been read.                                *)
LEMMA ReadAll ==
  ASSUME IsFile(file), IsSequence(chunks), Len(chunks) = Len(file.places),
         \A k \in 1 .. Len(chunks) : chunks[k] = k
  PROVE  Len(Read) = Len(file.places) /\ \A k \in 1 .. Len(file.places) : Read[k] = file.places[k]
<1>1. Len(Read) = Len(chunks) /\ DOMAIN chunks = 1 .. Len(chunks)
  BY ReadIs, SequenceIs
<1>. QED  BY <1>1 DEF Read, Map

LEMMA GapsClean ==
  ASSUME IsFile(file), SoundLog(file), IsSequence(chunks), Len(chunks) = Len(file.places),
         \A k \in 1 .. Len(chunks) : chunks[k] = k
  PROVE  GapsChecked = <<>>
<1> DEFINE P == { k \in 1 .. Len(Read) - 1 : Read[k + 1].first # (Read[k].last + 1) % Wrap }
<1>1. Len(Read) = Len(file.places) /\ \A k \in 1 .. Len(file.places) : Read[k] = file.places[k]
  BY ReadAll
<1>2. P = {}
  BY <1>1, SoundStep
<1>. HIDE DEF P
<1>3. DOMAIN Only(Windows(Read), P) = {}
  BY <1>2, NonePicked
<1> DEFINE s == GapsChecked
<1>4. DOMAIN s = {} /\ s = [k \in {} |-> s[k]]
  BY <1>3 DEF GapsChecked, Map, P
<1>. HIDE DEF s
<1>5. s = <<>>
  BY <1>4, NoneMade
<1>. QED  BY <1>5 DEF s

LEMMA GuidsClean ==
  ASSUME IsFile(file), SoundLog(file), IsSequence(chunks), Len(chunks) = Len(file.places),
         \A k \in 1 .. Len(chunks) : chunks[k] = k
  PROVE  GuidsChecked = <<>>
<1> DEFINE P == { k \in 1 .. Len(Read) : Read[k].guid # Read[1].guid }
<1>1. Len(Read) = Len(file.places) /\ \A k \in 1 .. Len(file.places) : Read[k] = file.places[k]
  BY ReadAll
<1>2. DOMAIN file.places = 1 .. Len(file.places) /\ Len(file.places) \in Nat
  BY SequenceIs DEF IsFile
<1>3. ASSUME NEW k \in 1 .. Len(Read) PROVE Read[k].guid = Read[1].guid
  <2>1. k \in DOMAIN file.places /\ 1 \in 1 .. Len(file.places)
    BY <1>1, <1>2
  <2>2. file.places[k].guid = file.places[1].guid
    BY <2>1 DEF SoundLog
  <2>. QED  BY <1>1, <1>2, <2>1, <2>2
<1>4. P = {}
  BY <1>3
<1>. HIDE DEF P
<1>5. DOMAIN Ascending(P) = {}
  BY <1>4, NonePicked
<1> DEFINE s == GuidsChecked
<1>6. DOMAIN s = {} /\ s = [k \in {} |-> s[k]]
  BY <1>5 DEF GuidsChecked, Map, P
<1>. HIDE DEF s
<1>7. s = <<>>
  BY <1>6, NoneMade
<1>. QED  BY <1>7 DEF s

LEMMA HeaderClean ==
  ASSUME IsFile(file), SoundLog(file), IsSequence(chunks), Len(chunks) = Len(file.places),
         \A k \in 1 .. Len(chunks) : chunks[k] = k
  PROVE  HeaderChecked = <<>>
<1> DEFINE S == {0} \cup { file.places[chunks[k]].lastId : k \in DOMAIN chunks }
<1>1. /\ DOMAIN chunks = 1 .. Len(file.places) /\ DOMAIN file.places = 1 .. Len(file.places)
      /\ Len(file.places) \in Nat
  BY SequenceIs DEF IsFile
<1>2. \A k \in DOMAIN chunks : chunks[k] = k
  BY <1>1
<1>3. ASSUME NEW k \in 1 .. Len(file.places)
      PROVE  file.places[k].lastId \in 0 .. Wrap - 1 /\ file.places[k].lastId < file.next
  <2>1. IsPlace(file.places[k])
    BY PlaceAt
  <2>2. file.places[k].lastId < file.next
    BY <1>1 DEF SoundLog
  <2>. QED  BY <2>1, <2>2 DEF IsPlace
<1>4. file.next \in Nat /\ Wrap - 1 \in Nat
  BY AnalyserAssumption DEF IsFile
<1>5. 0 < file.next
  <2>1. Len(file.places) > 0
    BY DEF SoundLog
  <2>2. 1 \in 1 .. Len(file.places)
    BY <1>1, <2>1
  <2>. QED  BY <1>3, <1>4, <2>2
<1>6. S \subseteq 0 .. Wrap - 1 /\ \A x \in S : x < file.next
  BY <1>1, <1>2, <1>3, <1>4, <1>5
<1>7. 0 \in S
  OBVIOUS
<1>8. HighestId = Max(S)
  BY DEF HighestId
<1>. HIDE DEF S
<1>9. Max(S) \in S
  <2>1. PICK x \in S : \A y \in S : y <= x
    BY <1>4, <1>6, <1>7, GreatestNat
  <2>2. \E z \in S : \A y \in S : z >= y
    BY <1>6, <2>1
  <2>. QED  BY <2>2 DEF Max
<1>10. file.next > HighestId
  BY <1>4, <1>6, <1>8, <1>9
<1>11. file.count = Len(chunks) /\ file.header
  BY DEF SoundLog
<1>12. Unless(file.next > HighestId, "next id", <<file.next, HighestId>>) = <<>>
  BY <1>10 DEF Unless
<1>13. Unless(file.count = Len(chunks), "count", <<file.count, Len(chunks)>>) = <<>>
  BY <1>11 DEF Unless
<1>. QED  BY <1>11, <1>12, <1>13, NoneTwice DEF HeaderChecked

LEMMA DeletionsClean ==
  ASSUME NEW c, IsPlace(c), SoundChunk(c), NEW n
  PROVE  Deletions(c, n) = <<>>
<1> DEFINE P == { p \in Visited(c) : Ghosts(c, p) # {} }
<1>1. P = {}
  BY SoundWalk DEF SoundChunk
<1>. HIDE DEF P
<1>2. DOMAIN Ascending(P) = {}
  BY <1>1, NonePicked
<1> DEFINE s == Deletions(c, n)
<1>3. DOMAIN s = {} /\ s = [k \in {} |-> s[k]]
  BY <1>2 DEF Deletions, Map, P
<1>. HIDE DEF s
<1>4. s = <<>>
  BY <1>3, NoneMade
<1>. QED  BY <1>4 DEF s

LEMMA RankedClean == Ranked(<<>>) = <<>>
<1>1. Len(<<>>) = 0 /\ 1 .. 0 = {}
  BY NoneIsSequence
<1>2. Distinct(<<>>) = <<>>
  BY <1>1, NonePicked DEF Distinct
<1>3. \A kinds : Of(<<>>, kinds) = <<>>
  BY <1>1, NonePicked DEF Of
<1>. QED  BY <1>2, <1>3, NoneTwice DEF Ranked

(* The place looked at.                                                     *)
LEMMA AtPlace ==
  ASSUME AnalyserInv, SoundLog(file), pc \in {"chunks", "records"}, i <= Len(file.places)
  PROVE  /\ IsFile(file) /\ Len(file.places) \in Nat /\ i \in 1 .. Len(file.places)
         /\ Chunk = file.places[i] /\ IsPlace(Chunk) /\ SoundChunk(Chunk)
<1>1. IsFile(file) /\ i \in Nat \ {0}
  BY DEF AnalyserInv, AnalyserTypeInv
<1>2. Len(file.places) \in Nat
  BY <1>1, SequenceIs DEF IsFile
<1>3. i \in 1 .. Len(file.places)
  BY <1>1, <1>2
<1>. QED  BY <1>1, <1>2, <1>3, PlaceOf DEF Chunk

(* What is read next follows what has been read.                            *)
LEMMA NextFollows ==
  ASSUME AnalyserInv, CleanInv, SoundLog(file), ReadRecord, Len(all) > 0
  PROVE  all[Len(all)].id + 1 = Chunk.claims[pos].id /\ all[Len(all)].time <= Chunk.claims[pos].time
<1> DEFINE l == all[Len(all)]
<1>1. /\ pc = "records" /\ Readable(Chunk, pos) /\ pos \in DOMAIN Chunk.claims
      /\ i <= Len(file.places)
  BY DEF ReadRecord, Readable, AnalyserInv, AnalyserTypeInv
<1>2. /\ IsFile(file) /\ Len(file.places) \in Nat /\ i \in 1 .. Len(file.places)
      /\ Chunk = file.places[i] /\ IsPlace(Chunk) /\ SoundChunk(Chunk)
  BY <1>1, AtPlace
<1>3. IsRecord(file, l)
  <2>1. Len(all) \in 1 .. Len(all)
    BY SequenceIs DEF AnalyserInv, AnalyserTypeInv
  <2>. QED  BY <2>1 DEF AnalyserInv, AnalyserTypeInv
<1>4. SUFFICES Follows(file.places[l.chunk].claims[l.pos], Chunk.claims[pos])
  BY <1>3 DEF Follows, IsRecord
<1>5. CASE pos = 0 /\ EndsWith(file, all, i - 1)
  <2>1. i - 1 \in 1 .. Len(file.places) - 1 /\ l.chunk = i - 1 /\ l.pos = LastOf(file.places[i - 1])
    BY <1>2, <1>5 DEF EndsWith
  <2>2. (i - 1) + 1 = i
    BY <1>2
  <2>. QED  BY <1>2, <1>5, <2>1, <2>2, SoundStep
<1>6. CASE EndsBefore(file, all, i, pos)
  <2>1. l.chunk = i /\ l.pos + Chunk.claims[l.pos].size = pos
    BY <1>2, <1>6 DEF EndsBefore
  <2>2. l.pos \in DOMAIN Chunk.claims
    BY <1>2, <1>3, <2>1 DEF IsRecord
  <2>. QED  BY <1>1, <1>2, <2>1, <2>2 DEF SoundChunk
<1>. QED  BY <1>1, <1>5, <1>6 DEF CleanInv

LEMMA ReadHeaderClean == AnalyserInv /\ SoundInv /\ ReadHeader => SoundInv'
<1> SUFFICES ASSUME AnalyserInv, SoundInv, ReadHeader, SoundLog(file)' PROVE CleanInv'
  BY DEF SoundInv
<1>1. SoundLog(file) /\ CleanInv
  BY DEF SoundInv, ReadHeader
<1>2. file.sumOk /\ ~file.dirty /\ ~file.full /\ file.count # 0
  <2>1. file.count > 0 /\ file.count \in Nat
    BY <1>1 DEF SoundLog, AnalyserInv, AnalyserTypeInv, IsFile
  <2>. QED  BY <1>1, <2>1 DEF SoundLog
<1>3. out' = <<>>
  BY <1>2, NoneTwice DEF ReadHeader, Unless
<1>. QED  BY <1>1, <1>3 DEF CleanInv, ReadHeader

LEMMA ReadChunkClean == AnalyserInv /\ SoundInv /\ ReadChunk => SoundInv'
<1> SUFFICES ASSUME AnalyserInv, SoundInv, ReadChunk, SoundLog(file)' PROVE CleanInv'
  BY DEF SoundInv
<1>1. SoundLog(file) /\ CleanInv
  BY DEF SoundInv, ReadChunk
<1>2. pc = "chunks" /\ i <= Len(file.places)
  BY DEF ReadChunk, More
<1>3. IsPlace(Chunk) /\ SoundChunk(Chunk)
  BY <1>1, <1>2, AtPlace
<1>4. out' = <<>>
  <2>1. Deletions(Chunk, i) = <<>>
    BY <1>3, DeletionsClean
  <2>2. Chunk.headerOk /\ Chunk.areaOk
    BY <1>3 DEF SoundChunk
  <2>3. Chunk.free >= 0
    BY <1>3, SoundWalk, NextPosition DEF Readable, IsPlace
  <2>4. Unless(Chunk.headerOk, "header checksum", i) = <<>>
    BY <2>2 DEF Unless
  <2>5. Unless(Chunk.free < 0 \/ Chunk.areaOk, "area checksum", i) = <<>>
    BY <2>2 DEF Unless
  <2>6. LengthChecked(Chunk) = <<>>
    BY <2>3 DEF Unless, LengthChecked
  <2>7. out = <<>>
    BY <1>1 DEF CleanInv
  <2>. QED  BY <2>1, <2>4, <2>5, <2>6, <2>7, NoneTwice DEF ReadChunk
<1>5. /\ recs' = <<>> /\ pos' = 0 /\ pc' = "records"
      /\ file' = file /\ i' = i /\ all' = all /\ chunks' = chunks /\ Chunk' = Chunk
  BY DEF ReadChunk, NoRecords, Chunk
<1>6. Rising(recs') /\ Len(recs') = 0
  BY <1>5, NoneIsSequence DEF Rising
<1>7. \A q \in DOMAIN Chunk.claims : q \in VisitedFrom(Chunk)[0]
  BY <1>3 DEF SoundChunk, Visited
<1>8. EndsWith(file, all, i - 1) /\ Len(chunks) = i - 1 /\ i <= Len(file.places) + 1
  BY <1>1, <1>2 DEF CleanInv
<1>. QED  BY <1>1, <1>4, <1>5, <1>6, <1>7, <1>8 DEF CleanInv

LEMMA ReadRecordClean == AnalyserInv /\ SoundInv /\ ReadRecord => SoundInv'
<1> SUFFICES ASSUME AnalyserInv, SoundInv, ReadRecord, SoundLog(file)' PROVE CleanInv'
  BY DEF SoundInv
<1> DEFINE r == [chunk |-> i, pos |-> pos, id |-> Chunk.claims[pos].id, time |-> Chunk.claims[pos].time]
           next == pos + Chunk.claims[pos].size
<1>1. SoundLog(file) /\ CleanInv
  BY DEF SoundInv, ReadRecord
<1>2. /\ pc = "records" /\ Readable(Chunk, pos) /\ pos \in DOMAIN Chunk.claims
      /\ i <= Len(file.places) /\ IsSequence(recs) /\ IsSequence(all) /\ pos \in 0 .. Area
  BY DEF ReadRecord, Readable, AnalyserInv, AnalyserTypeInv
<1>3. IsPlace(Chunk) /\ SoundChunk(Chunk) /\ Chunk = file.places[i]
  BY <1>1, <1>2, AtPlace
<1>4. /\ recs' = Append(recs, r) /\ all' = Append(all, r) /\ pos' = next
      /\ file' = file /\ pc' = pc /\ i' = i /\ chunks' = chunks /\ out' = out /\ Chunk' = Chunk
  BY DEF ReadRecord, Chunk
<1>5. /\ r.chunk = i /\ r.pos = pos /\ r.id = Chunk.claims[pos].id /\ r.time = Chunk.claims[pos].time
      /\ r.time > 0 /\ r.id \in Int /\ r.time \in Nat
  <2>1. IsClaim(Chunk.claims[pos]) /\ Chunk.claims[pos].time > 0
    BY <1>2, <1>3 DEF SoundChunk, IsPlace
  <2>2. Chunk.claims[pos].id \in Int /\ Chunk.claims[pos].time \in Nat
    BY <2>1, AnalyserAssumption DEF IsClaim
  <2>. QED  BY <2>1, <2>2
<1>6. next \in 0 .. Area /\ pos < next /\ pos + Chunk.claims[r.pos].size = next
  BY <1>2, <1>3, NextPosition
<1>. HIDE DEF r, next
<1>7. Len(all) > 0 => all[Len(all)].id + 1 = r.id /\ all[Len(all)].time <= r.time
  BY <1>1, <1>5, NextFollows
<1>8. CountsUp(all')
  <2>1. Len(all) > 0 => all[1].id \in Int
    <3>1. ASSUME Len(all) > 0 PROVE all[1].id \in Int
      <4>1. 1 \in 1 .. Len(all)
        BY <1>2, <3>1, SequenceIs
      <4>2. IsRecord(file, all[1]) /\ IsFile(file)
        BY <4>1 DEF AnalyserInv, AnalyserTypeInv
      <4>. QED  BY <4>2, RecordTyped
    <3>. QED  BY <3>1
  <2>2. CountsUp(all)
    BY <1>1 DEF CleanInv
  <2>3. Len(all) > 0 => all[1].id \in Int /\ r.id = all[Len(all)].id + 1
    BY <1>7, <2>1
  <2>. QED  BY <1>2, <1>4, <1>5, <2>2, <2>3, CountsOn
<1>9. Rising(recs')
  <2>1. Rising(recs) /\ (Len(recs) > 0 => Len(all) > 0 /\ recs[Len(recs)] = all[Len(all)])
    <3>1. /\ Rising(recs)
          /\ Len(recs) = 0 \/ (Len(recs) > 0 /\ EndsBefore(file, all, i, pos) /\ recs[Len(recs)] = all[Len(all)])
      BY <1>1, <1>2 DEF CleanInv
    <3>. QED  BY <3>1 DEF EndsBefore
  <2>. QED  BY <1>2, <1>4, <1>7, <2>1, RisesOn
<1>10. /\ Len(recs') > 0 /\ Len(all') > 0
       /\ recs'[Len(recs')] = r /\ all'[Len(all')] = r
  <2>1. Len(recs) \in Nat /\ Len(recs') = Len(recs) + 1 /\ recs'[Len(recs) + 1] = r
    BY <1>2, <1>4, AppendIsSequence
  <2>2. Len(all) \in Nat /\ Len(all') = Len(all) + 1 /\ all'[Len(all) + 1] = r
    BY <1>2, <1>4, AppendIsSequence
  <2>. QED  BY <2>1, <2>2
<1>11. EndsBefore(file', all', i', pos')
  BY <1>3, <1>4, <1>5, <1>6, <1>10 DEF EndsBefore
<1>12. \A q \in DOMAIN Chunk'.claims : q < pos' \/ q \in VisitedFrom(Chunk')[pos']
  <2>1. VisitedFrom(Chunk)[pos] = {pos} \cup VisitedFrom(Chunk)[next]
    BY <1>2, <1>3, VisitedStep DEF next
  <2>2. \A q \in DOMAIN Chunk.claims : q < pos \/ q \in VisitedFrom(Chunk)[pos]
    BY <1>1, <1>2 DEF CleanInv
  <2>3. \A q \in DOMAIN Chunk.claims : q \in Nat
    BY <1>3, SoundWalk
  <2>4. \A q \in DOMAIN Chunk.claims : q < next \/ q \in VisitedFrom(Chunk)[next]
    BY <1>2, <1>6, <2>1, <2>2, <2>3
  <2>. QED  BY <1>4, <2>4
<1>. QED  BY <1>1, <1>2, <1>4, <1>8, <1>9, <1>10, <1>11, <1>12 DEF CleanInv

LEMMA EndOfRecordsClean == AnalyserInv /\ SoundInv /\ EndOfRecords => SoundInv'
<1> SUFFICES ASSUME AnalyserInv, SoundInv, EndOfRecords, SoundLog(file)' PROVE CleanInv'
  BY DEF SoundInv
<1>1. SoundLog(file) /\ CleanInv
  BY DEF SoundInv, EndOfRecords
<1>2. /\ pc = "records" /\ ~Readable(Chunk, pos) /\ i <= Len(file.places) /\ pos \in 0 .. Area
      /\ IsSequence(recs) /\ IsSequence(all) /\ IsSequence(chunks)
  BY DEF EndOfRecords, AnalyserInv, AnalyserTypeInv
<1>3. /\ IsFile(file) /\ Len(file.places) \in Nat /\ i \in 1 .. Len(file.places)
      /\ Chunk = file.places[i] /\ IsPlace(Chunk) /\ SoundChunk(Chunk)
  BY <1>1, <1>2, AtPlace
<1>4. \A q \in DOMAIN Chunk.claims : q < pos
  BY <1>1, <1>2, <1>3, VisitedStep DEF CleanInv
<1>5. EndsBefore(file, all, i, pos)
  <2>1. pos # 0
    BY <1>2, <1>3, SoundWalk
  <2>. QED  BY <1>1, <1>2, <2>1 DEF CleanInv
<1>6. EndsWith(file, all, i)
  <2> DEFINE l == all[Len(all)]
  <2>1. Len(all) > 0 /\ l.chunk = i /\ l.pos + Chunk.claims[l.pos].size = pos
    BY <1>3, <1>5 DEF EndsBefore
  <2>2. l.pos \in DOMAIN Chunk.claims
    <3>1. Len(all) \in 1 .. Len(all)
      BY <1>2, <2>1, SequenceIs
    <3>2. IsRecord(file, l)
      BY <3>1 DEF AnalyserInv, AnalyserTypeInv
    <3>. QED  BY <1>3, <2>1, <3>2 DEF IsRecord
  <2>3. l.pos = LastOf(Chunk)
    BY <1>3, <1>4, <2>1, <2>2, WalkedOver
  <2>. QED  BY <1>3, <2>1, <2>3 DEF EndsWith
<1>7. out' = <<>>
  <2>1. \A k \in 1 .. Len(recs) : recs[k].time \in Nat
    <3> SUFFICES ASSUME NEW k \in 1 .. Len(recs) PROVE recs[k].time \in Nat
      OBVIOUS
    <3>1. IsRecord(file, recs[k])
      BY DEF AnalyserInv, AnalyserTypeInv
    <3>. QED  BY <1>3, <3>1, RecordTyped
  <2>2. Rising(recs) /\ out = <<>>
    BY <1>1, <1>2 DEF CleanInv
  <2>3. TimesChecked(recs) = <<>>
    BY <1>2, <2>1, <2>2, TimesClean
  <2>. QED  BY <2>2, <2>3, NoneTwice DEF EndOfRecords
<1>8. /\ Len(chunks') = i /\ \A k \in 1 .. Len(chunks') : chunks'[k] = k
  <2>1. Len(chunks) = i - 1 /\ \A k \in 1 .. Len(chunks) : chunks[k] = k
    BY <1>1, <1>2 DEF CleanInv
  <2>2. /\ Len(chunks') = Len(chunks) + 1
        /\ \A k \in 1 .. Len(chunks) : chunks'[k] = chunks[k]
        /\ chunks'[Len(chunks) + 1] = i
    BY <1>2, AppendIsSequence DEF EndOfRecords
  <2>3. Len(chunks') = i /\ chunks'[i] = i
    BY <1>3, <2>1, <2>2
  <2>4. ASSUME NEW k \in 1 .. i PROVE chunks'[k] = k
    <3>1. k = i \/ k \in 1 .. Len(chunks)
      BY <1>3, <2>1
    <3>. QED  BY <2>1, <2>2, <2>3, <3>1
  <2>. QED  BY <2>3, <2>4
<1>9. i' - 1 = i /\ i' <= Len(file.places) + 1 /\ pc' = "chunks" /\ file' = file /\ all' = all
  BY <1>3 DEF EndOfRecords
<1>. QED  BY <1>1, <1>6, <1>7, <1>8, <1>9 DEF CleanInv

LEMMA CrossChecksClean == AnalyserInv /\ SoundInv /\ CrossChecks => SoundInv'
<1> SUFFICES ASSUME AnalyserInv, SoundInv, CrossChecks, SoundLog(file)' PROVE CleanInv'
  BY DEF SoundInv
<1>1. SoundLog(file) /\ CleanInv
  BY DEF SoundInv, CrossChecks
<1>2. /\ IsFile(file) /\ IsSequence(chunks) /\ Len(chunks) = Len(file.places)
      /\ \A k \in 1 .. Len(chunks) : chunks[k] = k
  BY <1>1 DEF CleanInv, CrossChecks, AnalyserInv, AnalyserTypeInv
<1>3. /\ IsSequence(all) /\ CountsUp(all)
      /\ \A k \in 1 .. Len(all) : all[k].id \in Int /\ all[k].time \in Nat
  <2>1. ASSUME NEW k \in 1 .. Len(all) PROVE all[k].id \in Int /\ all[k].time \in Nat
    <3>1. IsRecord(file, all[k])
      BY DEF AnalyserInv, AnalyserTypeInv
    <3>. QED  BY <1>2, <3>1, RecordTyped
  <2>. QED  BY <1>1, <2>1 DEF CleanInv, AnalyserInv, AnalyserTypeInv
<1>4. out' = <<>>
  <2>1. GapsChecked = <<>> /\ HeaderChecked = <<>> /\ GuidsChecked = <<>>
    BY <1>1, <1>2, GapsClean, HeaderClean, GuidsClean
  <2>2. ExportChecked = <<>> /\ PhantomsChecked = <<>>
    BY <1>3, ExportClean, PhantomsClean
  <2>3. out = <<>>
    BY <1>1 DEF CleanInv
  <2>. QED  BY <2>1, <2>2, <2>3, NoneTwice DEF CrossChecks
<1>. QED  BY <1>1, <1>2, <1>4 DEF CleanInv, CrossChecks

(* Nothing is said against a sound log.                                     *)
THEOREM SoundLogsAreClean == Spec => []SoundIsClean
<1> DEFINE Inv == AnalyserInv /\ SoundInv
<1>1. Init => SoundInv
  <2> SUFFICES ASSUME Init, SoundLog(file) PROVE CleanInv
    BY DEF SoundInv
  <2>1. Len(<<>>) = 0 /\ Len(file.places) \in Nat
    BY NoneIsSequence, SequenceIs DEF Init, IsFile
  <2>. QED  BY <2>1 DEF Init, CleanInv, CountsUp, EndsWith
<1>2. Inv /\ [Next]_vars => Inv'
  <2> SUFFICES ASSUME AnalyserInv, SoundInv, [Next]_vars PROVE SoundInv'
    BY AnalyserKept
  <2>1. CASE TooShort
    BY <2>1 DEF SoundInv, SoundLog, TooShort
  <2>2. CASE PassOver
    <3>1. SoundLog(file) => SoundChunk(Chunk)
      BY <2>2, AtPlace DEF PassOver, More
    <3>2. ~SoundLog(file)
      BY <2>2, <3>1 DEF PassOver, SoundChunk
    <3>. QED  BY <2>2, <3>2 DEF SoundInv, PassOver
  <2>3. CASE CutOff
    <3>1. SoundLog(file) => SoundChunk(Chunk)
      BY <2>3, AtPlace DEF CutOff, More
    <3>2. ~SoundLog(file)
      BY <2>3, <3>1 DEF CutOff, SoundChunk
    <3>. QED  BY <2>3, <3>2 DEF SoundInv, CutOff
  <2>4. CASE EndOfFile
    <3>1. i \in Nat /\ Len(file.places) \in Nat
      BY SequenceIs DEF AnalyserInv, AnalyserTypeInv, IsFile
    <3>2. i <= Len(file.places) + 1 => i - 1 = Len(file.places)
      BY <2>4, <3>1 DEF EndOfFile
    <3>. QED  BY <2>4, <3>2 DEF SoundInv, CleanInv, EndOfFile
  <2>5. CASE Rank
    BY <2>5, RankedClean DEF SoundInv, CleanInv, Rank
  <2>6. CASE UNCHANGED vars
    BY <2>6 DEF vars, SoundInv, CleanInv, Chunk
  <2>. QED  BY <2>1, <2>2, <2>3, <2>4, <2>5, <2>6, ReadHeaderClean, ReadChunkClean, ReadRecordClean,
               EndOfRecordsClean, CrossChecksClean DEF Next
<1>3. Inv => SoundIsClean
  BY DEF SoundInv, CleanInv, SoundIsClean
<1>4. Init => Inv
  BY <1>1, InitHolds
<1>. QED  BY <1>2, <1>3, <1>4, PTL DEF Spec

-----------------------------------------------------------------------------
(* The provider of an event.                                                *)

HeuristicsSpec == HeuristicsInit /\ [][CheckProvider]_heuristics

\* What is told of an event is what the checks say of it.
ToldInv ==
  /\ subject.name \in Names \cup {"unknown"}
  /\ told = <<>> \/ told = <<CheckProviderConsistency(subject)>>

LEMMA NothingTold ==
  ASSUME NEW e, CheckProviderConsistency(e) = {}
  PROVE  ~GuidSpoofing(e) /\ ~UnexpectedEventId(e) /\ ~ChannelMismatch(e)
<1>1. ASSUME GuidSpoofing(e) PROVE FALSE
  <2>1. "GuidSpoofing" \in CheckProviderConsistency(e)
    BY <1>1 DEF CheckProviderConsistency
  <2>. QED  BY <2>1
<1>2. ASSUME UnexpectedEventId(e) PROVE FALSE
  <2>1. "UnexpectedEventId" \in CheckProviderConsistency(e)
    BY <1>2 DEF CheckProviderConsistency
  <2>. QED  BY <2>1
<1>3. ASSUME ChannelMismatch(e) PROVE FALSE
  <2>1. "ChannelMismatch" \in CheckProviderConsistency(e)
    BY <1>3 DEF CheckProviderConsistency
  <2>. QED  BY <2>1
<1>. QED  BY <1>1, <1>2, <1>3

LEMMA NothingToTell ==
  ASSUME NEW e, ~GuidSpoofing(e), ~UnexpectedEventId(e), ~ChannelMismatch(e)
  PROVE  CheckProviderConsistency(e) = {}
<1>1. ASSUME NEW a \in CheckProviderConsistency(e) PROVE FALSE
  <2>1. CASE a = "GuidSpoofing"
    BY <1>1, <2>1 DEF CheckProviderConsistency
  <2>2. CASE a = "UnexpectedEventId"
    BY <1>1, <2>2 DEF CheckProviderConsistency
  <2>3. CASE a = "ChannelMismatch"
    BY <1>1, <2>3 DEF CheckProviderConsistency
  <2>. QED  BY <1>1, <2>1, <2>2, <2>3 DEF CheckProviderConsistency
<1>. QED  BY <1>1

(* An event that nothing is told of and that bears a known guid is one that *)
(* its provider logs, and a known name is that provider's.                  *)
LEMMA OwnGuid ==
  ASSUME NEW e, CheckProviderConsistency(e) = {}, e.name \in Names \cup {"unknown"},
         NEW p \in KnownProviders, e.guid = p.guid
  PROVE  Logs(p, e) /\ e.name \in {p.name, "unknown"}
<1>1. ~GuidSpoofing(e) /\ ~UnexpectedEventId(e) /\ ~ChannelMismatch(e)
  BY NothingTold
<1>2. p \in ByGuid(e)
  BY DEF ByGuid
<1>3. Logs(p, e)
  BY <1>1, <1>2 DEF UnexpectedEventId, ChannelMismatch, Logs
<1>4. ASSUME NEW q \in KnownProviders, q.name = e.name PROVE q = p
  <2>1. q \in ByName(e)
    BY <1>4 DEF ByName
  <2>2. e.guid \in {NoGuid, q.guid}
    BY <1>1, <2>1 DEF GuidSpoofing
  <2>3. e.guid = q.guid
    BY <2>2, ProviderAssumption
  <2>. QED  BY <2>3, ProviderAssumption
<1>5. e.name \in {p.name, "unknown"}
  BY <1>4 DEF Names
<1>. QED  BY <1>3, <1>5

LEMMA OwnName ==
  ASSUME NEW e, CheckProviderConsistency(e) = {}, NEW p \in KnownProviders, e.name = p.name
  PROVE  e.guid \in {p.guid, NoGuid}
<1>1. ~GuidSpoofing(e) /\ p \in ByName(e)
  BY NothingTold DEF ByName
<1>. QED  BY <1>1 DEF GuidSpoofing

(* What a provider logs is its own, by its guid and by its name.            *)
LEMMA OwnEvent ==
  ASSUME NEW e, NEW p \in KnownProviders, Logs(p, e), e.name = p.name, e.guid \in {p.guid, NoGuid}
  PROVE  CheckProviderConsistency(e) = {}
<1>1. \A q \in ByName(e) : q = p
  BY ProviderAssumption DEF ByName
<1>2. \A q \in ByGuid(e) : q = p
  BY ProviderAssumption DEF ByGuid
<1>3. ~GuidSpoofing(e)
  BY <1>1 DEF GuidSpoofing
<1>4. ~UnexpectedEventId(e) /\ ~ChannelMismatch(e)
  BY <1>2 DEF UnexpectedEventId, ChannelMismatch, Logs
<1>. QED  BY <1>3, <1>4, NothingToTell

(* No event passes for one of a known provider, and what a provider logs is *)
(* never told.                                                              *)
THEOREM ForgeriesAreTold == HeuristicsSpec => []ForgeriesTold
<1>1. HeuristicsInit => ToldInv
  BY DEF HeuristicsInit, ToldInv
<1>2. ToldInv /\ [CheckProvider]_heuristics => ToldInv'
  BY DEF ToldInv, CheckProvider, heuristics
<1>3. ToldInv => ForgeriesTold
  <2> SUFFICES ASSUME ToldInv, told # <<>>, NEW p \in KnownProviders
               PROVE  /\ told[1] = {} /\ subject.guid = p.guid
                           => Logs(p, subject) /\ subject.name \in {p.name, "unknown"}
                      /\ told[1] = {} /\ subject.name = p.name => subject.guid \in {p.guid, NoGuid}
                      /\ Logs(p, subject) /\ subject.name = p.name /\ subject.guid \in {p.guid, NoGuid}
                           => told[1] = {}
    BY DEF ForgeriesTold
  <2>1. told[1] = CheckProviderConsistency(subject) /\ subject.name \in Names \cup {"unknown"}
    BY DEF ToldInv
  <2>. QED  BY <2>1, OwnGuid, OwnName, OwnEvent
<1>. QED  BY <1>1, <1>2, <1>3, PTL DEF HeuristicsSpec
=============================================================================
