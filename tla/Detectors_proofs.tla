--------------------------- MODULE Detectors_proofs ---------------------------
(***************************************************************************)
(* Proofs about the sweep for clusters, for every list of matches, every   *)
(* window and every threshold; about detect_all for every slice; and about *)
(* the check of the trace sessions.                                        *)
(***************************************************************************)
EXTENDS Detectors, CommonLemmas

Sorted == \A a, b \in Matches : a <= b => times[a] <= times[b]

\* Nothing behind a window is within Window of its first match.
WindowsAreWhole ==
  \A k \in DOMAIN windows : \A m \in Matches :
    windows[k].last < m => times[windows[k].first] + Window < times[m]

\* Behind the cursor nothing is left open, and no window reaches up to it.
SweepInv ==
  /\ SweepTypeOK
  /\ Sorted
  /\ ClustersReported
  /\ ReportsApart
  /\ WindowsAreWhole
  /\ \A k \in DOMAIN windows : windows[k].last < i

(* The last match of a window exists: take_while over a sorted list stops  *)
(* at the last match that is within Window.                                *)
LEMMA LastOfWindow ==
  ASSUME SweepTypeOK, NEW j \in Matches
  PROVE  /\ LastOf(j) \in WindowAt(j)
         /\ \A n \in WindowAt(j) : n <= LastOf(j)
<1>1. Len(times) \in Nat /\ Matches = 1 .. Len(times) /\ times[j] \in Int
  BY LenProperties, ElementOfSeq DEF SweepTypeOK, Matches
<1>2. j \in WindowAt(j)
  BY <1>1, WindowAssumption DEF WindowAt
<1>3. WindowAt(j) \subseteq 0 .. Len(times)
  BY <1>1 DEF WindowAt
<1>4. \E m \in WindowAt(j) : \A n \in WindowAt(j) : n <= m
  BY <1>1, <1>2, <1>3, GreatestNat
<1>. QED  BY <1>4 DEF LastOf

(* A window that holds enough matches is a cluster.                        *)
LEMMA ClusteredIsCluster ==
  ASSUME SweepTypeOK, NEW j \in Matches, Clustered(j)
  PROVE  LastOf(j) \in Matches /\ j <= LastOf(j) /\ IsCluster(j, LastOf(j))
<1>1. Len(times) \in Nat /\ Matches = 1 .. Len(times) /\ \A m \in Matches : times[m] \in Int
  BY LenProperties, ElementOfSeq DEF SweepTypeOK, Matches
<1>2. LastOf(j) \in WindowAt(j)
  BY LastOfWindow
<1>3. LastOf(j) \in j .. Len(times) /\ times[LastOf(j)] <= times[j] + Window
  BY <1>2 DEF WindowAt
<1>4. LastOf(j) \in Matches /\ j <= LastOf(j)
  BY <1>1, <1>3
<1>5. /\ j \in Int /\ LastOf(j) \in Int /\ least \in Int /\ Window \in Int
      /\ times[j] \in Int /\ times[LastOf(j)] \in Int
  BY <1>1, <1>4, WindowAssumption DEF SweepTypeOK
<1>6. LastOf(j) - j + 1 >= least
  BY DEF Clustered
<1>7. times[LastOf(j)] - times[j] <= Window
  BY <1>3, <1>5
<1>. QED  BY <1>4, <1>6, <1>7 DEF IsCluster

(* A match that starts a cluster opens a window that is reported, and the  *)
(* cluster lies within it.                                                 *)
LEMMA ClusterIsClustered ==
  ASSUME SweepTypeOK, NEW a \in Matches, NEW b \in Matches, IsCluster(a, b)
  PROVE  Clustered(a) /\ b <= LastOf(a)
<1>1. Len(times) \in Nat /\ Matches = 1 .. Len(times) /\ \A m \in Matches : times[m] \in Int
  BY LenProperties, ElementOfSeq DEF SweepTypeOK, Matches
<1>2. b \in WindowAt(a)
  BY <1>1, WindowAssumption DEF IsCluster, WindowAt
<1>3. LastOf(a) \in WindowAt(a) /\ b <= LastOf(a)
  BY <1>2, LastOfWindow
<1>4. LastOf(a) \in Nat
  BY <1>1, <1>3 DEF WindowAt
<1>. QED  BY <1>1, <1>3, <1>4 DEF Clustered, IsCluster, SweepTypeOK

(* What a report adds to the windows.                                      *)
LEMMA ReportAppends ==
  ASSUME SweepTypeOK, Report
  PROVE  /\ i \in Matches
         /\ windows' \in Seq([first : Matches, last : Matches])
         /\ Len(windows') = Len(windows) + 1
         /\ \A k \in 1 .. Len(windows) : windows'[k] = windows[k]
         /\ windows'[Len(windows) + 1].first = i
         /\ windows'[Len(windows) + 1].last = LastOf(i)
<1>1. i \in Matches
  BY LenProperties DEF SweepTypeOK, Report, Matches
<1>2. [first |-> i, last |-> LastOf(i)] \in [first : Matches, last : Matches]
  BY <1>1, ClusteredIsCluster DEF Report
<1>. QED  BY <1>1, <1>2, AppendProperties DEF Report, SweepTypeOK

LEMMA WindowsAreMatches ==
  ASSUME SweepTypeOK, NEW k \in 1 .. Len(windows)
  PROVE  windows[k].first \in Matches /\ windows[k].last \in Matches
<1>1. windows \in Seq([first : Matches, last : Matches])
  BY DEF SweepTypeOK
<1>2. windows[k] \in [first : Matches, last : Matches]
  BY <1>1, ElementOfSeq
<1>. QED  BY <1>2

LEMMA ReportKeeps == SweepInv /\ Report => SweepInv'
<1> SUFFICES ASSUME SweepInv, Report PROVE SweepInv'
  OBVIOUS
<1>0. SweepTypeOK /\ Sorted /\ ClustersReported /\ ReportsApart
  BY DEF SweepInv
<1>1. Len(times) \in Nat /\ Matches = 1 .. Len(times) /\ Len(windows) \in Nat
      /\ DOMAIN windows = 1 .. Len(windows)
  BY <1>0, LenProperties DEF SweepTypeOK, Matches
<1>2. /\ i \in Matches
      /\ windows' \in Seq([first : Matches, last : Matches])
      /\ Len(windows') = Len(windows) + 1
      /\ \A k \in 1 .. Len(windows) : windows'[k] = windows[k]
      /\ windows'[Len(windows) + 1].first = i
      /\ windows'[Len(windows) + 1].last = LastOf(i)
  BY <1>0, ReportAppends
<1>3. LastOf(i) \in Matches /\ i <= LastOf(i) /\ IsCluster(i, LastOf(i))
  BY <1>0, <1>2, ClusteredIsCluster DEF Report
<1>4. times' = times /\ least' = least /\ i' = LastOf(i) + 1 /\ Matches' = Matches
  BY DEF Report, Matches
<1>5. DOMAIN windows' = 1 .. Len(windows) + 1
  BY <1>2, LenProperties
<1>6. \A k \in 1 .. Len(windows) :
         windows[k].first \in Matches /\ windows[k].last \in Matches
  BY <1>0, WindowsAreMatches DEF SweepInv
<1>7. SweepTypeOK'
  BY <1>0, <1>1, <1>2, <1>3, <1>4 DEF SweepTypeOK
<1>8. Sorted'
  BY <1>0, <1>4 DEF Sorted
<1> DEFINE new == Len(windows) + 1
<1>9. \A k \in 1 .. Len(windows) : windows[k].last < i
  BY <1>1 DEF SweepInv
<1>10. \A k \in DOMAIN windows' : windows'[k].last < i'
  <2> SUFFICES ASSUME NEW k \in DOMAIN windows' PROVE windows'[k].last < LastOf(i) + 1
    BY <1>4
  <2>1. LastOf(i) \in Int /\ i \in Int /\ i <= LastOf(i)
    BY <1>1, <1>2, <1>3
  <2>2. CASE k = new
    BY <2>1, <2>2, <1>2
  <2>3. CASE k \in 1 .. Len(windows)
    <3>1. windows'[k].last = windows[k].last /\ windows[k].last \in Int /\ windows[k].last < i
      BY <2>3, <1>1, <1>2, <1>6, <1>9
    <3>. QED  BY <3>1, <2>1
  <2>. QED  BY <2>2, <2>3, <1>1, <1>5
<1>12. ReportsApart'
  <2>1. ASSUME NEW k \in DOMAIN windows'
        PROVE  IsCluster(windows[k].first, windows[k].last)'
    <3>1. CASE k = new
      BY <3>1, <1>2, <1>3, <1>4 DEF IsCluster
    <3>2. CASE k \in 1 .. Len(windows)
      <4>1. IsCluster(windows[k].first, windows[k].last) /\ windows'[k] = windows[k]
        BY <3>2, <1>0, <1>1, <1>2 DEF ReportsApart
      <4>. QED  BY <4>1, <1>4 DEF IsCluster
    <3>. QED  BY <3>1, <3>2, <1>1, <1>5
  <2>2. ASSUME NEW k \in DOMAIN windows', NEW l \in DOMAIN windows', k < l
        PROVE  windows'[k].last < windows'[l].first
    <3>1. k \in 1 .. Len(windows) /\ windows'[k] = windows[k]
      BY <2>2, <1>1, <1>2, <1>5
    <3>2. CASE l = new
      BY <3>1, <3>2, <1>2, <1>9
    <3>3. CASE l \in 1 .. Len(windows)
      BY <3>1, <3>3, <2>2, <1>0, <1>1, <1>2 DEF ReportsApart
    <3>. QED  BY <3>2, <3>3, <1>1, <1>5
  <2>. QED  BY <2>1, <2>2 DEF ReportsApart
<1>11. ClustersReported'
  <2> SUFFICES ASSUME NEW a \in Matches, NEW b \in Matches, IsCluster(a, b), a < LastOf(i) + 1
               PROVE  \E k \in DOMAIN windows' :
                        windows'[k].first <= a /\ a <= windows'[k].last
    BY <1>4 DEF ClustersReported, InWindow, IsCluster
  <2>1. CASE a < i
    <3>1. PICK k \in 1 .. Len(windows) : windows[k].first <= a /\ a <= windows[k].last
      BY <2>1, <1>0, <1>1 DEF ClustersReported, InWindow
    <3>2. k \in DOMAIN windows' /\ windows'[k] = windows[k]
      BY <1>1, <1>2, <1>5
    <3>. QED  BY <3>1, <3>2
  <2>2. CASE ~(a < i)
    BY <2>2, <1>1, <1>2, <1>3, <1>5
  <2>. QED  BY <2>1, <2>2
<1>13. WindowsAreWhole'
  <2> SUFFICES ASSUME NEW k \in DOMAIN windows', NEW m \in Matches, windows'[k].last < m
               PROVE  times[windows'[k].first] + Window < times[m]
    BY <1>4 DEF WindowsAreWhole
  <2>1. CASE k = new
    <3>1. m \notin WindowAt(i) /\ m \in i .. Len(times)
      BY <1>0, <1>1, <1>2, <1>3, <2>1, LastOfWindow
    <3>2. times[m] \in Int /\ times[i] \in Int
      BY <1>0, <1>2, ElementOfSeq DEF SweepTypeOK, Matches
    <3>. QED  BY <1>2, <2>1, <3>1, <3>2, WindowAssumption DEF WindowAt
  <2>2. CASE k \in 1 .. Len(windows)
    BY <1>1, <1>2, <2>2 DEF SweepInv, WindowsAreWhole
  <2>. QED  BY <1>1, <1>5, <2>1, <2>2
<1>. QED  BY <1>7, <1>8, <1>10, <1>11, <1>12, <1>13 DEF SweepInv

LEMMA MoveOnKeeps == SweepInv /\ MoveOn => SweepInv'
<1> SUFFICES ASSUME SweepInv, MoveOn PROVE SweepInv'
  OBVIOUS
<1>0. SweepTypeOK /\ Sorted /\ ClustersReported /\ ReportsApart
  BY DEF SweepInv
<1>1. Len(times) \in Nat /\ Matches = 1 .. Len(times) /\ Len(windows) \in Nat
      /\ DOMAIN windows = 1 .. Len(windows)
  BY <1>0, LenProperties DEF SweepTypeOK, Matches
<1>2. i \in Matches
  BY <1>0, <1>1 DEF SweepTypeOK, MoveOn
<1>4. times' = times /\ least' = least /\ windows' = windows /\ i' = i + 1
      /\ Matches' = Matches
  BY DEF MoveOn, Matches
<1>6. \A k \in 1 .. Len(windows) : windows[k].last \in Matches
  BY <1>0, WindowsAreMatches
<1>7. SweepTypeOK'
  BY <1>0, <1>1, <1>2, <1>4 DEF SweepTypeOK
<1>8. Sorted' /\ ReportsApart'
  BY <1>0, <1>4 DEF Sorted, ReportsApart, IsCluster
<1>9. \A k \in DOMAIN windows' : windows'[k].last < i'
  BY <1>1, <1>2, <1>4, <1>6 DEF SweepInv
<1>11. ClustersReported'
  <2> SUFFICES ASSUME NEW a \in Matches, NEW b \in Matches, IsCluster(a, b), a < i + 1
               PROVE  InWindow(a)
    BY <1>4 DEF ClustersReported, InWindow, IsCluster
  <2>1. a # i
    BY <1>0, ClusterIsClustered DEF MoveOn
  <2>. QED  BY <2>1, <1>0, <1>1, <1>2 DEF ClustersReported
<1>12. WindowsAreWhole'
  BY <1>4 DEF SweepInv, WindowsAreWhole
<1>. QED  BY <1>7, <1>8, <1>9, <1>11, <1>12 DEF SweepInv

LEMMA SweepStarts == SweepInit => SweepInv
<1> SUFFICES ASSUME SweepInit PROVE SweepInv
  OBVIOUS
<1>1. Len(times) \in Nat /\ windows = <<>> /\ DOMAIN windows = {} /\ i = 1
      /\ Matches = 1 .. Len(times)
  BY LenProperties DEF SweepInit, Matches
<1>2. SweepTypeOK
  BY <1>1, EmptySeq DEF SweepInit, SweepTypeOK
<1>3. ClustersReported
  BY <1>1 DEF ClustersReported
<1>. QED  BY <1>1, <1>2, <1>3 DEF SweepInit, SweepInv, Sorted, ReportsApart, WindowsAreWhole

LEMMA SweepInvariant == SweepSpec => []SweepInv
<1>1. SweepInit => SweepInv
  BY SweepStarts
<1>2. SweepInv /\ [Sweep]_sweep => SweepInv'
  <2>1. SweepInv /\ UNCHANGED sweep => SweepInv'
    BY DEF SweepInv, SweepTypeOK, Sorted, ClustersReported, ReportsApart, InWindow,
           IsCluster, Matches, sweep, WindowsAreWhole
  <2>. QED  BY <2>1, ReportKeeps, MoveOnKeeps DEF Sweep
<1>. QED  BY <1>1, <1>2, PTL DEF SweepSpec

(* A burst of kills never escapes the sweep, however the windows fall: the *)
(* first kill of every cluster the sweep has passed lies in a reported     *)
(* window.  It needs that a window dropped for being too small is left by  *)
(* one match and not as a whole.                                           *)
THEOREM ClustersAreReported == SweepSpec => []ClustersReported
<1>1. SweepInv => ClustersReported
  BY DEF SweepInv
<1>. QED  BY <1>1, SweepInvariant, PTL

(* No kill is evidence for two reports, and every report is a cluster.     *)
THEOREM ReportsAreApart == SweepSpec => []ReportsApart
<1>1. SweepInv => ReportsApart
  BY DEF SweepInv
<1>. QED  BY <1>1, SweepInvariant, PTL

-----------------------------------------------------------------------------
(* From the sweep to the events. *)

\* What is matched are the events of a kind, sorted by time.
MatchesAre(kind) ==
  /\ DOMAIN matches = 1 .. Len(times)
  /\ \A j \in 1 .. Len(times) : matches[j] \in Fired(kind) /\ times[j] = events[matches[j]].ts
  /\ \A n \in Fired(kind) : \E j \in 1 .. Len(times) : matches[j] = n
  /\ \A j, k \in 1 .. Len(times) : matches[j] = matches[k] => j = k

EventsOK ==
  /\ events \in Seq({ events[n] : n \in DOMAIN events })
  /\ \A n \in DOMAIN events : events[n].ts \in Int

LEMMA FiredIsFinite ==
  ASSUME EventsOK, NEW kind
  PROVE  /\ IsFiniteSet(Fired(kind)) /\ Fired(kind) \in SUBSET Int
         /\ \A t : IsFiniteSet(Around(kind, t)) /\ Cardinality(Around(kind, t)) \in Nat
<1>1. DOMAIN events = 1 .. Len(events) /\ Len(events) \in Nat
  BY LenProperties DEF EventsOK
<1>2. IsFiniteSet(DOMAIN events)
  BY <1>1, SeqPositions DEF EventsOK
<1>3. Fired(kind) \subseteq DOMAIN events
  BY DEF Fired
<1>4. IsFiniteSet(Fired(kind))
  BY <1>2, <1>3, FS_Subset
<1>5. ASSUME NEW t PROVE IsFiniteSet(Around(kind, t)) /\ Cardinality(Around(kind, t)) \in Nat
  <2>1. Around(kind, t) \subseteq Fired(kind)
    BY DEF Around
  <2>. QED  BY <1>4, <2>1, FS_Subset, FS_CardinalityType
<1>. QED  BY <1>1, <1>3, <1>4, <1>5

LEMMA SweptTimes ==
  ASSUME SweepInv
  PROVE  /\ Len(times) \in Nat /\ Matches = 1 .. Len(times)
         /\ \A j \in 1 .. Len(times) : times[j] \in Int
         /\ \A j, k \in 1 .. Len(times) : j <= k => times[j] <= times[k]
         /\ Len(windows) \in Nat /\ DOMAIN windows = 1 .. Len(windows)
         /\ \A w \in 1 .. Len(windows) : windows[w].first \in 1 .. Len(times) /\ windows[w].last \in 1 .. Len(times)
         /\ least \in Nat
<1>1. SweepTypeOK /\ Sorted
  BY DEF SweepInv
<1>2. Len(times) \in Nat /\ Matches = 1 .. Len(times) /\ \A j \in 1 .. Len(times) : times[j] \in Int
  BY <1>1, LenProperties, ElementOfSeq DEF SweepTypeOK, Matches
<1>. QED  BY <1>1, <1>2, WindowsAreMatches, LenProperties DEF SweepTypeOK, Sorted

(* A window reported holds enough kills, *)
LEMMA WindowIsFull ==
  ASSUME EventsOK, SweepInv, NEW kind, MatchesAre(kind), NEW w \in 1 .. Len(windows)
  PROVE  Cardinality(Around(kind, times[windows[w].first])) >= least
<1> DEFINE a == windows[w].first
           b == windows[w].last
           A == Around(kind, times[a])
           g == [m \in a .. b |-> matches[m]]
<1>1. /\ Len(times) \in Nat /\ a \in 1 .. Len(times) /\ b \in 1 .. Len(times) /\ least \in Nat
      /\ \A j \in 1 .. Len(times) : times[j] \in Int
      /\ \A j, k \in 1 .. Len(times) : j <= k => times[j] <= times[k]
  BY SweptTimes
<1>2. a <= b /\ b - a + 1 >= least /\ times[b] - times[a] <= Window
  BY SweptTimes DEF SweepInv, ReportsApart, IsCluster
<1>. HIDE DEF a, b
<1>3. ASSUME NEW m \in a .. b PROVE m \in 1 .. Len(times) /\ matches[m] \in A
  <2>1. m \in 1 .. Len(times) /\ a <= m /\ m <= b
    BY <1>1
  <2>2. times[a] <= times[m] /\ times[m] <= times[b]
    BY <1>1, <2>1
  <2>3. times[m] <= times[a] + Window
    BY <1>1, <1>2, <2>1, <2>2, WindowAssumption
  <2>. QED  BY <2>1, <2>2, <2>3 DEF MatchesAre, Around
<1>4. g \in Injection(a .. b, A)
  <2>1. g \in [a .. b -> A]
    BY <1>3
  <2>2. \A j, k \in a .. b : g[j] = g[k] => j = k
    BY <1>3 DEF MatchesAre
  <2>. QED  BY <2>1, <2>2 DEF Injection, IsInjective
<1>5. IsFiniteSet(A) /\ Cardinality(A) \in Nat
  BY FiredIsFinite
<1>. HIDE DEF A, g
<1>6. Cardinality(a .. b) <= Cardinality(A)
  BY <1>4, <1>5, FS_Injection
<1>7. Cardinality(a .. b) = b - a + 1
  BY <1>1, <1>2, FS_Interval
<1>. QED  BY <1>1, <1>2, <1>5, <1>6, <1>7 DEF A, a

(* the next one begins after it has ended, *)
LEMMA WindowsApart ==
  ASSUME SweepInv, NEW v \in 1 .. Len(windows), NEW w \in 1 .. Len(windows), v < w
  PROVE  times[windows[w].first] > times[windows[v].first] + Window
<1>1. /\ windows[w].first \in Matches /\ times[windows[w].first] \in Int /\ times[windows[v].first] \in Int
      /\ v \in DOMAIN windows /\ w \in DOMAIN windows
  BY SweptTimes
<1>2. windows[v].last < windows[w].first
  BY <1>1 DEF SweepInv, ReportsApart
<1>3. times[windows[v].first] + Window < times[windows[w].first]
  BY <1>1, <1>2 DEF SweepInv, WindowsAreWhole
<1>. QED  BY <1>1, <1>3, WindowAssumption

(* and a kill that starts a cluster is in one of them.                     *)
LEMMA ClusterIsTold ==
  ASSUME EventsOK, SweepInv, i > Len(times), NEW kind, MatchesAre(kind), NEW n \in Fired(kind),
         Cardinality(Around(kind, events[n].ts)) >= least
  PROVE  \E w \in 1 .. Len(windows) : n \in Around(kind, times[windows[w].first])
<1> DEFINE t == events[n].ts
           A == Around(kind, t)
           J == { j \in 1 .. Len(times) : t <= times[j] }
<1>1. /\ Len(times) \in Nat /\ Matches = 1 .. Len(times) /\ least \in Nat
      /\ \A j \in 1 .. Len(times) : times[j] \in Int
      /\ \A j, k \in 1 .. Len(times) : j <= k => times[j] <= times[k]
      /\ DOMAIN windows = 1 .. Len(windows)
      /\ \A w \in 1 .. Len(windows) : windows[w].first \in 1 .. Len(times) /\ windows[w].last \in 1 .. Len(times)
  BY SweptTimes
<1>2. PICK p \in 1 .. Len(times) : matches[p] = n
  BY DEF MatchesAre
<1>3. times[p] = t /\ t \in Int
  BY <1>1, <1>2 DEF MatchesAre
<1>4. PICK a \in J : \A j \in J : a <= j
  <2>1. p \in J /\ J \subseteq Nat
    BY <1>1, <1>3
  <2>. HIDE DEF J
  <2>. QED  BY <2>1, LeastNat
<1>5. times[a] = t /\ a \in 1 .. Len(times)
  <2>1. p \in J
    BY <1>1, <1>3
  <2>2. a <= p
    BY <1>4, <2>1
  <2>. QED  BY <1>1, <1>3, <2>2
<1> DEFINE b == LastOf(a)
<1>6. b \in WindowAt(a) /\ \A m \in WindowAt(a) : m <= b
  BY <1>1, <1>5, LastOfWindow DEF SweepInv
<1>7. b \in a .. Len(times) /\ times[b] <= t + Window
  BY <1>5, <1>6 DEF WindowAt
<1>. HIDE DEF b
<1>8. ASSUME NEW x \in A PROVE \E q \in a .. b : matches[q] = x
  <2>1. x \in Fired(kind) /\ t <= events[x].ts /\ events[x].ts <= t + Window
    BY DEF Around
  <2>2. PICK q \in 1 .. Len(times) : matches[q] = x
    BY <2>1 DEF MatchesAre
  <2>3. times[q] = events[x].ts
    BY <2>2 DEF MatchesAre
  <2>4. a <= q
    BY <1>4, <2>1, <2>3
  <2>5. q \in WindowAt(a)
    BY <1>1, <1>5, <2>1, <2>3, <2>4 DEF WindowAt
  <2>. QED  BY <1>1, <1>6, <1>7, <2>2, <2>4, <2>5
<1> DEFINE g == [x \in A |-> CHOOSE q \in a .. b : matches[q] = x]
<1>9. g \in Injection(A, a .. b)
  <2>1. \A x \in A : g[x] \in a .. b /\ matches[g[x]] = x
    BY <1>8
  <2>2. g \in [A -> a .. b]
    BY <2>1
  <2>. HIDE DEF g
  <2>3. \A x, y \in A : g[x] = g[y] => x = y
    BY <2>1
  <2>. QED  BY <2>2, <2>3 DEF Injection, IsInjective
<1>. HIDE DEF g
<1>10. Cardinality(A) <= b - a + 1
  <2>1. a \in Int /\ b \in Int /\ a <= b
    BY <1>1, <1>5, <1>7
  <2>2. IsFiniteSet(a .. b) /\ Cardinality(a .. b) = b - a + 1
    <3>1. IsFiniteSet(a .. b) /\ Cardinality(a .. b) = IF a > b THEN 0 ELSE b - a + 1
      BY <2>1, FS_Interval
    <3>. QED  BY <2>1, <3>1
  <2>3. Cardinality(A) <= Cardinality(a .. b)
    <3>. HIDE DEF A
    <3>. QED  BY <1>9, <2>2, FS_Injection
  <2>. QED  BY <2>2, <2>3
<1>11. IsCluster(a, b)
  <2>1. Cardinality(A) >= least /\ Cardinality(A) \in Nat
    BY FiredIsFinite
  <2>. HIDE DEF A, t
  <2>2. times[b] - times[a] <= Window
    BY <1>1, <1>3, <1>5, <1>7, WindowAssumption
  <2>. QED  BY <1>1, <1>5, <1>7, <1>10, <2>1, <2>2 DEF IsCluster
<1>12. PICK w \in DOMAIN windows : windows[w].first <= a /\ a <= windows[w].last
  <2>1. i \in Int /\ a < i /\ a \in Matches /\ b \in Matches
    BY <1>1, <1>5, <1>7 DEF SweepInv, SweepTypeOK
  <2>. QED  BY <1>11, <2>1 DEF SweepInv, ClustersReported, InWindow
<1>13. /\ w \in 1 .. Len(windows)
       /\ times[windows[w].first] <= t /\ t <= times[windows[w].last]
  BY <1>1, <1>5, <1>12
<1>14. times[windows[w].last] - times[windows[w].first] <= Window
  BY <1>12 DEF SweepInv, ReportsApart, IsCluster
<1>15. t <= times[windows[w].first] + Window
  <2>1. times[windows[w].first] \in Int /\ times[windows[w].last] \in Int /\ Window \in Int
    BY <1>1, <1>13, WindowAssumption
  <2>. HIDE DEF t
  <2>. QED  BY <1>3, <1>13, <1>14, <2>1
<1>. QED  BY <1>13, <1>15 DEF Around

-----------------------------------------------------------------------------
(* detect_all. *)

LEMMA Tables ==
  /\ Len(Order) = 31
  /\ \A j \in 1 .. 31 : Order[j] = "TaskkillAvCluster" <=> j = 21
  /\ \A j \in 1 .. 31 : Order[j] = "ServiceStopAvSet" <=> j = 22
  /\ \A j \in 1 .. 31 : Technique[j] \in Int
<1>1. Len(Order) = 31
  BY DEF Order
<1>3. \A j \in 1 .. 31 : Order[j] = "TaskkillAvCluster" <=> j = 21
  BY DEF Order
<1>4. \A j \in 1 .. 31 : Order[j] = "ServiceStopAvSet" <=> j = 22
  BY DEF Order
<1>5. \A j \in 1 .. 31 : Technique[j] \in Int
  BY DEF Technique
<1>. QED  BY <1>1, <1>3, <1>4, <1>5

\* What a detection can be.
Detections ==
  { Detection(k, t, events[n]) : k \in 1 .. 31, t \in { events[m].ts : m \in DOMAIN events }, n \in DOMAIN events }

AllPhases == {"detect", "sweep", "panicked", "done", "sessions", "checked"}

DetectType ==
  /\ phase \in AllPhases
  /\ EventsOK
  /\ d \in 1 .. 32
  /\ results \in Seq(Detections)

\* Each detection of a single event is of one on which its detector fires,
SingleSound ==
  \A k \in DOMAIN results :
    /\ results[k].d < d
    /\ Order[results[k].d] \notin Clusters =>
         \E n \in Fired(Order[results[k].d]) : results[k] = Detection(results[k].d, events[n].ts, events[n])

\* and each detector before d has told every event on which it fires.
SingleComplete ==
  \A c \in 1 .. d - 1 : Order[c] \notin Clusters =>
    \A n \in Fired(Order[c]) : \E k \in DOMAIN results : results[k] = Detection(c, events[n].ts, events[n])

ClusterSound ==
  \A c \in ClusterKinds :
    /\ \A k \in DetectionsOf(c.kind) : Cardinality(Around(c.kind, results[k].ts)) >= c.least
    /\ \A k, l \in DetectionsOf(c.kind) : k < l => results[l].ts > results[k].ts + Window

ToldOf(c) ==
  \A n \in Fired(c.kind) :
    Cardinality(Around(c.kind, events[n].ts)) >= c.least =>
      \E k \in DetectionsOf(c.kind) : n \in Around(c.kind, results[k].ts)

ClusterComplete == \A j \in 1 .. d - 1 : \A c \in ClusterKinds : Order[j] = c.kind => ToldOf(c)

Sweeping ==
  /\ d <= 31 /\ Order[d] \in Clusters
  /\ SweepInv
  /\ MatchesAre(Order[d])
  /\ \A c \in ClusterKinds : Order[d] = c.kind => least = c.least

(* What detect_all has told by now is right and complete. *)
DetectInv ==
  /\ DetectType
  /\ phase \in {"detect", "sweep", "done"} => SingleSound /\ SingleComplete /\ ClusterSound /\ ClusterComplete
  /\ phase = "sweep" => Sweeping
  /\ phase = "done" => d = 32

(* What is asked of the events does not change with the state. *)
LEMMA EventsStay ==
  ASSUME events' = events
  PROVE  /\ \A kind : Fired(kind)' = Fired(kind)
         /\ \A kind, t : Around(kind, t)' = Around(kind, t)
         /\ EventsOK' <=> EventsOK
         /\ Detections' = Detections
<1>1. \A kind : Fired(kind)' = Fired(kind)
  BY DEF Fired
<1>2. \A kind, t : Around(kind, t)' = Around(kind, t)
  BY <1>1 DEF Around
<1>. QED  BY <1>1, <1>2 DEF EventsOK, Detections

LEMMA DetectionParts ==
  ASSUME EventsOK, NEW r \in Detections
  PROVE  r.d \in 1 .. 31 /\ r.ts \in Int
BY SMTT(20) DEF Detections, Detection, EventsOK

LEMMA DetectionHas ==
  ASSUME NEW k, NEW t, NEW e
  PROVE  /\ Detection(k, t, e).d = k
         /\ Detection(k, t, e).ts = t
         /\ Detection(k, t, e).eid = e.eid
         /\ Detection(k, t, e).channel = e.channel
BY DEF Detection

LEMMA DetectionIn ==
  ASSUME NEW k \in 1 .. 31, NEW m \in DOMAIN events, NEW n \in DOMAIN events
  PROVE  Detection(k, events[m].ts, events[n]) \in Detections
BY DEF Detections

(* Detections of detector d put behind the others. *)
LEMMA Appended ==
  ASSUME DetectType, NEW new \in Seq(Detections), results' = results \o new, events' = events
  PROVE  /\ results' \in Seq(Detections)
         /\ Len(results) \in Nat /\ Len(new) \in Nat
         /\ DOMAIN results = 1 .. Len(results) /\ DOMAIN results' = 1 .. Len(results) + Len(new)
         /\ \A k \in 1 .. Len(results) : results'[k] = results[k] /\ results[k] \in Detections
         /\ \A k \in 1 .. Len(new) : results'[Len(results) + k] = new[k]
         /\ \A k \in DOMAIN results' :
              k \in 1 .. Len(results) \/ \E m \in 1 .. Len(new) : k = Len(results) + m
<1>1. results \in Seq(Detections) /\ Len(results) \in Nat /\ Len(new) \in Nat
  BY LenProperties DEF DetectType
<1>2. results' \in Seq(Detections) /\ Len(results') = Len(results) + Len(new)
  BY <1>1, ConcatProperties
<1>3. \A k \in 1 .. Len(results) + Len(new) :
        results'[k] = IF k <= Len(results) THEN results[k] ELSE new[k - Len(results)]
  BY <1>1, ConcatProperties
<1>4. DOMAIN results = 1 .. Len(results) /\ DOMAIN results' = 1 .. Len(results) + Len(new)
  BY <1>1, <1>2, LenProperties
<1>5. \A k \in 1 .. Len(results) : results'[k] = results[k] /\ results[k] \in Detections
  BY <1>1, <1>3
<1>6. \A k \in 1 .. Len(new) : results'[Len(results) + k] = new[k]
  BY <1>1, <1>3
<1>7. ASSUME NEW k \in DOMAIN results', k \notin 1 .. Len(results)
      PROVE  \E m \in 1 .. Len(new) : k = Len(results) + m
  <2>1. k - Len(results) \in 1 .. Len(new) /\ k = Len(results) + (k - Len(results))
    BY <1>1, <1>4, <1>7
  <2>. QED  BY <2>1
<1>. QED  BY <1>1, <1>2, <1>4, <1>5, <1>6, <1>7

(* What has been told stays so as long as nothing new is.                  *)
LEMMA ToldStays ==
  ASSUME SingleSound, SingleComplete, ClusterSound, ClusterComplete,
         events' = events, results' = results, d' = d
  PROVE  SingleSound' /\ SingleComplete' /\ ClusterSound' /\ ClusterComplete'
<1>1. \A kind : Fired(kind)' = Fired(kind)
  BY EventsStay
<1>2. \A kind, t : Around(kind, t)' = Around(kind, t)
  BY EventsStay
<1>3. \A kind : DetectionsOf(kind)' = DetectionsOf(kind)
  BY DEF DetectionsOf
<1>4. SingleSound'
  BY <1>1 DEF SingleSound
<1>5. SingleComplete'
  BY <1>1 DEF SingleComplete
<1>6. ClusterSound'
  BY <1>2, <1>3 DEF ClusterSound, ClusterKinds
<1>7. ASSUME NEW c \in ClusterKinds, ToldOf(c) PROVE ToldOf(c)'
  BY <1>1, <1>2, <1>3, <1>7 DEF ToldOf
<1>8. ClusterComplete'
  BY <1>7 DEF ClusterComplete, ClusterKinds
<1>. QED  BY <1>4, <1>5, <1>6, <1>8

LEMMA DetectStarts == Init => DetectInv
<1> SUFFICES ASSUME Init PROVE DetectInv
  OBVIOUS
<1>1. results = <<>> /\ DOMAIN results = {} /\ d = 1 /\ phase \in {"detect", "sessions"}
  BY DEF Init
<1>2. EventsOK
  <2>1. CASE events \in Slices
    BY <2>1, DetectorsAssumption DEF EventsOK
  <2>2. CASE events = <<>>
    BY <2>2, EmptySeq DEF EventsOK
  <2>. QED  BY <2>1, <2>2 DEF Init
<1>3. results \in Seq(Detections)
  BY <1>1, EmptySeq
<1>4. DetectType
  BY <1>1, <1>2, <1>3 DEF DetectType, AllPhases
<1>5. SingleSound /\ SingleComplete /\ ClusterSound /\ ClusterComplete
  BY <1>1 DEF SingleSound, SingleComplete, ClusterSound, ClusterComplete, DetectionsOf
<1>. QED  BY <1>1, <1>4, <1>5 DEF DetectInv

(* A detector of single events tells of those on which it fires, and of no *)
(* cluster.                                                                *)
LEMMA DetectKeeps ==
  ASSUME DetectInv, Detect
  PROVE  DetectInv'
<1> DEFINE F   == Fired(Order[d])
           N   == Cardinality(F)
           a   == Ascending(F)
           new == [n \in 1 .. N |-> Detection(d, events[a[n]].ts, events[a[n]])]
<1>1. /\ DetectType /\ SingleSound /\ SingleComplete /\ ClusterSound /\ ClusterComplete
      /\ phase = "detect" /\ phase' = "detect" /\ d \in 1 .. 31 /\ d' = d + 1 /\ events' = events
      /\ Order[d] \notin Clusters
      /\ results' = results \o new
  <2>1. phase = "detect" /\ phase' = "detect" /\ d <= Len(Order) /\ d' = d + 1 /\ events' = events
        /\ Order[d] \notin Clusters /\ results' = results \o new
    BY DEF Detect, Detecting, input
  <2>2. d \in 1 .. 31
    <3>1. d \in 1 .. 32
      BY DEF DetectInv, DetectType
    <3>2. d <= 31
      BY <2>1, Tables
    <3>. QED  BY <3>1, <3>2
  <2>. QED  BY <2>1, <2>2 DEF DetectInv
<1>2. /\ N \in Nat /\ a \in [1 .. N -> F] /\ \A x \in F : \E r \in 1 .. N : a[r] = x
  <2>1. F \in SUBSET Int /\ IsFiniteSet(F)
    BY <1>1, FiredIsFinite DEF DetectType
  <2>. HIDE DEF F
  <2>. QED  BY <2>1, AscendingInOrder
<1>3. F \subseteq DOMAIN events
  BY DEF Fired
<1>. HIDE DEF F, N, a
<1>4. new \in Seq(Detections) /\ Len(new) = N
  <2>1. \A n \in 1 .. N : new[n] \in Detections
    <3> SUFFICES ASSUME NEW n \in 1 .. N PROVE new[n] \in Detections
      OBVIOUS
    <3>1. a[n] \in DOMAIN events
      BY <1>2, <1>3
    <3>. QED  BY <1>1, <3>1, DetectionIn
  <2>2. new \in [1 .. N -> Detections]
    BY <2>1
  <2>. HIDE DEF new
  <2>. QED  BY <1>2, <2>2
<1>5. \A m \in 1 .. N : a[m] \in F /\ new[m] = Detection(d, events[a[m]].ts, events[a[m]])
  BY <1>2
<1>. HIDE DEF new
<1>6. /\ results' \in Seq(Detections)
      /\ Len(results) \in Nat /\ DOMAIN results = 1 .. Len(results)
      /\ DOMAIN results' = 1 .. Len(results) + N
      /\ \A k \in 1 .. Len(results) : results'[k] = results[k] /\ results[k] \in Detections
      /\ \A k \in 1 .. N : results'[Len(results) + k] = new[k]
      /\ \A k \in DOMAIN results' : k \in 1 .. Len(results) \/ \E m \in 1 .. N : k = Len(results) + m
  BY <1>1, <1>4, Appended
<1>7. /\ \A kind : Fired(kind)' = Fired(kind)
      /\ \A kind, t : Around(kind, t)' = Around(kind, t)
      /\ EventsOK' /\ Detections' = Detections
  BY <1>1, EventsStay DEF DetectType
<1>8. \A m \in 1 .. N : new[m].d = d
  BY <1>5, DetectionHas
<1>9. ASSUME NEW c \in ClusterKinds PROVE DetectionsOf(c.kind)' = DetectionsOf(c.kind)
  <2>1. c.kind \in Clusters /\ c.kind # Order[d]
    BY <1>1 DEF ClusterKinds, Clusters
  <2>2. ASSUME NEW k \in DOMAIN results', Order[results'[k].d] = c.kind PROVE k \in 1 .. Len(results)
    BY <1>6, <1>8, <2>1, <2>2
  <2>3. DetectionsOf(c.kind)' = { k \in DOMAIN results' : Order[results'[k].d] = c.kind }
    BY DEF DetectionsOf, ClusterKinds
  <2>4. 1 .. Len(results) \subseteq DOMAIN results'
    BY <1>2, <1>6
  <2>5. \A k \in DOMAIN results' : Order[results'[k].d] = c.kind <=> k \in DOMAIN results /\ Order[results[k].d] = c.kind
    BY <1>6, <2>2, <2>4
  <2>. QED  BY <1>6, <2>3, <2>4, <2>5 DEF DetectionsOf
<1>10. \A c \in ClusterKinds : \A k \in DetectionsOf(c.kind) : k \in 1 .. Len(results) /\ results'[k] = results[k]
  BY <1>6 DEF DetectionsOf
<1>11. DetectType'
  BY <1>1, <1>6, <1>7 DEF DetectType, AllPhases
<1>12. SingleSound'
  <2> SUFFICES ASSUME NEW k \in DOMAIN results'
               PROVE  /\ results'[k].d < d + 1
                      /\ Order[results'[k].d] \notin Clusters =>
                           \E n \in Fired(Order[results'[k].d]) :
                             results'[k] = Detection(results'[k].d, events[n].ts, events[n])
    BY <1>1, <1>7 DEF SingleSound
  <2>1. CASE k \in 1 .. Len(results)
    <3>1. results'[k] = results[k] /\ results[k].d < d /\ results[k].d \in 1 .. 31
      BY <1>1, <1>6, <2>1, DetectionParts DEF SingleSound, DetectType
    <3>2. Order[results[k].d] \notin Clusters =>
            \E n \in Fired(Order[results[k].d]) : results[k] = Detection(results[k].d, events[n].ts, events[n])
      BY <1>1, <1>6, <2>1 DEF SingleSound
    <3>3. results[k].d < d + 1
      <4>1. \A x, y \in 1 .. 31 : x < y => x < y + 1
        OBVIOUS
      <4>2. d \in 1 .. 31
        BY <1>1
      <4>. QED  BY <3>1, <4>1, <4>2
    <3>. QED  BY <3>1, <3>2, <3>3
  <2>2. CASE \E m \in 1 .. N : k = Len(results) + m
    <3>1. PICK m \in 1 .. N : k = Len(results) + m
      BY <2>2
    <3>2. results'[k] = new[m] /\ new[m].d = d
      BY <1>6, <1>8, <3>1
    <3>. QED  BY <1>1, <1>5, <3>1, <3>2 DEF F
  <2>. QED  BY <1>6, <2>1, <2>2
<1>13. SingleComplete'
  <2> SUFFICES ASSUME NEW c \in 1 .. d, Order[c] \notin Clusters, NEW n \in Fired(Order[c])
               PROVE  \E k \in DOMAIN results' : results'[k] = Detection(c, events[n].ts, events[n])
    BY <1>1, <1>7 DEF SingleComplete
  <2>1. CASE c \in 1 .. d - 1
    <3>1. PICK k \in DOMAIN results : results[k] = Detection(c, events[n].ts, events[n])
      BY <1>1, <2>1 DEF SingleComplete
    <3>. QED  BY <1>2, <1>6, <3>1
  <2>2. CASE c = d
    <3>1. PICK r \in 1 .. N : a[r] = n
      BY <1>2, <2>2 DEF F
    <3>2. Len(results) + r \in DOMAIN results'
      BY <1>2, <1>6
    <3>. QED  BY <1>5, <1>6, <2>2, <3>1, <3>2
  <2>. QED  BY <1>1, <2>1, <2>2
<1>14. ClusterSound'
  BY <1>1, <1>7, <1>9, <1>10 DEF ClusterSound, ClusterKinds
<1>15. ClusterComplete'
  <2> SUFFICES ASSUME NEW j \in 1 .. d, NEW c \in ClusterKinds, Order[j] = c.kind PROVE ToldOf(c)'
    BY <1>1 DEF ClusterComplete, ClusterKinds
  <2>1. c.kind \in Clusters
    BY DEF ClusterKinds, Clusters
  <2>2. ToldOf(c)
    <3>1. j # d
      BY <1>1, <2>1
    <3>2. j \in 1 .. d - 1
      <4>1. d \in 1 .. 31 /\ j \in 1 .. d
        BY <1>1
      <4>. QED  BY <3>1, <4>1
    <3>. QED  BY <1>1, <3>2 DEF ClusterComplete
  <2>3. ASSUME NEW n \in Fired(c.kind), Cardinality(Around(c.kind, events[n].ts)) >= c.least
        PROVE  \E k \in DetectionsOf(c.kind)' : n \in Around(c.kind, results'[k].ts)
    <3>1. PICK k \in DetectionsOf(c.kind) : n \in Around(c.kind, results[k].ts)
      BY <2>2, <2>3 DEF ToldOf
    <3>. QED  BY <1>9, <1>10, <3>1
  <2>. QED  BY <1>1, <1>7, <2>3 DEF ToldOf, ClusterKinds
<1>. QED  BY <1>1, <1>11, <1>12, <1>13, <1>14, <1>15 DEF DetectInv

(* A panic leaves nothing. *)
LEMMA PanicKeeps ==
  ASSUME DetectInv, Panic
  PROVE  DetectInv'
<1>1. phase' = "panicked" /\ results' = <<>> /\ events' = events /\ d' = d
  BY DEF Panic, input
<1>2. EventsOK' /\ Detections' = Detections
  BY <1>1, EventsStay DEF DetectInv, DetectType
<1>3. results' \in Seq(Detections)
  BY <1>1, EmptySeq
<1>4. DetectType'
  BY <1>1, <1>2, <1>3 DEF DetectInv, DetectType, AllPhases
<1>. QED  BY <1>1, <1>4 DEF DetectInv

LEMMA SweepStartsNext == SweepInit' => SweepInv'
BY SweepStarts, PTL

(* The sweep begins over the kills, sorted. *)
LEMMA MatchKeeps ==
  ASSUME DetectInv, Match
  PROVE  DetectInv'
<1> DEFINE F == Fired(Order[d])
           N == Cardinality(F)
           R == { mn \in F \X F : Earlier(mn[1], mn[2]) }
<1>1. /\ DetectType /\ SingleSound /\ SingleComplete /\ ClusterSound /\ ClusterComplete
      /\ phase = "detect" /\ d <= Len(Order) /\ Order[d] \in Clusters
  BY DEF DetectInv, Match, Detecting
<1>2. /\ phase' = "sweep" /\ events' = events /\ d' = d /\ results' = results
      /\ matches' = Arranged(F, R)
      /\ least' = IF Order[d] = "TaskkillAvCluster" THEN KillThreshold ELSE StopThreshold
      /\ times' = [n \in DOMAIN matches' |-> events[matches'[n]].ts]
      /\ i' = 1 /\ windows' = <<>>
  BY DEF Match, ByTime, input
<1>3. /\ \A kind : Fired(kind)' = Fired(kind)
      /\ EventsOK /\ EventsOK' /\ Detections' = Detections
  BY <1>1, <1>2, EventsStay DEF DetectType
<1>4. IsFiniteSet(F) /\ F \in SUBSET Int /\ \A n \in F : events[n].ts \in Int
  <2>1. F \subseteq DOMAIN events
    BY DEF Fired
  <2>. QED  BY <1>3, <2>1, FiredIsFinite DEF EventsOK
<1>. HIDE DEF F
<1>5. \A m, n \in F : <<m, n>> \in R <=>
         events[m].ts < events[n].ts \/ (events[m].ts = events[n].ts /\ m < n)
  BY DEF Earlier
<1>. HIDE DEF R
<1>6. Orders(R, F)
  <2>1. \A x \in F : <<x, x>> \notin R
    BY <1>4, <1>5
  <2>2. ASSUME NEW x \in F, NEW y \in F, NEW z \in F, <<x, y>> \in R, <<y, z>> \in R
        PROVE  <<x, z>> \in R
    <3>1. events[x].ts \in Int /\ events[y].ts \in Int /\ events[z].ts \in Int /\ x \in Int /\ y \in Int /\ z \in Int
      BY <1>4
    <3>2. events[x].ts < events[y].ts \/ (events[x].ts = events[y].ts /\ x < y)
      BY <1>5, <2>2
    <3>3. events[y].ts < events[z].ts \/ (events[y].ts = events[z].ts /\ y < z)
      BY <1>5, <2>2
    <3>4. events[x].ts < events[z].ts \/ (events[x].ts = events[z].ts /\ x < z)
      BY <3>1, <3>2, <3>3
    <3>. QED  BY <1>5, <3>4
  <2>3. ASSUME NEW x \in F, NEW y \in F PROVE x = y \/ <<x, y>> \in R \/ <<y, x>> \in R
    <3>1. events[x].ts \in Int /\ events[y].ts \in Int /\ x \in Int /\ y \in Int
      BY <1>4
    <3>. QED  BY <1>5, <3>1
  <2>. QED  BY <2>1, <2>2, <2>3 DEF Orders
<1>7. /\ N \in Nat /\ matches' \in [1 .. N -> F]
      /\ \A x \in F : \E r \in 1 .. N : matches'[r] = x
      /\ \A q, r \in 1 .. N : q < r <=> <<matches'[q], matches'[r]>> \in R
  <2>1. /\ Cardinality(F) \in Nat
        /\ Arranged(F, R) \in [1 .. Cardinality(F) -> F]
        /\ \A x \in F : \E r \in 1 .. Cardinality(F) : Arranged(F, R)[r] = x
        /\ \A q, r \in 1 .. Cardinality(F) : q < r <=> <<Arranged(F, R)[q], Arranged(F, R)[r]>> \in R
    BY <1>4, <1>6, ArrangedInOrder
  <2>. QED  BY <1>2, <2>1
<1>. HIDE DEF N
<1>8. /\ times' \in [1 .. N -> Int] /\ \A n \in 1 .. N : times'[n] = events[matches'[n]].ts
  BY <1>2, <1>4, <1>7
<1>9. times' \in Seq(Int) /\ Len(times') = N
  BY <1>7, <1>8
<1>10. \A p, q \in 1 .. N : p <= q => times'[p] <= times'[q]
  <2> SUFFICES ASSUME NEW p \in 1 .. N, NEW q \in 1 .. N, p <= q PROVE times'[p] <= times'[q]
    OBVIOUS
  <2>1. times'[p] \in Int /\ times'[q] \in Int
    BY <1>8
  <2>2. CASE p = q
    BY <2>1, <2>2
  <2>3. CASE p < q
    <3>1. <<matches'[p], matches'[q]>> \in R
      BY <1>7, <2>3
    <3>2. matches'[p] \in F /\ matches'[q] \in F
      BY <1>7
    <3>3. events[matches'[p]].ts < events[matches'[q]].ts \/ events[matches'[p]].ts = events[matches'[q]].ts
      BY <1>5, <3>1, <3>2
    <3>. QED  BY <1>8, <2>1, <3>3
  <2>. QED  BY <1>7, <2>2, <2>3
<1>11. d \in 1 .. 31 /\ (d = 21 \/ d = 22)
  <2>1. d \in 1 .. 32 /\ d <= 31
    BY <1>1, Tables DEF DetectType
  <2>2. d \in 1 .. 31
    BY <2>1
  <2>. QED  BY <1>1, <2>2, Tables DEF Clusters
<1>12. SweepInv'
  <2>1. least' \in Nat \ {0}
    BY <1>2, DetectorsAssumption
  <2>2. DOMAIN times' = 1 .. N
    BY <1>8
  <2>3. SweepInit'
    BY <1>2, <1>9, <1>10, <2>1, <2>2 DEF SweepInit, Matches
  <2>. QED  BY <2>3, SweepStartsNext
<1>13. MatchesAre(Order[d])'
  <2>1. DOMAIN matches' = 1 .. Len(times')
    BY <1>7, <1>9
  <2>2. \A j \in 1 .. N : matches'[j] \in F /\ times'[j] = events[matches'[j]].ts
    BY <1>7, <1>8
  <2>3. ASSUME NEW j \in 1 .. N, NEW k \in 1 .. N, matches'[j] = matches'[k] PROVE j = k
    <3>1. matches'[j] \in F
      BY <1>7
    <3>2. <<matches'[j], matches'[k]>> \notin R /\ <<matches'[k], matches'[j]>> \notin R
      BY <1>6, <2>3, <3>1 DEF Orders
    <3>3. ~(j < k) /\ ~(k < j)
      BY <1>7, <3>2
    <3>. QED  BY <1>7, <3>3
  <2>4. Fired(Order[d])' = F
    BY <1>2, <1>3 DEF Fired, F
  <2>. QED  BY <1>2, <1>7, <1>9, <2>1, <2>2, <2>3, <2>4 DEF MatchesAre
<1>14. \A c \in ClusterKinds : Order[d] = c.kind => least' = c.least
  BY <1>2 DEF ClusterKinds
<1>15. Sweeping'
  BY <1>1, <1>2, <1>11, <1>12, <1>13, <1>14 DEF Sweeping, ClusterKinds
<1>16. DetectType'
  BY <1>1, <1>2, <1>3 DEF DetectType, AllPhases
<1>17. SingleSound' /\ SingleComplete' /\ ClusterSound' /\ ClusterComplete'
  BY <1>1, <1>2, ToldStays
<1>. QED  BY <1>2, <1>15, <1>16, <1>17 DEF DetectInv

LEMMA SweepKillsKeeps ==
  ASSUME DetectInv, SweepKills
  PROVE  DetectInv'
<1>1. /\ DetectType /\ SingleSound /\ SingleComplete /\ ClusterSound /\ ClusterComplete /\ Sweeping
      /\ phase = "sweep" /\ phase' = "sweep" /\ events' = events /\ d' = d /\ results' = results
      /\ matches' = matches /\ Sweep
  BY DEF DetectInv, SweepKills, input
<1>2. times' = times /\ least' = least
  BY <1>1 DEF Sweep, Report, MoveOn
<1>3. SweepInv'
  BY <1>1, ReportKeeps, MoveOnKeeps DEF Sweep, Sweeping
<1>4. /\ \A kind : Fired(kind)' = Fired(kind)
      /\ EventsOK' /\ Detections' = Detections
  BY <1>1, EventsStay DEF DetectType
<1>5. MatchesAre(Order[d])'
  BY <1>1, <1>2, <1>4 DEF MatchesAre, Sweeping
<1>6. Sweeping'
  BY <1>1, <1>2, <1>3, <1>5 DEF Sweeping, ClusterKinds
<1>7. DetectType'
  BY <1>1, <1>4 DEF DetectType, AllPhases
<1>8. SingleSound' /\ SingleComplete' /\ ClusterSound' /\ ClusterComplete'
  BY <1>1, ToldStays
<1>. QED  BY <1>1, <1>6, <1>7, <1>8 DEF DetectInv

(* A cluster detector has told of every window of its sweep, and of no     *)
(* other: the detector before it told of its own kind.                     *)
LEMMA SweptKeeps ==
  ASSUME DetectInv, Swept
  PROVE  DetectInv'
<1> DEFINE N   == Len(windows)
           kind == Order[d]
           new == [ w \in DOMAIN windows |->
                      Detection(d, times[windows[w].first], events[matches[windows[w].last]]) ]
<1>1. /\ DetectType /\ SingleSound /\ SingleComplete /\ ClusterSound /\ ClusterComplete /\ Sweeping
      /\ phase = "sweep" /\ phase' = "detect" /\ d' = d + 1 /\ events' = events
      /\ i > Len(times)
      /\ results' = results \o new
  BY DEF DetectInv, Swept, input
<1>2. d \in 1 .. 31 /\ (d = 21 \/ d = 22) /\ kind \in Clusters
  <2>1. d \in 1 .. 32 /\ d <= 31 /\ kind \in Clusters
    BY <1>1 DEF DetectType, Sweeping
  <2>2. d \in 1 .. 31
    BY <2>1
  <2>. QED  BY <2>1, <2>2, Tables DEF Clusters
<1>3. /\ Len(times) \in Nat /\ N \in Nat /\ DOMAIN windows = 1 .. N
      /\ \A w \in 1 .. N : windows[w].first \in 1 .. Len(times) /\ windows[w].last \in 1 .. Len(times)
  BY <1>1, SweptTimes DEF Sweeping
<1>4. \A j \in 1 .. Len(times) : matches[j] \in DOMAIN events /\ times[j] = events[matches[j]].ts
  BY <1>1 DEF Sweeping, MatchesAre, Fired
<1>5. new \in Seq(Detections) /\ Len(new) = N
  <2>1. \A w \in 1 .. N : new[w] \in Detections
    <3> SUFFICES ASSUME NEW w \in 1 .. N PROVE new[w] \in Detections
      OBVIOUS
    <3>1. matches[windows[w].last] \in DOMAIN events /\ matches[windows[w].first] \in DOMAIN events
          /\ times[windows[w].first] = events[matches[windows[w].first]].ts
      BY <1>3, <1>4
    <3>. QED  BY <1>2, <1>3, <3>1, DetectionIn
  <2>2. new \in [1 .. N -> Detections]
    BY <1>3, <2>1
  <2>. HIDE DEF new
  <2>. QED  BY <1>3, <2>2
<1>6. \A w \in 1 .. N : new[w].d = d /\ new[w].ts = times[windows[w].first]
  BY <1>3, DetectionHas
<1>. HIDE DEF new, N
<1>7. /\ results' \in Seq(Detections)
      /\ Len(results) \in Nat /\ DOMAIN results = 1 .. Len(results)
      /\ DOMAIN results' = 1 .. Len(results) + N
      /\ \A k \in 1 .. Len(results) : results'[k] = results[k] /\ results[k] \in Detections
      /\ \A k \in 1 .. N : results'[Len(results) + k] = new[k]
      /\ \A k \in DOMAIN results' : k \in 1 .. Len(results) \/ \E m \in 1 .. N : k = Len(results) + m
  BY <1>1, <1>5, Appended
<1>8. /\ \A y : Fired(y)' = Fired(y)
      /\ \A y, t : Around(y, t)' = Around(y, t)
      /\ EventsOK /\ EventsOK' /\ Detections' = Detections
  BY <1>1, EventsStay DEF DetectType
<1>9. \A k \in 1 .. Len(results) : results[k].d \in 1 .. 31 /\ results[k].d < d /\ Order[results[k].d] # kind
  <2> SUFFICES ASSUME NEW k \in 1 .. Len(results)
               PROVE  results[k].d \in 1 .. 31 /\ results[k].d < d /\ Order[results[k].d] # kind
    OBVIOUS
  <2>1. results[k].d \in 1 .. 31 /\ results[k].d < d
    BY <1>1, <1>7, <1>8, DetectionParts DEF SingleSound
  <2>2. ASSUME Order[results[k].d] = kind PROVE FALSE
    <3>1. results[k].d = d
      BY <1>2, <2>1, <2>2, Tables DEF Clusters
    <3>2. \A x, y \in 1 .. 31 : x = y => ~(x < y)
      OBVIOUS
    <3>. QED  BY <2>1, <3>1, <3>2, Zenon
  <2>. QED  BY <2>1, <2>2
<1>10. ASSUME NEW c \in ClusterKinds, c.kind # kind
       PROVE  /\ DetectionsOf(c.kind)' = DetectionsOf(c.kind)
              /\ \A k \in DetectionsOf(c.kind) : k \in 1 .. Len(results) /\ results'[k] = results[k]
  <2>1. ASSUME NEW k \in DOMAIN results', Order[results'[k].d] = c.kind PROVE k \in 1 .. Len(results)
    BY <1>6, <1>7, <1>10, <2>1
  <2>2. DetectionsOf(c.kind)' = { k \in DOMAIN results' : Order[results'[k].d] = c.kind }
    BY DEF DetectionsOf, ClusterKinds
  <2>4. 1 .. Len(results) \subseteq DOMAIN results'
    BY <1>3, <1>7 DEF N
  <2>5. \A k \in DOMAIN results' : Order[results'[k].d] = c.kind <=> k \in DOMAIN results /\ Order[results[k].d] = c.kind
    BY <1>7, <2>1, <2>4
  <2>. QED  BY <1>7, <2>2, <2>4, <2>5 DEF DetectionsOf
<1>11. ASSUME NEW c \in ClusterKinds, c.kind = kind
       PROVE  /\ least = c.least
              /\ \A k \in DetectionsOf(c.kind)' : \E w \in 1 .. N :
                   k = Len(results) + w /\ results'[k].ts = times[windows[w].first]
              /\ \A w \in 1 .. N : /\ Len(results) + w \in DetectionsOf(c.kind)'
                                   /\ results'[Len(results) + w].ts = times[windows[w].first]
  <2>1. DetectionsOf(c.kind)' = { k \in DOMAIN results' : Order[results'[k].d] = c.kind }
    BY DEF DetectionsOf, ClusterKinds
  <2>2. ASSUME NEW k \in DetectionsOf(c.kind)'
        PROVE  \E w \in 1 .. N : k = Len(results) + w /\ results'[k].ts = times[windows[w].first]
    <3>1. k \in DOMAIN results' /\ Order[results'[k].d] = c.kind
      BY <2>1
    <3>2. k \notin 1 .. Len(results)
      BY <1>7, <1>9, <1>11, <3>1
    <3>. QED  BY <1>6, <1>7, <3>1, <3>2
  <2>3. ASSUME NEW w \in 1 .. N
        PROVE  /\ Len(results) + w \in DetectionsOf(c.kind)'
               /\ results'[Len(results) + w].ts = times[windows[w].first]
    <3>1. Len(results) + w \in DOMAIN results'
      BY <1>3, <1>7 DEF N
    <3>. QED  BY <1>6, <1>7, <1>11, <2>1, <3>1
  <2>4. least = c.least
    BY <1>1, <1>11 DEF Sweeping
  <2>. QED  BY <2>2, <2>3, <2>4
<1>12. DetectType'
  BY <1>1, <1>2, <1>7, <1>8 DEF DetectType, AllPhases
<1>13. SingleSound'
  <2> SUFFICES ASSUME NEW k \in DOMAIN results'
               PROVE  /\ results'[k].d < d + 1
                      /\ Order[results'[k].d] \notin Clusters =>
                           \E n \in Fired(Order[results'[k].d]) :
                             results'[k] = Detection(results'[k].d, events[n].ts, events[n])
    BY <1>1, <1>8 DEF SingleSound
  <2>1. CASE k \in 1 .. Len(results)
    <3>1. results'[k] = results[k] /\ results[k].d < d /\ results[k].d \in 1 .. 31
      BY <1>7, <1>9, <2>1
    <3>2. Order[results[k].d] \notin Clusters =>
            \E n \in Fired(Order[results[k].d]) : results[k] = Detection(results[k].d, events[n].ts, events[n])
      BY <1>1, <1>7, <2>1 DEF SingleSound
    <3>. QED  BY <1>2, <3>1, <3>2
  <2>2. CASE \E m \in 1 .. N : k = Len(results) + m
    BY <1>2, <1>6, <1>7, <2>2
  <2>. QED  BY <1>7, <2>1, <2>2
<1>14. SingleComplete'
  <2> SUFFICES ASSUME NEW c \in 1 .. d, Order[c] \notin Clusters, NEW n \in Fired(Order[c])
               PROVE  \E k \in DOMAIN results' : results'[k] = Detection(c, events[n].ts, events[n])
    <3>1. d' - 1 = d
      BY <1>1, <1>2
    <3>. QED  BY <1>1, <1>8, <3>1, ZenonT(40) DEF SingleComplete
  <2>1. c \in 1 .. d - 1
    <3>1. c # d
      BY <1>2
    <3>. QED  BY <1>2, <3>1
  <2>2. PICK k \in DOMAIN results : results[k] = Detection(c, events[n].ts, events[n])
    BY <1>1, <2>1 DEF SingleComplete
  <2>. QED  BY <1>3, <1>7, <2>2 DEF N
<1>15. ClusterSound'
  <2> SUFFICES ASSUME NEW c \in ClusterKinds
               PROVE  /\ \A k \in DetectionsOf(c.kind)' : Cardinality(Around(c.kind, results'[k].ts)) >= c.least
                      /\ \A k, l \in DetectionsOf(c.kind)' : k < l => results'[l].ts > results'[k].ts + Window
    BY <1>8 DEF ClusterSound, ClusterKinds
  <2>1. CASE c.kind # kind
    BY <1>1, <1>10, <2>1 DEF ClusterSound
  <2>2. CASE c.kind = kind
    <3>1. ASSUME NEW k \in DetectionsOf(c.kind)' PROVE Cardinality(Around(c.kind, results'[k].ts)) >= c.least
      <4>1. PICK w \in 1 .. N : k = Len(results) + w /\ results'[k].ts = times[windows[w].first]
        BY <1>11, <2>2, <3>1
      <4>. QED  BY <1>1, <1>8, <1>11, <2>2, <4>1, WindowIsFull DEF Sweeping, N
    <3>2. ASSUME NEW k \in DetectionsOf(c.kind)', NEW l \in DetectionsOf(c.kind)', k < l
          PROVE  results'[l].ts > results'[k].ts + Window
      <4>1. PICK v \in 1 .. N : k = Len(results) + v /\ results'[k].ts = times[windows[v].first]
        BY <1>11, <2>2
      <4>2. PICK w \in 1 .. N : l = Len(results) + w /\ results'[l].ts = times[windows[w].first]
        BY <1>11, <2>2
      <4>3. v < w
        BY <1>3, <1>7, <3>2, <4>1, <4>2 DEF N
      <4>. QED  BY <1>1, <4>1, <4>2, <4>3, WindowsApart DEF Sweeping, N
    <3>. QED  BY <3>1, <3>2
  <2>. QED  BY <2>1, <2>2
<1>16. ClusterComplete'
  <2> SUFFICES ASSUME NEW j \in 1 .. d, NEW c \in ClusterKinds, Order[j] = c.kind, NEW n \in Fired(c.kind),
                      Cardinality(Around(c.kind, events[n].ts)) >= c.least
               PROVE  \E k \in DetectionsOf(c.kind)' : n \in Around(c.kind, results'[k].ts)
    <3>1. d' - 1 = d
      BY <1>1, <1>2
    <3>. QED  BY <1>1, <1>8, <3>1, ZenonT(40) DEF ClusterComplete, ClusterKinds, ToldOf
  <2>1. CASE c.kind = kind
    <3>1. PICK w \in 1 .. N : n \in Around(c.kind, times[windows[w].first])
      BY <1>1, <1>8, <1>11, <2>1, ClusterIsTold DEF Sweeping, N
    <3>. QED  BY <1>11, <2>1, <3>1
  <2>2. CASE c.kind # kind
    <3>1. j \in 1 .. d - 1
      BY <1>2, <2>2
    <3>2. PICK k \in DetectionsOf(c.kind) : n \in Around(c.kind, results[k].ts)
      BY <1>1, <3>1 DEF ClusterComplete, ToldOf
    <3>. QED  BY <1>10, <2>2, <3>2
  <2>. QED  BY <2>1, <2>2
<1>. QED  BY <1>1, <1>12, <1>13, <1>14, <1>15, <1>16 DEF DetectInv

(* The sort orders detections of a kind by time as they were found.        *)
LEMMA SortKeeps ==
  ASSUME DetectInv, Sort
  PROVE  DetectInv'
<1> DEFINE D == DOMAIN results
           R == { mn \in D \X D : Precedes(mn[1], mn[2]) }
           a == Arranged(D, R)
           ts(k) == results[k].ts
           te(k) == Technique[results[k].d]
<1>1. /\ DetectType /\ SingleSound /\ SingleComplete /\ ClusterSound /\ ClusterComplete
      /\ phase' = "done" /\ d > Len(Order) /\ events' = events /\ d' = d
      /\ results' = [n \in D |-> results[a[n]]]
  BY DEF DetectInv, Sort, input
<1>2. /\ \A y : Fired(y)' = Fired(y)
      /\ \A y, t : Around(y, t)' = Around(y, t)
      /\ EventsOK /\ EventsOK' /\ Detections' = Detections
  BY <1>1, EventsStay DEF DetectType
<1>3. results \in Seq(Detections) /\ Len(results) \in Nat /\ D = 1 .. Len(results)
  BY <1>1, LenProperties DEF DetectType
<1>4. \A k \in D : results[k] \in Detections /\ ts(k) \in Int /\ te(k) \in Int /\ k \in Int
  <2>1. \A k \in D : results[k] \in Detections /\ k \in Int
    BY <1>3
  <2>. QED  BY <1>2, <2>1, DetectionParts, Tables
<1>5. \A m, n \in D : <<m, n>> \in R <=>
         \/ ts(m) < ts(n)
         \/ ts(m) = ts(n) /\ te(m) < te(n)
         \/ ts(m) = ts(n) /\ te(m) = te(n) /\ m < n
  BY DEF Precedes
<1>6. IsFiniteSet(D) /\ Cardinality(D) = Len(results)
  BY <1>3, SeqPositions
<1>. HIDE DEF R, ts, te, D
<1>7. Orders(R, D)
  <2>1. \A x \in D : <<x, x>> \notin R
    BY <1>4, <1>5
  <2>2. ASSUME NEW x \in D, NEW y \in D, NEW z \in D, <<x, y>> \in R, <<y, z>> \in R
        PROVE  <<x, z>> \in R
    BY <1>4, <1>5, <2>2
  <2>3. ASSUME NEW x \in D, NEW y \in D PROVE x = y \/ <<x, y>> \in R \/ <<y, x>> \in R
    BY <1>4, <1>5
  <2>. QED  BY <2>1, <2>2, <2>3 DEF Orders
<1>8. /\ a \in [D -> D]
      /\ \A x \in D : \E r \in D : a[r] = x
      /\ \A q, r \in D : q < r <=> <<a[q], a[r]>> \in R
  BY <1>3, <1>6, <1>7, ArrangedInOrder
<1>. HIDE DEF a
<1>9. DOMAIN results' = D /\ \A k \in D : a[k] \in D /\ results'[k] = results[a[k]]
  BY <1>1, <1>8
<1>10. \A x \in D : \E k \in DOMAIN results' : a[k] = x /\ results'[k] = results[x]
  BY <1>8, <1>9
<1>11. results' \in Seq(Detections)
  <2>1. results' \in [1 .. Len(results) -> Detections]
    BY <1>1, <1>3, <1>4, <1>9
  <2>. QED  BY <1>3, <2>1
<1>12. \A c \in ClusterKinds : \A k : k \in DetectionsOf(c.kind)' <=> k \in D /\ a[k] \in DetectionsOf(c.kind)
  <2>1. \A c \in ClusterKinds : DetectionsOf(c.kind)' = { k \in DOMAIN results' : Order[results'[k].d] = c.kind }
    BY DEF DetectionsOf, ClusterKinds
  <2>. QED  BY <1>9, <2>1 DEF DetectionsOf, D
<1>13. DetectType'
  BY <1>1, <1>2, <1>11 DEF DetectType, AllPhases
<1>14. SingleSound'
  BY <1>1, <1>2, <1>9 DEF SingleSound, D
<1>15. SingleComplete'
  <2> SUFFICES ASSUME NEW c \in 1 .. d - 1, Order[c] \notin Clusters, NEW n \in Fired(Order[c])
               PROVE  \E k \in DOMAIN results' : results'[k] = Detection(c, events[n].ts, events[n])
    BY <1>1, <1>2 DEF SingleComplete
  <2>1. PICK k \in D : results[k] = Detection(c, events[n].ts, events[n])
    BY <1>1 DEF SingleComplete, D
  <2>. QED  BY <1>10, <2>1
<1>16. ClusterSound'
  <2> SUFFICES ASSUME NEW c \in ClusterKinds
               PROVE  /\ \A k \in DetectionsOf(c.kind)' : Cardinality(Around(c.kind, results'[k].ts)) >= c.least
                      /\ \A k, l \in DetectionsOf(c.kind)' : k < l => results'[l].ts > results'[k].ts + Window
    BY <1>2 DEF ClusterSound, ClusterKinds
  <2>1. \A k \in DetectionsOf(c.kind)' : Cardinality(Around(c.kind, results'[k].ts)) >= c.least
    BY <1>1, <1>9, <1>12 DEF ClusterSound
  <2>2. ASSUME NEW k \in DetectionsOf(c.kind)', NEW l \in DetectionsOf(c.kind)', k < l
        PROVE  results'[l].ts > results'[k].ts + Window
    <3>1. /\ k \in D /\ l \in D /\ a[k] \in DetectionsOf(c.kind) /\ a[l] \in DetectionsOf(c.kind)
          /\ a[k] \in D /\ a[l] \in D
      BY <1>9, <1>12
    <3>2. <<a[k], a[l]>> \in R
      BY <1>8, <2>2, <3>1
    <3>3. a[k] \in Int /\ a[l] \in Int /\ ts(a[k]) \in Int /\ ts(a[l]) \in Int /\ Window \in Nat
      BY <1>4, <3>1, WindowAssumption
    <3>4. a[k] # a[l] /\ ts(a[k]) <= ts(a[l])
      BY <1>4, <1>5, <1>7, <3>1, <3>2, <3>3 DEF Orders
    <3>5. a[k] < a[l] => ts(a[l]) > ts(a[k]) + Window
      BY <1>1, <3>1 DEF ClusterSound, ts
    <3>6. a[l] < a[k] => ts(a[k]) > ts(a[l]) + Window
      BY <1>1, <3>1 DEF ClusterSound, ts
    <3>7. ts(a[l]) > ts(a[k]) + Window
      BY <3>3, <3>4, <3>5, <3>6
    <3>. QED  BY <1>9, <3>1, <3>7 DEF ts
  <2>. QED  BY <2>1, <2>2
<1>17. ClusterComplete'
  <2> SUFFICES ASSUME NEW j \in 1 .. d - 1, NEW c \in ClusterKinds, Order[j] = c.kind, NEW n \in Fired(c.kind),
                      Cardinality(Around(c.kind, events[n].ts)) >= c.least
               PROVE  \E k \in DetectionsOf(c.kind)' : n \in Around(c.kind, results'[k].ts)
    BY <1>1, <1>2 DEF ClusterComplete, ClusterKinds, ToldOf
  <2>1. PICK x \in DetectionsOf(c.kind) : n \in Around(c.kind, results[x].ts)
    BY <1>1 DEF ClusterComplete, ToldOf
  <2>2. x \in D
    BY DEF DetectionsOf, D
  <2>. QED  BY <1>9, <1>10, <1>12, <2>1, <2>2
<1>18. d = 32
  <2>1. d \in 1 .. 32 /\ d > 31
    BY <1>1, Tables DEF DetectType
  <2>. QED  BY <2>1
<1>. QED  BY <1>1, <1>13, <1>14, <1>15, <1>16, <1>17, <1>18 DEF DetectInv

LEMMA CheckSessionsKeeps ==
  ASSUME DetectInv, CheckSessions
  PROVE  DetectInv'
<1>1. phase' = "checked" /\ results' = results /\ events' = events /\ d' = d
  BY DEF CheckSessions, input
<1>2. EventsOK' /\ Detections' = Detections
  BY <1>1, EventsStay DEF DetectInv, DetectType
<1>3. DetectType'
  BY <1>1, <1>2 DEF DetectInv, DetectType, AllPhases
<1>. QED  BY <1>1, <1>3 DEF DetectInv

LEMMA StutterKeeps ==
  ASSUME DetectInv, UNCHANGED vars
  PROVE  DetectInv'
<1>1. /\ phase' = phase /\ results' = results /\ events' = events /\ d' = d /\ matches' = matches
      /\ least' = least /\ times' = times /\ i' = i /\ windows' = windows
  BY DEF vars, sweep
<1>2. EventsOK' /\ Detections' = Detections /\ \A y : Fired(y)' = Fired(y)
  BY <1>1, EventsStay DEF DetectInv, DetectType
<1>3. DetectType'
  BY <1>1, <1>2 DEF DetectInv, DetectType, AllPhases
<1>4. ASSUME SweepInv PROVE SweepInv'
  BY <1>1, <1>4 DEF SweepInv, SweepTypeOK, Sorted, ClustersReported, ReportsApart, InWindow,
                    IsCluster, Matches, WindowsAreWhole
<1>5. ASSUME Sweeping PROVE Sweeping'
  <2>1. MatchesAre(Order[d])'
    BY <1>1, <1>2, <1>5 DEF Sweeping, MatchesAre
  <2>. QED  BY <1>1, <1>4, <1>5, <2>1 DEF Sweeping, ClusterKinds
<1>6. ASSUME SingleSound, SingleComplete, ClusterSound, ClusterComplete
      PROVE  SingleSound' /\ SingleComplete' /\ ClusterSound' /\ ClusterComplete'
  BY <1>1, <1>6, ToldStays
<1>. QED  BY <1>1, <1>3, <1>5, <1>6 DEF DetectInv

(* At every moment of the call detect_all has told, for the detectors that *)
(* are behind it, of each event on which one fires, of each burst of kills *)
(* and of nothing else, and the sort loses none.                           *)
THEOREM DetectCorrect == Spec => []DetectInv
<1>1. DetectInv /\ [Next]_vars => DetectInv'
  BY DetectKeeps, PanicKeeps, MatchKeeps, SweepKillsKeeps, SweptKeeps, SortKeeps,
     CheckSessionsKeeps, StutterKeeps DEF Next
<1>. QED  BY <1>1, DetectStarts, PTL DEF Spec

(* No burst of kills is missed, whatever the order of the slice, however   *)
(* long the window and whatever the thresholds: the first kill of a        *)
(* cluster lies in the window of a detection.                              *)
THEOREM ClustersAreTold == Spec => []ClustersTold
<1>1. DetectInv => ClustersTold
  <2> SUFFICES ASSUME DetectInv, phase = "done", NEW c \in ClusterKinds PROVE ToldOf(c)
    BY DEF ClustersTold, ToldOf
  <2>1. d = 32 /\ ClusterComplete
    BY DEF DetectInv
  <2>2. c.kind = Order[21] \/ c.kind = Order[22]
    BY Tables DEF ClusterKinds
  <2>. QED  BY <2>1, <2>2 DEF ClusterComplete
<1>. QED  BY <1>1, DetectCorrect, PTL

(* No detection of a burst is made up, and none is made twice.             *)
THEOREM ClustersAreGenuine == Spec => []ClustersGenuine
<1>1. DetectInv => ClustersGenuine
  BY DEF DetectInv, ClustersGenuine, ClusterSound
<1>. QED  BY <1>1, DetectCorrect, PTL

-----------------------------------------------------------------------------
(* One activity in two logs. *)

(* What the detectors read of the two events is the same.                  *)
LEMMA SameReading ==
  ASSUME NEW e, NEW f, SameActivity(e, f)
  PROVE  /\ e.eid = 4688 /\ e.channel = "Security" /\ f.eid = 1 /\ f.channel = "Sysmon"
         /\ IsProcessEvent(e) /\ IsProcessEvent(f) /\ IsProcessLike(e) /\ IsProcessLike(f)
         /\ ~ScriptLogged(e) /\ ~ScriptLogged(f)
         /\ Image(e).base = Image(f).base
         /\ Either(e, "NewProcessName", "Image").base = Either(f, "NewProcessName", "Image").base
         /\ Parent(e).base = Parent(f).base
         /\ Command(e) = Command(f)
<1>1. e.eid = 4688 /\ e.channel = "Security" /\ f.eid = 1 /\ f.channel = "Sysmon"
  BY DEF SameActivity, From
<1>2. Image(e) = Text(e, "NewProcessName") /\ Image(f) = Text(f, "Image")
  BY DEF SameActivity, Image, Either, Text
<1>3. /\ Either(e, "NewProcessName", "Image") = Text(e, "NewProcessName")
      /\ Either(f, "NewProcessName", "Image") = Text(f, "Image")
  BY DEF SameActivity, Either, Text
<1>4. Parent(e) = Text(e, "ParentProcessName") /\ Parent(f) = Text(f, "ParentImage")
  BY DEF SameActivity, Parent, Either, Text
<1>5. IsProcessEvent(e) /\ IsProcessEvent(f) /\ IsProcessLike(e) /\ IsProcessLike(f)
  BY <1>1 DEF IsProcessEvent, IsProcessLike, From
<1>6. ~ScriptLogged(e) /\ ~ScriptLogged(f)
  BY <1>1 DEF ScriptLogged, From
<1>. QED  BY <1>1, <1>2, <1>3, <1>4, <1>5, <1>6 DEF SameActivity

(* The detectors of other events are silent, *)
LEMMA OthersSilent ==
  ASSUME NEW e, NEW f, SameActivity(e, f)
  PROVE  /\ ~ByovdDriverInstall(e) /\ ~ByovdDriverInstall(f)
         /\ ~HvciRegistryTamper(e) /\ ~HvciRegistryTamper(f)
         /\ ~VssDeletion(e) /\ ~VssDeletion(f)
         /\ ~HypervVmShutdown(e) /\ ~HypervVmShutdown(f)
         /\ ~ScheduledTaskCreation(e) /\ ~ScheduledTaskCreation(f)
         /\ ~PsScriptBlockQwcrypt(e) /\ ~PsScriptBlockQwcrypt(f)
         /\ ~RansomNoteCreated(e) /\ ~RansomNoteCreated(f)
         /\ ~WebClientServiceStart(e) /\ ~WebClientServiceStart(f)
         /\ ~AdExplorerRecon(e) /\ ~AdExplorerRecon(f)
         /\ ~ZemanaDriverLoad(e) /\ ~ZemanaDriverLoad(f)
         /\ ~DllSideloadHijack(e) /\ ~DllSideloadHijack(f)
         /\ ~PsHistoryWipe(e) /\ ~PsHistoryWipe(f)
         /\ ~FakeBrowserTask(e) /\ ~FakeBrowserTask(f)
         /\ ~WorkersDevDnsQuery(e) /\ ~WorkersDevDnsQuery(f)
         /\ ~DefenderDisabled(e) /\ ~DefenderDisabled(f)
         /\ ~RmmToolInstall(e) /\ ~RmmToolInstall(f)
         /\ ~RdpEnabled(e) /\ ~RdpEnabled(f)
         /\ ~LocalAdminCreation(e) /\ ~LocalAdminCreation(f)
         /\ ~SmbAdminShareAccess(e) /\ ~SmbAdminShareAccess(f)
<1>1. e.eid = 4688 /\ e.channel = "Security" /\ f.eid = 1 /\ f.channel = "Sysmon"
      /\ ~ScriptLogged(e) /\ ~ScriptLogged(f)
  BY SameReading
<1>2. ~ByovdDriverInstall(e) /\ ~ByovdDriverInstall(f)
  BY <1>1 DEF ByovdDriverInstall, From, Sysmon
<1>3. ~HvciRegistryTamper(e) /\ ~HvciRegistryTamper(f)
  BY <1>1 DEF HvciRegistryTamper, From, Sysmon
<1>4. ~VssDeletion(e) /\ ~VssDeletion(f)
  BY <1>1 DEF VssDeletion, From, Sysmon
<1>5. ~HypervVmShutdown(e) /\ ~HypervVmShutdown(f)
  BY <1>1 DEF HypervVmShutdown, From, Sysmon
<1>6. ~ScheduledTaskCreation(e) /\ ~ScheduledTaskCreation(f)
  BY <1>1 DEF ScheduledTaskCreation, From, Sysmon
<1>7. ~PsScriptBlockQwcrypt(e) /\ ~PsScriptBlockQwcrypt(f)
  BY <1>1 DEF PsScriptBlockQwcrypt, From, Sysmon
<1>8. ~RansomNoteCreated(e) /\ ~RansomNoteCreated(f)
  BY <1>1 DEF RansomNoteCreated, From, Sysmon
<1>9. ~WebClientServiceStart(e) /\ ~WebClientServiceStart(f)
  BY <1>1 DEF WebClientServiceStart, From, Sysmon
<1>10. ~AdExplorerRecon(e) /\ ~AdExplorerRecon(f)
  BY <1>1 DEF AdExplorerRecon, From, Sysmon
<1>11. ~ZemanaDriverLoad(e) /\ ~ZemanaDriverLoad(f)
  BY <1>1 DEF ZemanaDriverLoad, From, Sysmon
<1>12. ~DllSideloadHijack(e) /\ ~DllSideloadHijack(f)
  BY <1>1 DEF DllSideloadHijack, From, Sysmon
<1>13. ~PsHistoryWipe(e) /\ ~PsHistoryWipe(f)
  BY <1>1 DEF PsHistoryWipe, From, Sysmon
<1>14. ~FakeBrowserTask(e) /\ ~FakeBrowserTask(f)
  BY <1>1 DEF FakeBrowserTask, From, Sysmon
<1>15. ~WorkersDevDnsQuery(e) /\ ~WorkersDevDnsQuery(f)
  BY <1>1 DEF WorkersDevDnsQuery, From, Sysmon
<1>16. ~DefenderDisabled(e) /\ ~DefenderDisabled(f)
  BY <1>1 DEF DefenderDisabled, From, Sysmon, TampersByScript
<1>17. ~RmmToolInstall(e) /\ ~RmmToolInstall(f)
  BY <1>1 DEF RmmToolInstall, From, Sysmon
<1>18. ~RdpEnabled(e) /\ ~RdpEnabled(f)
  BY <1>1 DEF RdpEnabled, From, Sysmon
<1>19. ~LocalAdminCreation(e) /\ ~LocalAdminCreation(f)
  BY <1>1 DEF LocalAdminCreation, From, Sysmon
<1>20. ~SmbAdminShareAccess(e) /\ ~SmbAdminShareAccess(f)
  BY <1>1 DEF SmbAdminShareAccess, From, Sysmon
<1>. QED  BY <1>2, <1>3, <1>4, <1>5, <1>6, <1>7, <1>8, <1>9, <1>10, <1>11, <1>12, <1>13, <1>14, <1>15, <1>16, <1>17, <1>18, <1>19, <1>20

(* and those of processes, but for the one of 7-Zip, judge both alike.     *)
LEMMA ProcessesAlike ==
  ASSUME NEW e, NEW f, SameActivity(e, f)
  PROVE  /\ QwcryptProcessExecution(e) <=> QwcryptProcessExecution(f)
         /\ WebdavLolbinUsage(e) <=> WebdavLolbinUsage(f)
         /\ RpivotChisel(e) <=> RpivotChisel(f)
         /\ WmiLateralMovement(e) <=> WmiLateralMovement(f)
         /\ VssAdminWmicDelete(e) <=> VssAdminWmicDelete(f)
         /\ BcdeditRecoveryTamper(e) <=> BcdeditRecoveryTamper(f)
         /\ WevtutilLogClear(e) <=> WevtutilLogClear(f)
         /\ ComsvcslsassDump(e) <=> ComsvcslsassDump(f)
         /\ ExplorerLolbinExecution(e) <=> ExplorerLolbinExecution(f)
<1>1. /\ e.eid = 4688 /\ e.channel = "Security" /\ f.eid = 1 /\ f.channel = "Sysmon"
      /\ IsProcessEvent(e) /\ IsProcessEvent(f) /\ IsProcessLike(e) /\ IsProcessLike(f)
      /\ ~ScriptLogged(e) /\ ~ScriptLogged(f)
  BY SameReading
<1>2. /\ Image(e).base = Image(f).base
      /\ Either(e, "NewProcessName", "Image").base = Either(f, "NewProcessName", "Image").base
      /\ Parent(e).base = Parent(f).base
      /\ Command(e) = Command(f)
  BY SameReading
<1>3. QwcryptProcessExecution(e) <=> QwcryptProcessExecution(f)
  BY <1>1, <1>2 DEF QwcryptProcessExecution, From, BaseIn, Sysmon
<1>4. WebdavLolbinUsage(e) <=> WebdavLolbinUsage(f)
  BY <1>1, <1>2 DEF WebdavLolbinUsage, From, BaseIn, Sysmon
<1>5. RpivotChisel(e) <=> RpivotChisel(f)
  BY <1>1, <1>2 DEF RpivotChisel, From, BaseIn, Sysmon
<1>6. WmiLateralMovement(e) <=> WmiLateralMovement(f)
  BY <1>1, <1>2 DEF WmiLateralMovement, From, BaseIn, Sysmon
<1>7. VssAdminWmicDelete(e) <=> VssAdminWmicDelete(f)
  BY <1>1, <1>2 DEF VssAdminWmicDelete, From, BaseIn, Sysmon
<1>8. BcdeditRecoveryTamper(e) <=> BcdeditRecoveryTamper(f)
  BY <1>1, <1>2 DEF BcdeditRecoveryTamper, From, BaseIn, Sysmon
<1>9. WevtutilLogClear(e) <=> WevtutilLogClear(f)
  <2>1. WevtutilLogClear(e) <=> BaseIn(Image(e), {"wevtutil.exe"}) /\ Says(Command(e), ClearsLog)
    BY <1>1 DEF WevtutilLogClear, ClearsByScript
  <2>2. WevtutilLogClear(f) <=> BaseIn(Image(f), {"wevtutil.exe"}) /\ Says(Command(f), ClearsLog)
    BY <1>1 DEF WevtutilLogClear, ClearsByScript
  <2>. QED  BY <1>2, <2>1, <2>2 DEF BaseIn
<1>10. ComsvcslsassDump(e) <=> ComsvcslsassDump(f)
  BY <1>1, <1>2 DEF ComsvcslsassDump, From, BaseIn, Sysmon
<1>11. ExplorerLolbinExecution(e) <=> ExplorerLolbinExecution(f)
  BY <1>1, <1>2 DEF ExplorerLolbinExecution, From, BaseIn, Sysmon
<1>. QED  BY <1>3, <1>4, <1>5, <1>6, <1>7, <1>8, <1>9, <1>10, <1>11

LEMMA SameFires ==
  ASSUME NEW e, NEW f, SameActivity(e, f), NEW j \in 1 .. 31, Order[j] \notin Excepted
  PROVE  Fires(Order[j], e) <=> Fires(Order[j], f)
<1>1. Order[j] \in {"ByovdDriverInstall", "HvciRegistryTamper", "VssDeletion", "HypervVmShutdown", "ScheduledTaskCreation", "QwcryptProcessExecution", "PsScriptBlockQwcrypt", "WebdavLolbinUsage", "RansomNoteCreated", "WebClientServiceStart", "AdExplorerRecon", "ZemanaDriverLoad", "DllSideloadHijack", "PsHistoryWipe", "RpivotChisel", "WmiLateralMovement", "FakeBrowserTask", "WorkersDevDnsQuery", "VssAdminWmicDelete", "BcdeditRecoveryTamper", "WevtutilLogClear", "DefenderDisabled", "ComsvcslsassDump", "RmmToolInstall", "RdpEnabled", "LocalAdminCreation", "SmbAdminShareAccess", "ExplorerLolbinExecution"}
  BY DEF Order, Excepted, Clusters
<1>2. Fires("ByovdDriverInstall", e) <=> Fires("ByovdDriverInstall", f)
  BY OthersSilent DEF Fires
<1>3. Fires("HvciRegistryTamper", e) <=> Fires("HvciRegistryTamper", f)
  BY OthersSilent DEF Fires
<1>4. Fires("VssDeletion", e) <=> Fires("VssDeletion", f)
  BY OthersSilent DEF Fires
<1>5. Fires("HypervVmShutdown", e) <=> Fires("HypervVmShutdown", f)
  BY OthersSilent DEF Fires
<1>6. Fires("ScheduledTaskCreation", e) <=> Fires("ScheduledTaskCreation", f)
  BY OthersSilent DEF Fires
<1>7. Fires("QwcryptProcessExecution", e) <=> Fires("QwcryptProcessExecution", f)
  BY ProcessesAlike DEF Fires
<1>8. Fires("PsScriptBlockQwcrypt", e) <=> Fires("PsScriptBlockQwcrypt", f)
  BY OthersSilent DEF Fires
<1>9. Fires("WebdavLolbinUsage", e) <=> Fires("WebdavLolbinUsage", f)
  BY ProcessesAlike DEF Fires
<1>10. Fires("RansomNoteCreated", e) <=> Fires("RansomNoteCreated", f)
  BY OthersSilent DEF Fires
<1>11. Fires("WebClientServiceStart", e) <=> Fires("WebClientServiceStart", f)
  BY OthersSilent DEF Fires
<1>12. Fires("AdExplorerRecon", e) <=> Fires("AdExplorerRecon", f)
  BY OthersSilent DEF Fires
<1>13. Fires("ZemanaDriverLoad", e) <=> Fires("ZemanaDriverLoad", f)
  BY OthersSilent DEF Fires
<1>14. Fires("DllSideloadHijack", e) <=> Fires("DllSideloadHijack", f)
  BY OthersSilent DEF Fires
<1>15. Fires("PsHistoryWipe", e) <=> Fires("PsHistoryWipe", f)
  BY OthersSilent DEF Fires
<1>16. Fires("RpivotChisel", e) <=> Fires("RpivotChisel", f)
  BY ProcessesAlike DEF Fires
<1>17. Fires("WmiLateralMovement", e) <=> Fires("WmiLateralMovement", f)
  BY ProcessesAlike DEF Fires
<1>18. Fires("FakeBrowserTask", e) <=> Fires("FakeBrowserTask", f)
  BY OthersSilent DEF Fires
<1>19. Fires("WorkersDevDnsQuery", e) <=> Fires("WorkersDevDnsQuery", f)
  BY OthersSilent DEF Fires
<1>20. Fires("VssAdminWmicDelete", e) <=> Fires("VssAdminWmicDelete", f)
  BY ProcessesAlike DEF Fires
<1>21. Fires("BcdeditRecoveryTamper", e) <=> Fires("BcdeditRecoveryTamper", f)
  BY ProcessesAlike DEF Fires
<1>22. Fires("WevtutilLogClear", e) <=> Fires("WevtutilLogClear", f)
  BY ProcessesAlike DEF Fires
<1>23. Fires("DefenderDisabled", e) <=> Fires("DefenderDisabled", f)
  BY OthersSilent DEF Fires
<1>24. Fires("ComsvcslsassDump", e) <=> Fires("ComsvcslsassDump", f)
  BY ProcessesAlike DEF Fires
<1>25. Fires("RmmToolInstall", e) <=> Fires("RmmToolInstall", f)
  BY OthersSilent DEF Fires
<1>26. Fires("RdpEnabled", e) <=> Fires("RdpEnabled", f)
  BY OthersSilent DEF Fires
<1>27. Fires("LocalAdminCreation", e) <=> Fires("LocalAdminCreation", f)
  BY OthersSilent DEF Fires
<1>28. Fires("SmbAdminShareAccess", e) <=> Fires("SmbAdminShareAccess", f)
  BY OthersSilent DEF Fires
<1>29. Fires("ExplorerLolbinExecution", e) <=> Fires("ExplorerLolbinExecution", f)
  BY ProcessesAlike DEF Fires
<1>. QED  BY <1>1, <1>2, <1>3, <1>4, <1>5, <1>6, <1>7, <1>8, <1>9, <1>10, <1>11, <1>12, <1>13, <1>14, <1>15, <1>16, <1>17, <1>18, <1>19, <1>20, <1>21, <1>22, <1>23, <1>24, <1>25, <1>26, <1>27, <1>28, <1>29

(* What is told of an event that is recognised is what fires on it.        *)
LEMMA KindsAre ==
  ASSUME DetectInv, phase = "done", NEW m \in DOMAIN events, Recognised(m), NEW j \in 1 .. 31,
         Order[j] \notin Clusters
  PROVE  Order[j] \in KindsOf(events[m]) <=> Fires(Order[j], events[m])
<1>1. d = 32 /\ SingleSound /\ SingleComplete
  BY DEF DetectInv
<1>2. ASSUME Fires(Order[j], events[m]) PROVE Order[j] \in KindsOf(events[m])
  <2>1. m \in Fired(Order[j])
    BY <1>2 DEF Fired
  <2>2. PICK k \in DOMAIN results : results[k] = Detection(j, events[m].ts, events[m])
    BY <1>1, <2>1 DEF SingleComplete
  <2>3. results[k].d = j /\ SameStamp(results[k], events[m])
    BY <2>2 DEF Detection, SameStamp
  <2>. QED  BY <2>3 DEF KindsOf
<1>3. ASSUME Order[j] \in KindsOf(events[m]) PROVE Fires(Order[j], events[m])
  <2>1. PICK k \in DOMAIN results : SameStamp(results[k], events[m]) /\ Order[results[k].d] = Order[j]
    BY <1>3 DEF KindsOf
  <2>2. PICK n \in Fired(Order[j]) : results[k] = Detection(results[k].d, events[n].ts, events[n])
    BY <1>1, <2>1 DEF SingleSound
  <2>3. SameStamp(events[n], events[m])
    BY <2>1, <2>2 DEF Detection, SameStamp
  <2>4. n \in DOMAIN events /\ Fires(Order[j], events[n])
    BY DEF Fired
  <2>. QED  BY <2>3, <2>4 DEF Recognised
<1>. QED  BY <1>2, <1>3

LEMMA KindsHaveOrder ==
  ASSUME DetectInv, NEW e, NEW x \in KindsOf(e)
  PROVE  \E j \in 1 .. 31 : x = Order[j]
<1>1. PICK k \in DOMAIN results : x = Order[results[k].d]
  BY DEF KindsOf
<1>2. results[k] \in Detections /\ EventsOK
  BY ElementOfSeq, LenProperties DEF DetectInv, DetectType
<1>. QED  BY <1>1, <1>2, DetectionParts

(* A process creation is told alike from the Security log and from Sysmon, *)
(* whatever else is in the slice: each of 28 detectors (not that of 7-Zip, *)
(* nor those of clusters) fires on both events or on neither, and what is  *)
(* told of an event is what fired on it.                                   *)
THEOREM ActivityTold == Spec => []ActivityDecides
<1>1. ASSUME DetectInv, phase = "done", NEW m \in DOMAIN events, NEW n \in DOMAIN events,
             SameActivity(events[m], events[n]), Recognised(m), Recognised(n), NEW x, x \notin Excepted
      PROVE  x \in KindsOf(events[m]) <=> x \in KindsOf(events[n])
  <2>1. ASSUME NEW j \in 1 .. 31, Order[j] = x
        PROVE  Order[j] \in KindsOf(events[m]) <=> Order[j] \in KindsOf(events[n])
    <3>1. Order[j] \notin Excepted /\ Order[j] \notin Clusters
      BY <1>1, <2>1 DEF Excepted
    <3>2. Fires(Order[j], events[m]) <=> Fires(Order[j], events[n])
      BY <1>1, <3>1, SameFires
    <3>. QED  BY <1>1, <3>1, <3>2, KindsAre
  <2>. QED  BY <1>1, <2>1, KindsHaveOrder
<1>2. DetectInv => ActivityDecides
  BY <1>1 DEF ActivityDecides
<1>. QED  BY <1>2, DetectCorrect, PTL

-----------------------------------------------------------------------------
(* The trace sessions. *)

\* The indicators are those of the sessions of one image.
SessionsInv ==
  /\ phase \in {"sessions", "checked"} => sessions \in Images
  /\ phase = "checked" =>
       told = ({"MissingEventLogSession"} \X Missing)
                \cup UNION { Indicators(s) \X {s.name} : s \in sessions }

(* A session that does not record is told of,  *)
LEMMA SilentIsTold ==
  ASSUME sessions \in Images, NEW s \in sessions, s.name \in Required, ~Records(s)
  PROVE  \E x \in Indicators(s) : TRUE
<1>1. s.eventlog /\ s.buffers \in Nat /\ s.lost \in Nat /\ LostThreshold \in Nat
  BY DetectorsAssumption
<1>2. CASE ~s.running
  <2>1. "SessionStopped" \in Indicators(s)
    BY <1>1, <1>2 DEF Indicators, EventLogSessions
  <2>. QED  BY <2>1
<1>3. CASE s.running /\ ~(s.buffers > 0)
  <2>1. s.buffers = 0
    BY <1>1, <1>3
  <2>2. "ZeroBuffers" \in Indicators(s)
    BY <1>3, <2>1 DEF Indicators
  <2>. QED  BY <2>2
<1>4. CASE s.mode = 0
  <2>1. "SuspiciousLogMode" \in Indicators(s)
    BY <1>4 DEF Indicators
  <2>. QED  BY <2>1
<1>5. CASE ~(s.lost <= LostThreshold)
  <2>1. s.lost > LostThreshold
    BY <1>1, <1>5
  <2>2. "HighEventsLost" \in Indicators(s)
    BY <2>1 DEF Indicators
  <2>. QED  BY <2>2
<1>. QED  BY <1>2, <1>3, <1>4, <1>5 DEF Records

(* No event log goes unrecorded in silence, for every image and threshold: *)
(* whatever hides its session, an indicator bears the session's name.      *)
THEOREM BlindSpotsAreTold == Spec => []BlindSpotsTold
<1>1. Init => SessionsInv
  BY DEF Init, SessionsInv
<1>2. SessionsInv /\ [Next]_vars => SessionsInv'
  <2> SUFFICES ASSUME SessionsInv, [Next]_vars PROVE SessionsInv'
    OBVIOUS
  <2>1. CASE CheckSessions
    <3>1. /\ phase = "sessions" /\ phase' = "checked" /\ sessions' = sessions
          /\ told' = ({"MissingEventLogSession"} \X Missing)
                       \cup UNION { Indicators(s) \X {s.name} : s \in sessions }
      BY <2>1 DEF CheckSessions, input
    <3>2. Missing' = Missing /\ \A s : Indicators(s)' = Indicators(s)
      BY <3>1 DEF Missing, Indicators, EventLogSessions
    <3>. QED  BY <3>1, <3>2 DEF SessionsInv
  <2>2. CASE Detect \/ Panic \/ Match \/ SweepKills \/ Swept \/ Sort
    <3>1. phase \notin {"sessions", "checked"} /\ phase' \notin {"sessions", "checked"}
      BY <2>2 DEF Detect, Panic, Match, SweepKills, Swept, Sort, Detecting
    <3>. QED  BY <3>1 DEF SessionsInv
  <2>3. CASE UNCHANGED vars
    <3>1. phase' = phase /\ sessions' = sessions /\ told' = told
      BY <2>3 DEF vars
    <3>2. Missing' = Missing /\ \A s : Indicators(s)' = Indicators(s)
      BY <3>1 DEF Missing, Indicators, EventLogSessions
    <3>. QED  BY <3>1, <3>2 DEF SessionsInv
  <2>. QED  BY <2>1, <2>2, <2>3 DEF Next
<1>3. ASSUME SessionsInv, phase = "checked", NEW name \in Required,
             \A s \in sessions : s.name = name => ~Records(s)
      PROVE  \E x \in told : x[2] = name
  <2>1. CASE \E s \in sessions : s.name = name
    <3>1. PICK s \in sessions : s.name = name
      BY <2>1
    <3>2. PICK x \in Indicators(s) : TRUE
      BY <1>3, <3>1, SilentIsTold DEF SessionsInv
    <3>3. <<x, name>> \in Indicators(s) \X {s.name}
      BY <3>1, <3>2
    <3>4. <<x, name>> \in told
      BY <1>3, <3>3 DEF SessionsInv
    <3>. QED  BY <3>4
  <2>2. CASE ~\E s \in sessions : s.name = name
    <3>1. name \in Missing
      BY <2>2 DEF Missing
    <3>2. <<"MissingEventLogSession", name>> \in told
      BY <1>3, <3>1 DEF SessionsInv
    <3>. QED  BY <3>2
  <2>. QED  BY <2>1, <2>2
<1>4. SessionsInv => BlindSpotsTold
  BY <1>3 DEF BlindSpotsTold
<1>. QED  BY <1>1, <1>2, <1>4, PTL DEF Spec
=============================================================================
