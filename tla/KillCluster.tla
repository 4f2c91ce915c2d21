------------------------------ MODULE KillCluster ------------------------------
(***************************************************************************)
(* The sweep detect_taskkill_av_cluster makes over the kills it matched,   *)
(* sorted by time: a window is opened at a kill, holds every kill up to    *)
(* Window later, and is reported when it holds enough of them; the         *)
(* sweep then goes on behind the window.  A window that holds fewer is     *)
(* dropped and the next one opened at the next kill.                       *)
(* detect_service_stop_avset makes the same sweep over stopped services.   *)
(***************************************************************************)
EXTENDS Integers, Sequences

CONSTANT Window  \* RANSOMWARE_KILL_WINDOW_NS

ASSUME WindowAssumption == Window \in Nat

VARIABLES
  least,    \* RANSOMWARE_KILL_CLUSTER_THRESHOLD, or that of services
  times,    \* the time of each match
  i,        \* where the next window opens
  windows   \* the windows reported: their first and last match

sweep == <<least, times, i, windows>>

Matches == DOMAIN times

\* The matches within Window of match j, from j on: take_while over a sorted
\* list is a filter.
WindowAt(j) == { m \in j .. Len(times) : times[m] <= times[j] + Window }

\* The last match of the window that opens at j.
LastOf(j) == CHOOSE m \in WindowAt(j) : \A n \in WindowAt(j) : n <= m

\* Enough matches lie in the window: as many as there are from j to its end.
Clustered(j) == LastOf(j) - j + 1 >= least

-----------------------------------------------------------------------------
\* matches.sort_by_key, whatever the order of the events was.
SweepInit ==
  /\ least \in Nat \ {0}
  /\ times \in Seq(Int)
  /\ \A a, b \in Matches : a <= b => times[a] <= times[b]
  /\ i = 1
  /\ windows = <<>>

\* Mutant: after a report the next window opens at the next match.
ReportOverlapping ==
  /\ i <= Len(times)
  /\ Clustered(i)
  /\ windows' = Append(windows, [first |-> i, last |-> LastOf(i)])
  /\ i' = i + 1
  /\ UNCHANGED <<least, times>>

Report ==
  /\ i <= Len(times)
  /\ Clustered(i)
  /\ windows' = Append(windows, [first |-> i, last |-> LastOf(i)])
  /\ i' = LastOf(i) + 1
  /\ UNCHANGED <<least, times>>

\* Mutant: a window that is too small is skipped as a whole.
MoveOnWhole ==
  /\ i <= Len(times)
  /\ ~Clustered(i)
  /\ i' = LastOf(i) + 1
  /\ UNCHANGED <<least, times, windows>>

MoveOn ==
  /\ i <= Len(times)
  /\ ~Clustered(i)
  /\ i' = i + 1
  /\ UNCHANGED <<least, times, windows>>

Sweep == Report \/ MoveOn

SweepSpec == SweepInit /\ [][Sweep]_sweep

-----------------------------------------------------------------------------
SweepTypeOK ==
  /\ least \in Nat \ {0}
  /\ times \in Seq(Int)
  /\ i \in 1 .. Len(times) + 1
  /\ windows \in Seq([first : Matches, last : Matches])

InWindow(m) == \E k \in DOMAIN windows : windows[k].first <= m /\ m <= windows[k].last

(* A cluster is a match and least - 1 more behind it within Window.        *)
IsCluster(a, b) == a <= b /\ b - a + 1 >= least /\ times[b] - times[a] <= Window

(* No cluster goes unreported, wherever the windows happen to open: the    *)
(* first kill of every cluster the sweep has passed lies in a reported     *)
(* window, even when the cluster straddles the end of one.                 *)
ClustersReported ==
  \A a, b \in Matches : IsCluster(a, b) /\ a < i => InWindow(a)

(* A kill is evidence for one report only, and a report is a cluster: the  *)
(* windows are apart, in the order of time, and each holds enough kills   *)
(* within Window.                                                          *)
ReportsApart ==
  /\ \A k \in DOMAIN windows : IsCluster(windows[k].first, windows[k].last)
  /\ \A k, l \in DOMAIN windows : k < l => windows[k].last < windows[l].first

=============================================================================
