------------------------------- MODULE Ordering -------------------------------
(***************************************************************************)
(* The members of a finite set in order, and what the modules make of it:  *)
(* stable sorts and filters of sequences.  An order is a set of pairs.     *)
(***************************************************************************)
EXTENDS Integers, Sequences, FiniteSets

\* A sequence of anything.
IsSequence(s) == s \in Seq({ s[k] : k \in DOMAIN s })

\* The members of S, each behind those that R puts before it.
Arranged(S, R) ==
  [r \in 1 .. Cardinality(S) |-> CHOOSE x \in S : Cardinality({ y \in S : <<y, x>> \in R }) = r - 1]

Ascending(S) == Arranged(S, { yx \in S \X S : yx[1] < yx[2] })

\* The elements of s at the positions P, in the order of s.
Only(s, P) ==
  LET a == Ascending(P) IN [r \in 1 .. Cardinality(P) |-> s[a[r]]]

\* A stable sort of s: the position m comes before n where key[m] < key[n], and
\* as it did where the keys are equal; key is a function on the positions.
Before(D, key) ==
  { mn \in D \X D : \/ key[mn[1]] < key[mn[2]]
                    \/ key[mn[1]] = key[mn[2]] /\ mn[1] < mn[2] }

SortedBy(s, key) ==
  LET a == Arranged(1 .. Len(s), Before(1 .. Len(s), key)) IN [r \in 1 .. Len(s) |-> s[a[r]]]
=============================================================================
