----------------------------- MODULE ChunkTiling -----------------------------
(***************************************************************************)
(* What carving promises about complete chunks: the image is covered, from *)
(* left to right, by chunk-sized extents that start at a chunk magic, each *)
(* at the first magic behind the extent before it.  An extent is never     *)
(* given up again.  How the magics are looked for is left open.            *)
(***************************************************************************)
EXTENDS Integers

CONSTANTS
  N,   \* words in the image
  C    \* words in a chunk

VARIABLES
  magics,   \* the words of the image that hold the chunk magic
  taken     \* where the extents start

vars == <<magics, taken>>

\* Behind every extent taken so far, with room for a whole chunk.
Free(m) == m + C <= N /\ \A t \in taken : t + C <= m

Init ==
  /\ magics \in SUBSET (0 .. N - 1)
  /\ taken = {}

Take ==
  \E m \in magics :
    /\ Free(m)
    /\ \A n \in magics : Free(n) => m <= n
    /\ taken' = taken \cup {m}
    /\ UNCHANGED magics

Spec == Init /\ [][Take]_vars
=============================================================================
