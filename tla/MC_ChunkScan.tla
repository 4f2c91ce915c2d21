---------------------------- MODULE MC_ChunkScan -----------------------------
(* Model checking of ChunkScan: images with at most MaxMagics chunk magics. *)
EXTENDS ChunkScan

CONSTANT MaxMagics

\* One record in every chunk, right behind its header; none at the last words.
MCFound == [w \in 0 .. N - 1 |-> IF w < N - H THEN {H} ELSE {}]

MCInit ==
  /\ \E M \in { S \in SUBSET Words : Cardinality(S) <= MaxMagics } :
       \E h \in [M -> Heads \ {"none"}] :
         head = [w \in Words |-> IF w \in M THEN h[w] ELSE "none"]
  /\ phase = "scan"
  /\ i = 0
  /\ full = <<>>
  /\ truncated = <<>>
  /\ todo = {}
  /\ carved = <<>>
  /\ chunks = <<>>
  /\ stats = NoStats

MCSpec ==
  MCInit /\ [][Next]_vars /\ WF_vars(Scan) /\ WF_vars(Pool) /\ WF_vars(Merge)
=============================================================================
