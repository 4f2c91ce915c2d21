---------------------------- MODULE MC_RecordWalk ----------------------------
(* Model checking of RecordWalk on a region of MaxLen units with at most    *)
(* MaxMagics magics.  Units scale the code's bytes: the record header is 3  *)
(* units and more than any step, the trailing size one more, the strict     *)
(* step 2, the others 1.  A memory buffer may end in the middle of the size *)
(* field, and its records are at most five units long.                      *)
EXTENDS RecordWalk, FiniteSets

CONSTANTS MaxMagics, Sizes, Steps

MCWindow  == [m \in Modes |-> CASE m = "free" -> 1 [] m = "memory" -> 2 [] OTHER -> 3]
MCMinSize == [m \in Modes |-> IF m = "free" THEN 4 ELSE 3]
MCStep    == [m \in Modes |-> Steps[m]]

StepsCode      == [strict |-> 2, aggressive |-> 1, free |-> 1, memory |-> 1]

MCClaims == [size : Sizes, copy : BOOLEAN, binxml : BOOLEAN]

\* A walk cannot tell two claims apart that differ in a field it never reads.
ClaimsOf(m) ==
  { c \in Claims :
      /\ m = "strict" => c.binxml
      /\ m \in {"free", "memory"} => c.copy
      /\ m = "memory" \/ c.size <= MaxSize
      /\ c.copy \/ c.binxml }

\* The regions that TLC enumerates: few magics, anywhere.  Only an
\* aggressive walk never sees a region of another length.
MCInit ==
  /\ mode \in Modes
  /\ len \in IF mode = "aggressive" THEN {MaxLen} ELSE {MaxLen - 1, MaxLen}
  /\ \E magics \in { M \in SUBSET Positions : Cardinality(M) <= MaxMagics } :
       \E c \in [magics -> ClaimsOf(mode)] :
         claim = [p \in Positions |-> IF p \in magics THEN c[p] ELSE NoClaim]
  /\ pos = 0
  /\ recs = <<>>
  /\ done = FALSE

MCSpec == MCInit /\ [][Next]_vars /\ WF_vars(Next)
=============================================================================
