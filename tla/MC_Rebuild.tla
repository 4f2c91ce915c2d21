----------------------------- MODULE MC_Rebuild ------------------------------
(* Model checking of Rebuild: all short lists of records, and every way in  *)
(* which magics can stand inside their payloads.  The highest id of all is  *)
(* tried in lists of one record.                                            *)
EXTENDS Rebuild

CONSTANTS TestIds, TestSizes, InnerSizes

MCInnerClaims == [size : InnerSizes, copy : {TRUE}, binxml : {TRUE}]

MCInit ==
  /\ n \in 0 .. MaxRecords
  /\ \E s \in [1 .. n -> TestSizes] :
       LET total[r \in 0 .. n] == IF r = 0 THEN 0 ELSE total[r - 1] + s[r]
       IN  ends = total
  /\ id \in [1 .. n -> TestIds]
  /\ n > 1 => \A r \in 1 .. n : id[r] < IdMod - 1
  /\ phase = "split"
  /\ next = 1
  /\ batches = <<>>
  /\ current = <<>>
  /\ size = 0
  /\ out = <<>>
  /\ header = NoHeader
  /\ ReadInit

MCSpec == MCInit /\ [][RebuildNext]_<<vars, readVars>>
=============================================================================
