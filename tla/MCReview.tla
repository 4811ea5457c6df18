------------------------------ MODULE MCReview -------------------------------
(***************************************************************************)
(* Review with line counts that do not tell texts apart: a file may change *)
(* and its entry in the list, stats included, be the same as before.       *)
(***************************************************************************)
EXTENDS Review

LineCounts == [pair \in Texts \X Texts |-> IF pair[1] = pair[2] THEN 0 ELSE 1]
==============================================================================
