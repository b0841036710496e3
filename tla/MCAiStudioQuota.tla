--------------------------- MODULE MCAiStudioQuota ---------------------------
(* Tasks of which the gift pays for two at most, and a deduction that may    *)
(* overwrite what their requests and workers have written.                   *)
EXTENDS AiStudioQuota

CONSTANTS t1, t2, t3, r1

MCCost == [t \in Tasks |-> IF t = t1 THEN 3 ELSE 2]
MCAmount == [r \in Recharges |-> -2]
=============================================================================
