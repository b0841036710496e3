--------------------------- MODULE MCStudioService ---------------------------
(* Three tasks of which the gift pays for two, and not for any two of them:  *)
(* one may be refused under the lock while another waits for it.             *)
EXTENDS StudioService

CONSTANTS t1, t2, t3

MCCost == [t \in Tasks |-> IF t = t3 THEN 2 ELSE 3]
=============================================================================
