---------------------------- MODULE MCIdempotency ----------------------------
(* A request, a retry of it, and a call that reuses the key.                *)
EXTENDS Idempotency, TLC

CONSTANTS c1, c2, d1

MCPayload == [c \in Calls |-> IF c = d1 THEN "q" ELSE "p"]
Retries == Permutations(Calls \ {d1})
=============================================================================
