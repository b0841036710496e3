--------------------------- MODULE MCCircuitBreaker ---------------------------
(* The thresholds and callers come from the configurations.                 *)
EXTENDS CircuitBreaker
=============================================================================
