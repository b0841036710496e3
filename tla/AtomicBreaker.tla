---------------------------- MODULE AtomicBreaker ----------------------------
(***************************************************************************)
(* What a circuit breaker promises the service it protects: every outcome  *)
(* of a call that it counts, and the end of a pause, changes the breaker   *)
(* at once.  Module CircuitBreaker, where a change is several accesses to  *)
(* a store, is compared with this one.                                     *)
(***************************************************************************)
EXTENDS Naturals

CONSTANTS FailureThreshold, SuccessThreshold, Recovery

VARIABLES
    mode,       \* CLOSED, OPEN or HALF_OPEN
    fails,      \* failures counted, up to FailureThreshold
    wins,       \* successes counted in HALF_OPEN
    pause       \* time since the breaker opened, up to Recovery

vars == <<mode, fails, wins, pause>>

Init == mode = "CLOSED" /\ fails = 0 /\ wins = 0 /\ pause = 0

\* A call after the pause is let through, and the ones after it.
Probe ==
    /\ mode = "OPEN" /\ pause >= Recovery
    /\ mode' = "HALF_OPEN" /\ wins' = 0
    /\ UNCHANGED <<fails, pause>>

\* A success ends a run of failures; enough of them close the breaker, and
\* nothing is left of what opened it.
Success ==
    \/ /\ mode = "CLOSED"
       /\ fails' = 0
       /\ UNCHANGED <<mode, wins>>
    \/ /\ mode = "HALF_OPEN" /\ wins + 1 < SuccessThreshold
       /\ wins' = wins + 1
       /\ UNCHANGED <<mode, fails>>
    \/ /\ mode = "HALF_OPEN" /\ wins + 1 >= SuccessThreshold
       /\ mode' = "CLOSED" /\ fails' = 0 /\ wins' = 0

Trip == mode' = "OPEN" /\ pause' = 0

\* A failure opens a breaker that probes, and one that has counted enough; one
\* that is open, for a call let through before, it may open anew.
Failure ==
    \/ /\ mode = "HALF_OPEN"
       /\ Trip
       /\ UNCHANGED fails
    \/ /\ mode # "HALF_OPEN" /\ fails + 1 < FailureThreshold
       /\ fails' = fails + 1
       /\ UNCHANGED <<mode, pause>>
    \/ /\ mode # "HALF_OPEN" /\ fails + 1 >= FailureThreshold
       /\ fails' = FailureThreshold
       /\ Trip

\* What the breaker has not renewed for long is forgotten.
Lapse ==
    /\ \/ mode # "CLOSED" /\ mode' = "CLOSED" /\ UNCHANGED fails
       \/ fails > 0 /\ fails' = 0 /\ UNCHANGED mode
    /\ UNCHANGED <<wins, pause>>

Wait ==
    /\ pause < Recovery
    /\ pause' = pause + 1
    /\ UNCHANGED <<mode, fails, wins>>

Next ==
    \/ Probe
    \/ Success /\ UNCHANGED pause
    \/ Failure /\ UNCHANGED wins
    \/ Lapse
    \/ Wait

Spec == Init /\ [][Next]_vars
=============================================================================
