---------------------------- MODULE MCAlertEngine ----------------------------
(* Two escalation rules of rising level, and a bound on how many take part. *)
EXTENDS AlertEngine, TLC

MCTwoRules == <<[delay |-> 0, level |-> 2], [delay |-> 1, level |-> 3]>>
Alike == Permutations(Events \ Manual) \cup Permutations(Sweeps) \cup Permutations(Users)

\* Bound: states in which more than Busy events, calls and sweeps have begun, a
\* sweep that has ended not counted, are checked but not left.
Busy == 3
Few == Cardinality({e \in Events : pc[e] # "idle"})
       + Cardinality({u \in Users : user[u].kind # "idle"})
       + Cardinality({s \in Sweeps : sweep[s].at = "rows"}) <= Busy
=============================================================================
