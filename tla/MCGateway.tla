------------------------------- MODULE MCGateway -------------------------------
(* A rule for one of two paths, and the rate of the settings for the other: *)
(* the rule has the shorter window.                                        *)
EXTENDS Gateway, TLC
MCRules == {[paths |-> {"export"}, priority |-> 1, rate |-> [limit |-> 1, window |-> 2]]}
MCDefault == [limit |-> 1, window |-> 3]
=============================================================================
