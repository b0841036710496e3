------------------------------- MODULE RedLock -------------------------------
(***************************************************************************)
(* framework/locks over several Redis nodes: RedLock.acquire asks the      *)
(* nodes one after the other, holds the lock when a quorum of them said    *)
(* yes, and release asks all of them again.  Time passes in seconds.       *)
(***************************************************************************)
EXTENDS Integers, FiniteSets

CONSTANTS
    Procs,      \* processes with a RedLock of the same name
    N,          \* number of nodes
    Quorum,     \* len(backends) // 2 + 1, or the caller's
    TTL,        \* ttl, in seconds
    None        \* no owner

Nodes == 1 .. N

ASSUME ParameterAssumption ==
    N \in Nat \ {0} /\ Quorum \in Nat /\ 2 * Quorum > N /\ TTL \in Nat \ {0}
ASSUME NoneAssumption == None \notin Procs

VARIABLES
    key,        \* lock:<name> on each node
    pc,         \* where each process is
    next,       \* the node it asks next
    got,        \* the nodes that said yes in this acquire
    age         \* seconds since its acquire began, TTL at most

vars == <<key, pc, next, got, age>>

Free == [owner |-> None, ttl |-> 0]

TypeOK ==
    /\ key \in [Nodes -> [owner : Procs \cup {None}, ttl : 0 .. TTL]]
    /\ pc \in [Procs -> {"idle", "asking", "held", "releasing", "refused"}]
    /\ next \in [Procs -> 1 .. N + 1]
    /\ got \in [Procs -> SUBSET Nodes]
    /\ age \in [Procs -> 0 .. TTL]

Init ==
    /\ key = [n \in Nodes |-> Free]
    /\ pc = [p \in Procs |-> "idle"]
    /\ next = [p \in Procs |-> 1]
    /\ got = [p \in Procs |-> {}]
    /\ age = [p \in Procs |-> 0]

-----------------------------------------------------------------------------
\* Slip: the answers of the acquire before are counted again.
BeginKeeps(p) ==
    /\ pc[p] \in {"idle", "refused"}
    /\ pc' = [pc EXCEPT ![p] = "asking"]
    /\ next' = [next EXCEPT ![p] = 1]
    /\ age' = [age EXCEPT ![p] = 0]
    /\ UNCHANGED <<key, got>>

Begin(p) ==
    /\ pc[p] \in {"idle", "refused"}
    /\ pc' = [pc EXCEPT ![p] = "asking"]
    /\ next' = [next EXCEPT ![p] = 1]
    /\ got' = [got EXCEPT ![p] = {}]
    /\ age' = [age EXCEPT ![p] = 0]
    /\ UNCHANGED key

\* One SET NX PX.  An unreachable node counts as a refusal, and so does one
\* whose answer is lost after it has set the key.
Ask(p) ==
    /\ pc[p] = "asking"
    /\ next[p] <= N
    /\ next' = [next EXCEPT ![p] = @ + 1]
    /\ LET n == next[p] IN
       \/ /\ key[n].owner = None
          /\ key' = [key EXCEPT ![n] = [owner |-> p, ttl |-> TTL]]
          /\ got' = [got EXCEPT ![p] = @ \cup {n}] \/ UNCHANGED got
       \/ UNCHANGED <<key, got>>
    /\ UNCHANGED <<pc, age>>

\* Slip: half of the nodes is enough.
ConcludeHalf(p) ==
    /\ pc[p] = "asking"
    /\ next[p] = N + 1
    /\ pc' = [pc EXCEPT ![p] =
                 IF Cardinality(got[p]) < N \div 2 THEN "refused" ELSE "held"]
    /\ UNCHANGED <<key, next, got, age>>

\* Below the quorum, release() is called; it returns at once, for _held is
\* not set yet.
Conclude(p) ==
    /\ pc[p] = "asking"
    /\ next[p] = N + 1
    /\ pc' = [pc EXCEPT ![p] =
                 IF Cardinality(got[p]) < Quorum THEN "refused" ELSE "held"]
    /\ UNCHANGED <<key, next, got, age>>

BeginRelease(p) ==
    /\ pc[p] = "held"
    /\ pc' = [pc EXCEPT ![p] = "releasing"]
    /\ next' = [next EXCEPT ![p] = 1]
    /\ UNCHANGED <<key, got, age>>

\* One LUA_RELEASE; an unreachable node keeps its key.
ReleaseNode(p) ==
    /\ pc[p] = "releasing"
    /\ next[p] <= N
    /\ next' = [next EXCEPT ![p] = @ + 1]
    /\ \/ /\ key[next[p]].owner = p
          /\ key' = [key EXCEPT ![next[p]] = Free]
       \/ UNCHANGED key
    /\ UNCHANGED <<pc, got, age>>

EndRelease(p) ==
    /\ pc[p] = "releasing"
    /\ next[p] = N + 1
    /\ pc' = [pc EXCEPT ![p] = "idle"]
    /\ UNCHANGED <<key, next, got, age>>

Crash(p) ==
    /\ pc[p] \in {"asking", "held", "releasing"}
    /\ pc' = [pc EXCEPT ![p] = "idle"]
    /\ UNCHANGED <<key, next, got, age>>

Tick ==
    /\ key' = [n \in Nodes |-> IF key[n].ttl <= 1 THEN Free
                               ELSE [owner |-> key[n].owner, ttl |-> key[n].ttl - 1]]
    /\ age' = [p \in Procs |-> IF age[p] < TTL THEN age[p] + 1 ELSE TTL]
    /\ UNCHANGED <<pc, next, got>>

Next ==
    \/ Tick
    \/ \E p \in Procs :
          \/ Begin(p) \/ Ask(p) \/ Conclude(p) \/ BeginRelease(p)
          \/ ReleaseNode(p) \/ EndRelease(p) \/ Crash(p)

Spec == Init /\ [][Next]_vars

-----------------------------------------------------------------------------
\* The seconds for which acquire's answer is good, counted from its start.
Valid(p) == pc[p] = "held" /\ age[p] < TTL

\* "At least N/2+1 of the nodes": whatever nodes fail to answer and whichever
\* keys expire, two processes never hold the lock within their validity.
ValidHolderIsAlone == \A p, q \in Procs : Valid(p) /\ Valid(q) => p = q

\* "Roll back on failure": an acquire that was refused leaves nothing behind.
RefusedHoldsNothing ==
    \A p \in Procs, n \in Nodes : pc[p] = "refused" => key[n].owner # p

\* The keys a process counts on are really its own for as long as its lock is
\* valid: they were set after the acquire began.
QuorumInv ==
    /\ \A p \in Procs : pc[p] = "held" => Cardinality(got[p]) >= Quorum
    /\ \A p \in Procs : pc[p] \in {"asking", "held"} /\ age[p] < TTL =>
          \A n \in got[p] : key[n].owner = p /\ key[n].ttl >= TTL - age[p]

IInv == TypeOK /\ QuorumInv
=============================================================================
