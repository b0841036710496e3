---------------------------- MODULE RedLockProofs ----------------------------
(***************************************************************************)
(* RedLock excludes within its validity, for any number of processes and   *)
(* nodes, any quorum above one half and any TTL.                           *)
(***************************************************************************)
EXTENDS RedLock, FiniteSetTheorems, TLAPS

\* Two quorums of nodes have a node in common.
LEMMA QuorumsIntersect ==
    ASSUME NEW A \in SUBSET Nodes, NEW B \in SUBSET Nodes,
           Cardinality(A) >= Quorum, Cardinality(B) >= Quorum
    PROVE  A \cap B # {}
<1>1. IsFiniteSet(Nodes) /\ Cardinality(Nodes) = N
  BY FS_Interval, ParameterAssumption DEF Nodes
<1>2. /\ IsFiniteSet(A) /\ Cardinality(A) \in Nat
      /\ IsFiniteSet(B) /\ Cardinality(B) \in Nat
  BY <1>1, FS_Subset, FS_CardinalityType
<1>3. Cardinality(A) + Cardinality(B) > Cardinality(Nodes)
  BY <1>1, <1>2, ParameterAssumption
<1> QED
  BY <1>1, <1>3, FS_MajoritiesIntersect

LEMMA Initialization == Init => IInv
BY ParameterAssumption DEF Init, IInv, TypeOK, QuorumInv, Free, Nodes

\* Every step keeps the variables in their types.
LEMMA TypeStep == TypeOK /\ [Next]_vars => TypeOK'
<1> SUFFICES ASSUME TypeOK, [Next]_vars PROVE TypeOK'
  OBVIOUS
<1> USE ParameterAssumption DEF TypeOK, Nodes
<1> DEFINE Keys == [owner : Procs \cup {None}, ttl : 0 .. TTL]
<1>1. CASE Tick
  <2>1. \A n \in Nodes :
           (IF key[n].ttl <= 1 THEN Free
            ELSE [owner |-> key[n].owner, ttl |-> key[n].ttl - 1]) \in Keys
    BY DEF Free
  <2> HIDE DEF Keys
  <2>2. key' \in [Nodes -> Keys]
    BY <1>1, <2>1 DEF Tick
  <2>3. age' \in [Procs -> 0 .. TTL]
    BY <1>1 DEF Tick
  <2> QED
    BY <1>1, <2>2, <2>3 DEF Tick, Keys
<1>2. ASSUME NEW p \in Procs, Ask(p) PROVE TypeOK'
  <2>1. next[p] \in Nodes /\ next[p] + 1 \in 1 .. N + 1
    BY <1>2 DEF Ask
  <2>2. [owner |-> p, ttl |-> TTL] \in Keys
    OBVIOUS
  <2> HIDE DEF Keys
  <2>3. key' \in [Nodes -> Keys]
    BY <1>2, <2>1, <2>2 DEF Ask, Keys
  <2>4. got' \in [Procs -> SUBSET Nodes]
    <3>1. got \in [Procs -> SUBSET Nodes]
      OBVIOUS
    <3>2. UNCHANGED got \/ got' = [got EXCEPT ![p] = got[p] \cup {next[p]}]
      BY <1>2 DEF Ask
    <3>3. got[p] \cup {next[p]} \in SUBSET Nodes
      BY <2>1, <3>1
    <3> QED
      BY <3>1, <3>2, <3>3
  <2>5. next' \in [Procs -> 1 .. N + 1]
    BY <1>2, <2>1 DEF Ask
  <2> QED
    BY <1>2, <2>3, <2>4, <2>5 DEF Ask, Keys
<1>3. ASSUME NEW p \in Procs, ReleaseNode(p) PROVE TypeOK'
  <2>1. next[p] \in Nodes /\ next[p] + 1 \in 1 .. N + 1
    BY <1>3 DEF ReleaseNode
  <2>2. Free \in Keys
    BY DEF Free
  <2> HIDE DEF Keys
  <2>3. key' \in [Nodes -> Keys]
    BY <1>3, <2>1, <2>2 DEF ReleaseNode, Keys
  <2>4. next' \in [Procs -> 1 .. N + 1]
    BY <1>3, <2>1 DEF ReleaseNode
  <2> QED
    BY <1>3, <2>3, <2>4 DEF ReleaseNode, Keys
<1>4. ASSUME NEW p \in Procs,
             Begin(p) \/ Conclude(p) \/ BeginRelease(p) \/ EndRelease(p) \/ Crash(p)
      PROVE  TypeOK'
  <2>1. 1 \in 1 .. N + 1 /\ 0 \in 0 .. TTL /\ {} \in SUBSET Nodes
    OBVIOUS
  <2>2. CASE Begin(p)
    <3>1. got' \in [Procs -> SUBSET Nodes]
      <4>1. got \in [Procs -> SUBSET Nodes] /\ got' = [got EXCEPT ![p] = {}]
        BY <2>2 DEF Begin
      <4> QED
        BY <2>1, <4>1
    <3>2. next' \in [Procs -> 1 .. N + 1] /\ age' \in [Procs -> 0 .. TTL]
      BY <2>1, <2>2 DEF Begin
    <3> QED
      BY <2>2, <3>1, <3>2 DEF Begin
  <2>3. CASE Conclude(p) \/ EndRelease(p) \/ Crash(p)
    BY <2>3 DEF Conclude, EndRelease, Crash
  <2>4. CASE BeginRelease(p)
    BY <2>1, <2>4 DEF BeginRelease
  <2> QED
    BY <1>4, <2>2, <2>3, <2>4
<1>5. CASE UNCHANGED vars
  BY <1>5 DEF vars
<1> QED
  BY <1>1, <1>2, <1>3, <1>4, <1>5 DEF Next

\* A second passes: the keys of a valid quorum lose no more of their life than
\* the validity does.
LEMMA QuorumTick ==
    ASSUME IInv, Tick
    PROVE  QuorumInv'
<1> USE ParameterAssumption DEF IInv, TypeOK, QuorumInv
<1>1. ASSUME NEW p \in Procs, pc'[p] \in {"asking", "held"}, age'[p] < TTL,
             NEW n \in got'[p]
      PROVE  key'[n].owner = p /\ key'[n].ttl >= TTL - age'[p]
  <2>1. pc[p] \in {"asking", "held"} /\ n \in got[p] /\ n \in Nodes
    BY <1>1 DEF Tick
  <2>2. age'[p] = age[p] + 1 /\ age[p] < TTL /\ age[p] \in Nat
    BY <1>1 DEF Tick
  <2>3. key[n].owner = p /\ key[n].ttl >= TTL - age[p] /\ key[n].ttl \in Nat
    BY <2>1, <2>2
  <2>4. key[n].ttl > 1
    BY <1>1, <2>2, <2>3
  <2>5. key'[n].owner = key[n].owner /\ key'[n].ttl = key[n].ttl - 1
    BY <2>1, <2>3, <2>4 DEF Tick
  <2> QED
    BY <2>2, <2>3, <2>5
<1> QED
  BY <1>1 DEF Tick

\* A process only writes nodes that nobody else counts on.
LEMMA QuorumStep ==
    ASSUME IInv, NEW p \in Procs,
           \/ Begin(p) \/ Ask(p) \/ Conclude(p) \/ BeginRelease(p)
           \/ ReleaseNode(p) \/ EndRelease(p) \/ Crash(p)
    PROVE  QuorumInv'
<1> USE ParameterAssumption, NoneAssumption DEF IInv, TypeOK, QuorumInv
<1>1. CASE Begin(p)
  BY <1>1 DEF Begin
<1>2. CASE Ask(p)
  <2>1. next[p] \in Nodes
    BY <1>2 DEF Ask, Nodes
  <2>2. \A q \in Procs \ {p} : got'[q] = got[q]
    BY <1>2 DEF Ask
  <2>3. CASE UNCHANGED <<key, got>>
    BY <1>2, <2>3 DEF Ask
  <2>4. CASE /\ key[next[p]].owner = None
             /\ key' = [key EXCEPT ![next[p]] = [owner |-> p, ttl |-> TTL]]
    <3>1. key'[next[p]].owner = p /\ key'[next[p]].ttl = TTL
      BY <2>1, <2>4
    <3>2. \A n \in Nodes \ {next[p]} : key'[n] = key[n]
      BY <2>4
    <3>3. got'[p] \subseteq got[p] \cup {next[p]}
      BY <1>2 DEF Ask
    <3>4. ASSUME NEW q \in Procs, pc'[q] \in {"asking", "held"}, age'[q] < TTL,
                 NEW n \in got'[q]
          PROVE  key'[n].owner = q /\ key'[n].ttl >= TTL - age'[q]
      <4>1. pc[q] = pc'[q] /\ age'[q] = age[q] /\ age[q] \in Nat
        BY <1>2 DEF Ask
      <4>2. CASE n \in got[q]
        <5>1. key[n].owner = q /\ key[n].ttl >= TTL - age[q] /\ n \in Nodes
          BY <3>4, <4>1, <4>2
        <5>2. n # next[p]
          BY <2>4, <5>1
        <5> QED
          BY <3>2, <4>1, <5>1, <5>2
      <4>3. CASE n \notin got[q]
        <5>1. q = p /\ n = next[p]
          BY <2>2, <3>3, <3>4, <4>3
        <5> QED
          BY <3>1, <4>1, <5>1
      <4> QED
        BY <4>2, <4>3
    <3>5. \A q \in Procs : pc'[q] = "held" => Cardinality(got'[q]) >= Quorum
      BY <1>2, <2>2 DEF Ask
    <3> QED
      BY <3>4, <3>5
  <2> QED
    BY <1>2, <2>3, <2>4 DEF Ask
<1>3. CASE Conclude(p)
  <2>1. Cardinality(got[p]) < Quorum \/ Cardinality(got[p]) >= Quorum
    <3>1. IsFiniteSet(Nodes)
      BY FS_Interval DEF Nodes
    <3>2. Cardinality(got[p]) \in Nat
      BY <3>1, FS_Subset, FS_CardinalityType
    <3> QED
      BY <3>2
  <2> QED
    BY <1>3, <2>1 DEF Conclude
<1>4. CASE BeginRelease(p)
  BY <1>4 DEF BeginRelease
<1>5. CASE ReleaseNode(p)
  <2>1. next[p] \in Nodes
    BY <1>5 DEF ReleaseNode, Nodes
  <2>2. \A n \in Nodes : key[n].owner # p => key'[n] = key[n]
    BY <1>5, <2>1 DEF ReleaseNode
  <2>3. UNCHANGED <<pc, got, age>> /\ pc[p] = "releasing"
    BY <1>5 DEF ReleaseNode
  <2> QED
    BY <2>2, <2>3
<1>6. CASE EndRelease(p) \/ Crash(p)
  BY <1>6 DEF EndRelease, Crash
<1> QED
  BY <1>1, <1>2, <1>3, <1>4, <1>5, <1>6

LEMMA Preservation == IInv /\ [Next]_vars => IInv'
<1> SUFFICES ASSUME IInv, [Next]_vars PROVE IInv'
  OBVIOUS
<1>1. TypeOK'
  BY TypeStep DEF IInv
<1>2. CASE Tick
  BY <1>1, <1>2, QuorumTick DEF IInv
<1>3. CASE \E p \in Procs :
              \/ Begin(p) \/ Ask(p) \/ Conclude(p) \/ BeginRelease(p)
              \/ ReleaseNode(p) \/ EndRelease(p) \/ Crash(p)
  BY <1>1, <1>3, QuorumStep DEF IInv
<1>4. CASE UNCHANGED vars
  BY <1>1, <1>4 DEF vars, IInv, QuorumInv
<1> QED
  BY <1>2, <1>3, <1>4 DEF Next

\* The nodes a process counts on carry its key while its lock is valid.
THEOREM QuorumKept == Spec => []IInv
BY Initialization, Preservation, PTL DEF Spec

\* No two processes hold the lock within their validity, whichever nodes are
\* unreachable, lose an answer, or let a key expire.
THEOREM ValidHoldersExclude == Spec => []ValidHolderIsAlone
<1>1. IInv => ValidHolderIsAlone
  <2> SUFFICES ASSUME IInv, NEW p \in Procs, NEW q \in Procs, Valid(p), Valid(q)
               PROVE  p = q
    BY DEF ValidHolderIsAlone
  <2>1. got[p] \cap got[q] # {}
    BY QuorumsIntersect DEF IInv, TypeOK, QuorumInv, Valid
  <2> QED
    BY <2>1 DEF IInv, QuorumInv, Valid
<1> QED
  BY <1>1, QuorumKept, PTL
=============================================================================
