--------------------------- MODULE RedisLockProofs ---------------------------
(***************************************************************************)
(* With the watchdog on, and until a renewal fails, RedisLock excludes:    *)
(* for any number of lock objects and threads, for every TTL and every     *)
(* lateness that leave time for a renewal.  Whatever fails, and with any   *)
(* lateness, only its owner or its time takes the key away.                *)
(***************************************************************************)
EXTENDS RedisLock, TLAPS

\* The interval between renewals is a positive number of seconds.
LEMMA IntervalIsPositive == Interval \in Nat /\ Interval >= 1
<1>1. TTL \div 3 \in Int
  BY ParameterAssumption
<1> QED
  BY <1>1 DEF Interval

LEMMA Initialization == Init => IInv
<1> SUFFICES ASSUME Init PROVE IInv
  OBVIOUS
<1>1. TypeOK
  <2>1. key \in [owner : Owners \cup {None}, ttl : 0 .. TTL]
    BY ParameterAssumption DEF Init, Free
  <2>2. cut \in BOOLEAN
    BY DEF Init
  <2> QED
    BY <2>1, <2>2 DEF Init, TypeOK
<1>2. LeaseInv /\ MutualExclusion
  BY DEF Init, LeaseInv, MutualExclusion, Alone
<1> QED
  BY <1>1, <1>2 DEF IInv

\* Every step keeps the variables in their types.
LEMMA TypeStep == TypeOK /\ [Next]_vars => TypeOK'
<1> SUFFICES ASSUME TypeOK, [Next]_vars PROVE TypeOK'
  OBVIOUS
<1> USE ParameterAssumption, IntervalIsPositive
<1>1. /\ \A i \in Locks : OwnedBy(i) \in [owner : Owners \cup {None}, ttl : 0 .. TTL]
      /\ Free \in [owner : Owners \cup {None}, ttl : 0 .. TTL]
  BY DEF OwnedBy, Free, Owners
<1>2. CASE Tick
  <2>1. key.ttl \in 0 .. TTL /\ key.owner \in Owners \cup {None}
    BY DEF TypeOK
  <2>2. key' \in [owner : Owners \cup {None}, ttl : 0 .. TTL]
    <3>1. CASE key.ttl <= 1
      BY <1>1, <1>2, <3>1 DEF Tick
    <3>2. CASE ~(key.ttl <= 1)
      <4>1. key' = [key EXCEPT !.ttl = @ - 1]
        BY <1>2, <3>2 DEF Tick
      <4>2. key.ttl - 1 \in 0 .. TTL
        BY <2>1, <3>2
      <4> QED
        BY <4>1, <4>2 DEF TypeOK
    <3> QED
      BY <3>1, <3>2
  <2> QED
    BY <1>2, <2>2 DEF Tick, TypeOK
<1>3. ASSUME NEW i \in Locks, Client(i) PROVE TypeOK'
  <2>1. CASE Acquire(i)
    BY <1>1, <2>1 DEF Acquire, TypeOK
  <2>2. CASE Reenter(i)
    BY <2>2 DEF Reenter, TypeOK
  <2>3. CASE Release(i)
    <3>1. CASE depth[i] > 1
      BY <2>3, <3>1 DEF Release, TypeOK
    <3>2. CASE ~(depth[i] > 1)
      <4>1. key' \in [owner : Owners \cup {None}, ttl : 0 .. TTL]
        BY <1>1, <2>3, <3>2 DEF Release, Deleted, TypeOK
      <4>2. due' \in [Locks -> Int] /\ depth' \in [Locks -> Nat]
        BY <2>3, <3>2 DEF Release, TypeOK
      <4>3. held' \in [Locks -> BOOLEAN] /\ dog' \in [Locks -> BOOLEAN]
        BY <2>3, <3>2 DEF Release, TypeOK
      <4> QED
        BY <2>3, <4>1, <4>2, <4>3 DEF Release, TypeOK
    <3> QED
      BY <3>1, <3>2
  <2>4. CASE Renew(i)
    <3>1. key' \in [owner : Owners \cup {None}, ttl : 0 .. TTL]
      BY <1>1, <2>4 DEF Renew, TypeOK
    <3>2. due' \in [Locks -> Int]
      BY <2>4 DEF Renew, TypeOK
    <3>3. dog' \in [Locks -> BOOLEAN]
      BY <2>4 DEF Renew, TypeOK
    <3> QED
      BY <2>4, <3>1, <3>2, <3>3 DEF Renew, TypeOK
  <2>5. CASE RenewFails(i)
    BY <2>5 DEF RenewFails, TypeOK
  <2>6. CASE Crash(i)
    BY <2>6 DEF Crash, TypeOK
  <2> QED
    BY <1>3, <2>1, <2>2, <2>3, <2>4, <2>5, <2>6 DEF Client
<1>4. CASE UNCHANGED vars
  BY <1>4 DEF vars, TypeOK
<1> QED
  BY <1>2, <1>3, <1>4 DEF Next

\* A second of time never ends the lease of a holder: its watchdog is due
\* before the key's time is up.
LEMMA LeaseOutlivesTick ==
    ASSUME Timely, IInv, ~cut, Tick
    PROVE  LeaseInv'
<1> USE ParameterAssumption, IntervalIsPositive DEF Timely
<1> SUFFICES ASSUME NEW i \in Locks, dog[i]
             PROVE  /\ key'.owner = key.owner
                    /\ due'[i] \in -Late .. Interval
                    /\ key'.ttl >= due'[i] + TTL - Interval
  BY DEF IInv, LeaseInv, Tick
<1>1. /\ due[i] \in -Late .. Interval /\ due[i] > -Late
      /\ key.ttl >= due[i] + TTL - Interval
      /\ key.ttl \in Nat
  BY DEF IInv, TypeOK, LeaseInv, Tick
<1>2. due'[i] = due[i] - 1 /\ due'[i] \in -Late .. Interval
  BY <1>1 DEF IInv, TypeOK, Tick
<1>3. key.ttl > 1
  BY <1>1
<1>4. key'.owner = key.owner /\ key'.ttl = key.ttl - 1
  BY <1>1, <1>3 DEF Tick, IInv, TypeOK
<1> QED
  BY <1>1, <1>2, <1>4

\* A step of one lock object leaves the leases of the others alone.
LEMMA LeaseStep ==
    ASSUME Timely, IInv, ~cut, ~cut', NEW i \in Locks, Client(i)
    PROVE  LeaseInv' /\ Alone'
<1> USE ParameterAssumption, IntervalIsPositive, NoneAssumption
    DEF IInv, TypeOK, LeaseInv, MutualExclusion, Alone, Timely
<1>1. CASE Acquire(i)
  <2>1. \A j \in Locks : ~held[j] /\ ~dog[j]
    BY <1>1 DEF Acquire
  <2>2. key'.owner = Thread[i] /\ key'.ttl = TTL
    BY <1>1 DEF Acquire, OwnedBy
  <2> QED
    BY <1>1, <2>1, <2>2 DEF Acquire
<1>2. CASE Reenter(i)
  BY <1>2 DEF Reenter
<1>3. CASE Release(i)
  <2>1. \A j \in Locks \ {i} : ~held[j] /\ ~dog[j]
    BY <1>3 DEF Release
  <2> QED
    BY <1>3, <2>1 DEF Release
<1>4. CASE Renew(i)
  <2>1. \A j \in Locks \ {i} : ~held[j] /\ ~dog[j]
    BY <1>4 DEF Renew
  <2>2. held[i] /\ key.owner = Thread[i]
    BY <1>4 DEF Renew
  <2>3. key' = OwnedBy(i) /\ due' = [due EXCEPT ![i] = Interval]
    BY <1>4, <2>2 DEF Renew
  <2>4. key'.owner = Thread[i] /\ key'.ttl = TTL
    BY <2>3 DEF OwnedBy
  <2> QED
    BY <1>4, <2>1, <2>2, <2>3, <2>4 DEF Renew
<1>5. CASE RenewFails(i)
  BY <1>5 DEF RenewFails
<1>6. CASE Crash(i)
  BY <1>6 DEF Crash
<1> QED
  BY <1>1, <1>2, <1>3, <1>4, <1>5, <1>6 DEF Client

\* A failed renewal is never forgotten.
LEMMA CutStays == [Next]_vars /\ cut => cut'
BY DEF Next, vars, Tick, Client, Acquire, Reenter, Release, Renew,
       RenewFails, Crash

LEMMA Preservation == Timely /\ IInv /\ [Next]_vars => IInv'
<1> SUFFICES ASSUME Timely, IInv, [Next]_vars PROVE IInv'
  OBVIOUS
<1>1. TypeOK'
  BY TypeStep DEF IInv
<1>2. ASSUME ~cut' PROVE LeaseInv' /\ Alone'
  <2> ~cut
    BY <1>2, CutStays
  <2>1. CASE Tick
    BY <2>1, LeaseOutlivesTick DEF Tick, IInv, MutualExclusion, Alone
  <2>2. ASSUME NEW i \in Locks, Client(i) PROVE LeaseInv' /\ Alone'
    BY <1>2, <2>2, LeaseStep
  <2>3. CASE UNCHANGED vars
    BY <2>3 DEF vars, IInv, LeaseInv, MutualExclusion, Alone
  <2> QED
    BY <2>1, <2>2, <2>3 DEF Next
<1> QED
  BY <1>1, <1>2 DEF IInv, MutualExclusion

\* Until a renewal fails, every holder's watchdog keeps its lease up.
THEOREM LeasesKept == Timely => (Spec => []IInv)
<1> SUFFICES ASSUME Timely PROVE Spec => []IInv
  OBVIOUS
<1>1. IInv /\ [Next]_vars => IInv'
  BY Preservation
<1> QED
  BY <1>1, Initialization, PTL DEF Spec

\* Until a renewal fails no two lock objects, of one thread or of several, hold
\* the lock together, when the interval and its lateness stay below the TTL.
THEOREM WatchdogExcludes == Timely => (Spec => []MutualExclusion)
<1>1. IInv => MutualExclusion
  BY DEF IInv
<1> QED
  BY <1>1, LeasesKept, PTL

-----------------------------------------------------------------------------
(* How the key changes hands.  Nothing is assumed of the watchdog here: it *)
(* may be off, late or cut off from Redis.                                 *)

\* An owned key has time left.
KeyLives == TypeOK /\ (key.owner # None => key.ttl >= 1)

LEMMA KeyLivesInit == Init => KeyLives
BY Initialization DEF KeyLives, IInv, Init, Free

LEMMA KeyLivesStep == KeyLives /\ [Next]_vars => KeyLives'
<1> SUFFICES ASSUME KeyLives, [Next]_vars PROVE key'.owner # None => key'.ttl >= 1
  BY TypeStep DEF KeyLives
<1>1. TTL \in Nat /\ TTL >= 1
  BY ParameterAssumption
<1>2. Free.owner = None
  BY DEF Free
<1>3. \A i \in Locks : OwnedBy(i).ttl >= 1
  BY <1>1 DEF OwnedBy
<1>4. CASE key' = key
  BY <1>4 DEF KeyLives
<1>5. CASE Tick
  <2>1. key.ttl \in Nat
    BY DEF KeyLives, TypeOK
  <2>2. CASE key.ttl <= 1
    BY <1>2, <1>5, <2>2 DEF Tick
  <2>3. CASE ~(key.ttl <= 1)
    <3>1. key'.ttl = key.ttl - 1
      BY <1>5, <2>3 DEF Tick, KeyLives, TypeOK
    <3> QED
      BY <2>1, <2>3, <3>1
  <2> QED
    BY <2>2, <2>3
<1>6. ASSUME NEW i \in Locks, Client(i) PROVE key' \in {key, Free, OwnedBy(i)}
  BY <1>6 DEF Client, Acquire, Reenter, Release, Deleted, Renew, RenewFails, Crash
<1> QED
  BY <1>2, <1>3, <1>4, <1>5, <1>6 DEF Next, vars

\* Only a release by an object of the owner's thread, or the end of its time,
\* takes the key from an owner.
LEMMA HandOverStep ==
    ASSUME KeyLives, [Next]_vars, key.owner # None, key'.owner # key.owner
    PROVE  \/ \E i \in Locks : Thread[i] = key.owner /\ held[i] /\ ~held'[i]
           \/ key.ttl = 1 /\ held' = held
<1>1. CASE Tick
  <2>1. key.ttl \in Nat /\ key.ttl >= 1
    BY DEF KeyLives, TypeOK
  <2>2. key.ttl <= 1
    BY <1>1 DEF Tick, KeyLives, TypeOK
  <2> QED
    BY <1>1, <2>1, <2>2 DEF Tick
<1>2. ASSUME NEW i \in Locks, Client(i)
      PROVE  Thread[i] = key.owner /\ held[i] /\ ~held'[i]
  <2>1. Release(i)
    <3>1. key' # key
      OBVIOUS
    <3>2. ~Acquire(i)
      BY DEF Acquire
    <3>3. ~Renew(i)
      BY <3>1 DEF Renew, OwnedBy
    <3> QED
      BY <1>2, <3>1, <3>2, <3>3 DEF Client, Reenter, RenewFails, Crash
  <2>2. key.owner = Thread[i] /\ held' = [held EXCEPT ![i] = FALSE]
    BY <2>1 DEF Release, Deleted
  <2> QED
    BY <2>1, <2>2 DEF Release, KeyLives, TypeOK
<1> QED
  BY <1>1, <1>2 DEF Next, vars

\* Whatever TTL, interval and lateness, with the watchdog or without it, and
\* however often Redis fails to answer, nobody but the owner's thread, or the
\* end of its time, takes the key from its owner: LUA_RELEASE and LUA_RENEW
\* never touch the key of the next owner.
THEOREM OwnerLetsGo == Spec => HandedOver
<1>1. Spec => []KeyLives
  BY KeyLivesInit, KeyLivesStep, PTL DEF Spec
<1>2. KeyLives /\ [Next]_vars =>
        [key.owner # None /\ key'.owner # key.owner =>
          \/ \E i \in Locks : Thread[i] = key.owner /\ held[i] /\ ~held'[i]
          \/ key.ttl = 1 /\ held' = held]_vars
  BY HandOverStep
<1> QED
  BY <1>1, <1>2, PTL DEF Spec, HandedOver
=============================================================================
