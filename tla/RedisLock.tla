------------------------------ MODULE RedisLock ------------------------------
(***************************************************************************)
(* framework/locks on one Redis node: RedisLock objects with one name, the *)
(* key they compete for, its TTL, and the watchdog threads that renew it.  *)
(* Time passes in seconds.                                                 *)
(***************************************************************************)
EXTENDS Integers

CONSTANTS
    Locks,      \* RedisLock objects
    Thread,     \* the owner token of each: one per thread
    TTL,        \* ttl, in seconds
    AutoRenewal, \* auto_renewal
    Late,       \* how many seconds late a renewal may run
    MaxDepth,   \* bound on re-entry
    None        \* no owner

ASSUME ParameterAssumption ==
    /\ TTL \in Nat \ {0} /\ Late \in Nat /\ MaxDepth \in Nat
    /\ AutoRenewal \in BOOLEAN
ASSUME NoneAssumption == \A i \in Locks : Thread[i] # None

VARIABLES
    key,        \* lock:<name> in Redis: its owner and seconds to live
    held,       \* RedisLock._held
    depth,      \* RedisLock._reentrant_count
    dog,        \* is the watchdog running
    due,        \* seconds until its next renewal
    cut         \* has a renewal found Redis unreachable

vars == <<key, held, depth, dog, due, cut>>

\* Slip: the watchdog sleeps for the whole TTL.
IntervalTTL == TTL

\* _start_renewal: max(1, ttl // 3).
Interval == IF TTL \div 3 < 1 THEN 1 ELSE TTL \div 3

Free == [owner |-> None, ttl |-> 0]
OwnedBy(i) == [owner |-> Thread[i], ttl |-> TTL]

Owners == {Thread[i] : i \in Locks}

TypeOK ==
    /\ key \in [owner : Owners \cup {None}, ttl : 0 .. TTL]
    /\ held \in [Locks -> BOOLEAN]
    /\ depth \in [Locks -> Nat]
    /\ dog \in [Locks -> BOOLEAN]
    /\ due \in [Locks -> Int]
    /\ cut \in BOOLEAN

Init ==
    /\ key = Free
    /\ held = [i \in Locks |-> FALSE]
    /\ depth = [i \in Locks |-> 0]
    /\ dog = [i \in Locks |-> FALSE]
    /\ due = [i \in Locks |-> 0]
    /\ cut = FALSE

-----------------------------------------------------------------------------
\* SET NX PX succeeds; the watchdog starts.  An acquire whose wait runs out
\* changes nothing.
Acquire(i) ==
    /\ ~held[i]
    /\ key.owner = None
    /\ key' = OwnedBy(i)
    /\ held' = [held EXCEPT ![i] = TRUE]
    /\ depth' = [depth EXCEPT ![i] = 1]
    /\ dog' = [dog EXCEPT ![i] = AutoRenewal]
    /\ due' = [due EXCEPT ![i] = IF AutoRenewal THEN Interval ELSE 0]
    /\ UNCHANGED cut

\* A lock object that believes it holds the key does not ask Redis.
Reenter(i) ==
    /\ held[i]
    /\ depth[i] < MaxDepth
    /\ depth' = [depth EXCEPT ![i] = @ + 1]
    /\ UNCHANGED <<key, held, dog, due, cut>>

\* Slip: DEL without comparing the token.
DeletedAnyway(i) == Free

\* LUA_RELEASE: delete the key when it carries the caller's token.  When Redis
\* does not answer, the lock object forgets the lock all the same.
Deleted(i) == IF key.owner = Thread[i] THEN Free ELSE key

Release(i) ==
    /\ held[i]
    /\ IF depth[i] > 1
       THEN /\ depth' = [depth EXCEPT ![i] = @ - 1]
            /\ UNCHANGED <<key, held, dog, due>>
       ELSE /\ depth' = [depth EXCEPT ![i] = 0]
            /\ \/ key' = Deleted(i)
               \/ UNCHANGED key
            /\ held' = [held EXCEPT ![i] = FALSE]
            /\ dog' = [dog EXCEPT ![i] = FALSE]
            /\ due' = [due EXCEPT ![i] = 0]
    /\ UNCHANGED cut

\* Slip: the token is compared and the key not extended.
RenewForgets(i) ==
    /\ dog[i]
    /\ due[i] <= 0
    /\ due' = [due EXCEPT ![i] = Interval]
    /\ UNCHANGED <<key, held, depth, dog, cut>>

\* LUA_RENEW: extend the key when it carries the watchdog's token, else stop.
Renew(i) ==
    /\ dog[i]
    /\ due[i] <= 0
    /\ IF key.owner = Thread[i]
       THEN /\ key' = OwnedBy(i)
            /\ due' = [due EXCEPT ![i] = Interval]
            /\ UNCHANGED dog
       ELSE /\ dog' = [dog EXCEPT ![i] = FALSE]
            /\ due' = [due EXCEPT ![i] = 0]
            /\ UNCHANGED key
    /\ UNCHANGED <<held, depth, cut>>

\* Slip: the watchdog outlives the holder.
CrashLeavesDog(i) ==
    /\ held[i]
    /\ held' = [held EXCEPT ![i] = FALSE]
    /\ depth' = [depth EXCEPT ![i] = 0]
    /\ UNCHANGED <<key, dog, due, cut>>

\* One exception of the script call reads as "not the owner": the watchdog ends.
RenewFails(i) ==
    /\ dog[i]
    /\ due[i] <= 0
    /\ dog' = [dog EXCEPT ![i] = FALSE]
    /\ due' = [due EXCEPT ![i] = 0]
    /\ cut' = TRUE
    /\ UNCHANGED <<key, held, depth>>

\* The process dies with its watchdog; the key stays.
Crash(i) ==
    /\ held[i]
    /\ held' = [held EXCEPT ![i] = FALSE]
    /\ depth' = [depth EXCEPT ![i] = 0]
    /\ dog' = [dog EXCEPT ![i] = FALSE]
    /\ due' = [due EXCEPT ![i] = 0]
    /\ UNCHANGED <<key, cut>>

\* One second.  A watchdog whose renewal is due runs within Late seconds.
Tick ==
    /\ \A i \in Locks : dog[i] => due[i] > -Late
    /\ key' = IF key.ttl <= 1 THEN Free ELSE [key EXCEPT !.ttl = @ - 1]
    /\ due' = [i \in Locks |-> IF dog[i] THEN due[i] - 1 ELSE due[i]]
    /\ UNCHANGED <<held, depth, dog, cut>>

Client(i) ==
    \/ Acquire(i) \/ Reenter(i) \/ Release(i)
    \/ Renew(i) \/ RenewFails(i) \/ Crash(i)

Next == Tick \/ \E i \in Locks : Client(i)

Spec == Init /\ [][Next]_vars

\* Time does not stop.
FairSpec == Spec /\ WF_vars(Tick) /\ \A i \in Locks : WF_vars(Renew(i))

-----------------------------------------------------------------------------
\* The renewal reaches Redis before the key can expire.
Timely == AutoRenewal /\ Interval + Late < TTL

\* "The watchdog renews the key while a long task runs, so that the TTL does
\* not expire": until a renewal has failed, at most one lock object believes it
\* holds the lock, whoever dies and whichever release is lost.
Alone == \A i, j \in Locks : held[i] /\ held[j] => i = j
MutualExclusion == ~cut => Alone

\* The key passes from one owner to the next only when that owner lets it go
\* or its time is up; a holder whose lease was lost never frees the next one.
HandedOver ==
    [][key.owner # None /\ key'.owner # key.owner =>
          \/ \E i \in Locks : Thread[i] = key.owner /\ held[i] /\ ~held'[i]
          \/ key.ttl = 1 /\ held' = held]_vars

\* The TTL frees a lock whose holder died ("so that a crashed holder causes no
\* deadlock"): an abandoned key does not stay for ever.
AbandonedIsFreed ==
    (key.owner # None /\ \A i \in Locks : ~held[i])
        ~> (key.owner = None \/ \E i \in Locks : held[i])

-----------------------------------------------------------------------------
\* A holder's watchdog runs, and the key outlives the wait for its renewal.
LeaseInv ==
    \A i \in Locks :
        /\ held[i] => key.owner = Thread[i] /\ dog[i]
        /\ dog[i] => /\ held[i]
                     /\ due[i] \in -Late .. Interval
                     /\ key.ttl >= due[i] + TTL - Interval

IInv == TypeOK /\ (~cut => LeaseInv) /\ MutualExclusion
=============================================================================
