-------------------------------- MODULE DbPool --------------------------------
(***************************************************************************)
(* framework/db: the pool of database connections (pool.py), the manager   *)
(* that builds it, closes it on SIGTERM and builds it again on the next    *)
(* use (manager.py), and Django's connection wrapper that borrows from it  *)
(* and returns to it (backends.py), in one process with several threads.   *)
(*                                                                         *)
(* The pool keeps idle connections in a queue.PriorityQueue although       *)
(* PooledConnection defines no order.  heapq compares as soon as there is  *)
(* something to compare: a put next to another entry stores the entry and  *)
(* then raises TypeError; a get from three or more removes an entry and    *)
(* then raises TypeError.  Which entry comes out, the metrics, stats and   *)
(* _active (which only they use) are not modelled.                         *)
(***************************************************************************)
EXTENDS Naturals, FiniteSets

CONSTANTS
    Threads,    \* worker threads, each with its own Django wrapper
    MinSize,    \* min_size
    MaxSize,    \* max_size
    Pools,      \* bound: the pools the manager builds one after the other
    Conns,      \* bound: names for connections, reused once nothing knows them;
                \* no connection is made when they have run out
    None

ASSUME SizeAssumption ==
    /\ MinSize \in Nat /\ MaxSize \in Nat \ {0} /\ Pools \in Nat \ {0}
    /\ Conns \subseteq Nat /\ None \notin Nat /\ None \notin Threads
    /\ IsFiniteSet(Threads) /\ IsFiniteSet(Conns)

VARIABLES
    idle,       \* _pool: the queue of each pool
    created,    \* _created
    closed,     \* _closed
    lock,       \* holder of _lock
    current,    \* the pool the manager hands out, 0 for none
    built,      \* pools built so far
    open,       \* connections the database has open
    pc,         \* where each thread is
    ref,        \* the pool a thread's acquire or release works on
    cand,       \* the connection it is checking or returning
    pooled,     \* wrapper._pooled_conn
    raw         \* wrapper.connection

pools == <<idle, created, closed, lock>>
manager == <<current, built>>
wrapper == <<pooled, raw>>
vars == <<pools, manager, open, pc, ref, cand, wrapper>>

Gens == 1 .. Pools
Held == [Threads -> Conns \cup {None}]
Acquiring == {"enter", "get", "limit", "wait", "check", "drop"}
Releasing == {"return", "put", "dropped"}

TypeOK ==
    /\ idle \in [Gens -> SUBSET Conns]
    /\ created \in [Gens -> 0 .. MaxSize]
    /\ closed \in [Gens -> BOOLEAN]
    /\ lock \in [Gens -> Threads \cup {None}]
    /\ current \in 0 .. Pools /\ built \in 0 .. Pools /\ current <= built
    /\ open \subseteq Conns
    /\ pc \in [Threads -> {"home"} \cup Acquiring \cup Releasing]
    /\ ref \in [Threads -> 0 .. Pools]
    /\ cand \in Held /\ pooled \in Held /\ raw \in Held

-----------------------------------------------------------------------------
(* Connections and pools.                                                  *)

Unknown == {c \in Conns \ open :
               /\ \A g \in Gens : c \notin idle[g]
               /\ \A t \in Threads : c \notin {cand[t], pooled[t], raw[t]}}

\* The n lowest names nothing knows.
Fresh(n) == {c \in Unknown : Cardinality({d \in Unknown : d < c}) < n}

\* _ensure_min_size: the second put raises after it has stored the
\* connection, and the loop ends before it is counted.
Warmed == IF MinSize > 2 THEN 2 ELSE MinSize
WarmCount == IF MinSize > 1 THEN 1 ELSE MinSize

Init ==
    /\ built = 1 /\ current = 1
    /\ \E first \in SUBSET Conns :
          /\ first = {c \in Conns : Cardinality({d \in Conns : d < c}) < Warmed}
          /\ Cardinality(first) = Warmed
          /\ idle = [g \in Gens |-> IF g = 1 THEN first ELSE {}]
          /\ open = first
    /\ created = [g \in Gens |-> IF g = 1 THEN WarmCount ELSE 0]
    /\ closed = [g \in Gens |-> FALSE]
    /\ lock = [g \in Gens |-> None]
    /\ pc = [t \in Threads |-> "home"]
    /\ ref = [t \in Threads |-> 0]
    /\ cand = [t \in Threads |-> None]
    /\ pooled = cand /\ raw = cand

\* ref is a local variable of the call: nothing refers to it afterwards.
Goto(t, where) ==
    /\ pc' = [pc EXCEPT ![t] = where]
    /\ ref' = IF where = "home" THEN [ref EXCEPT ![t] = 0] ELSE ref
\* What a wrapper refers to: an entry lost by the queue is collected, and so
\* closed, only if it is not among these.
Referred == {raw[u] : u \in Threads}

Put(g, c) == idle' = [idle EXCEPT ![g] = @ \cup {c}]
Take(g, c) == idle' = [idle EXCEPT ![g] = @ \ {c}]
Count(g, n) == created' = [created EXCEPT ![g] = n]

\* PoolManager.get: the pool of the alias, built and warmed up when
\* close_all has cleared the pools.  One step: the first users after close_all
\* are taken to find or build one pool (the manager has no lock; see README).
Manage(t, then) ==
    /\ pc' = [pc EXCEPT ![t] = then]
    /\ \/ /\ current # 0
          /\ ref' = [ref EXCEPT ![t] = current]
          /\ UNCHANGED <<pools, manager, open>>
       \/ /\ current = 0
          /\ Cardinality(Fresh(Warmed)) = Warmed     \* bound: Conns
          /\ built' = built + 1 /\ current' = built'
          /\ ref' = [ref EXCEPT ![t] = built']
          /\ idle' = [idle EXCEPT ![built'] = Fresh(Warmed)]
          /\ open' = open \cup Fresh(Warmed)
          /\ Count(built', WarmCount)
          /\ UNCHANGED <<closed, lock>>

-----------------------------------------------------------------------------
(* BasePool.acquire, as get_new_connection calls it.                       *)

\* acquire raises: get_new_connection falls back to a connection of its own,
\* which the database may refuse.  The connections in gone are garbage.
Native(t, gone) ==
    /\ \/ \E c \in Fresh(1) :
             /\ open' = (open \ gone) \cup {c}
             /\ raw' = [raw EXCEPT ![t] = c]
       \/ /\ open' = open \ gone
          /\ UNCHANGED raw
    /\ Goto(t, "home")
    /\ UNCHANGED <<manager, cand, pooled>>

\* ensure_connection, in a request whose wrapper has no connection.
Borrow(t) ==
    /\ pc[t] = "home" /\ raw[t] = None
    /\ Manage(t, "enter")
    /\ UNCHANGED <<cand, wrapper>>

Enter(t) ==
    /\ pc[t] = "enter"
    /\ IF closed[ref[t]]
       THEN Native(t, {})
       ELSE Goto(t, "get") /\ UNCHANGED <<manager, open, cand, wrapper>>
    /\ UNCHANGED pools

\* An entry leaves the queue: handed over, or lost to the TypeError and
\* collected unless a wrapper that returned it still refers to it.
Pop(t, c) ==
    /\ c \in idle[ref[t]]
    /\ Take(ref[t], c)
    /\ IF Cardinality(idle[ref[t]]) <= 2
       THEN /\ cand' = [cand EXCEPT ![t] = c]
            /\ Goto(t, "check")
            /\ UNCHANGED <<open, manager, wrapper>>
       ELSE Native(t, {c} \ Referred)

\* The queue is found empty.
Empty(t, then) ==
    /\ idle[ref[t]] = {}
    /\ Goto(t, then)
    /\ UNCHANGED <<idle, open, cand, manager, wrapper>>

Get(t) ==
    /\ pc[t] = "get"
    /\ (\E c \in Conns : Pop(t, c)) \/ Empty(t, "limit")
    /\ UNCHANGED <<created, closed, lock>>

\* Slip: the new connection is not counted.
CreateUncounted(t) ==
    /\ pc[t] = "limit" /\ lock[ref[t]] = None
    /\ created[ref[t]] < MaxSize
    /\ \E c \in Fresh(1) :
          /\ open' = open \cup {c} /\ cand' = [cand EXCEPT ![t] = c]
    /\ Goto(t, "check")
    /\ UNCHANGED <<idle, created, closed, lock, manager, wrapper>>

Create(t) ==
    /\ pc[t] = "limit" /\ lock[ref[t]] = None
    /\ created[ref[t]] < MaxSize
    /\ \E c \in Fresh(1) :
          /\ open' = open \cup {c} /\ cand' = [cand EXCEPT ![t] = c]
    /\ Count(ref[t], created[ref[t]] + 1)
    /\ Goto(t, "check")
    /\ UNCHANGED <<idle, closed, lock, manager, wrapper>>

\* The database refuses; or the deadline has passed at the limit.
CreateFails(t) ==
    /\ pc[t] = "limit" /\ lock[ref[t]] = None
    /\ created[ref[t]] < MaxSize
    /\ Native(t, {})
    /\ UNCHANGED pools

TimedOut(t) ==
    /\ pc[t] = "limit" /\ lock[ref[t]] = None
    /\ created[ref[t]] >= MaxSize
    /\ Native(t, {})
    /\ UNCHANGED pools

\* The queue's get(timeout=1), with the pool's lock held.
Wait(t) ==
    /\ pc[t] = "limit" /\ lock[ref[t]] = None
    /\ created[ref[t]] >= MaxSize
    /\ lock' = [lock EXCEPT ![ref[t]] = t]
    /\ Goto(t, "wait")
    /\ UNCHANGED <<idle, created, closed, manager, open, cand, wrapper>>

WakeUp(t) ==
    /\ pc[t] = "wait"
    /\ (\E c \in Conns : Pop(t, c)) \/ Empty(t, "get")
    /\ lock' = [lock EXCEPT ![ref[t]] = None]
    /\ UNCHANGED <<created, closed>>

\* Healthy: the wrapper has its connection.
Lend(t) ==
    /\ pc[t] = "check" /\ cand[t] \in open
    /\ cand' = [cand EXCEPT ![t] = None]
    /\ pooled' = [pooled EXCEPT ![t] = cand[t]]
    /\ raw' = [raw EXCEPT ![t] = cand[t]]
    /\ Goto(t, "home")
    /\ UNCHANGED <<pools, manager, open>>

\* _discard: the connection is closed, the count follows under the lock.
Discard(t, then) ==
    /\ open' = open \ {cand[t]}
    /\ cand' = [cand EXCEPT ![t] = None]
    /\ Goto(t, then)

\* _should_discard or a failing pre_ping.
Stale(t) ==
    /\ pc[t] = "check"
    /\ Discard(t, "drop")
    /\ UNCHANGED <<pools, manager, wrapper>>

\* Slip: _created is not decremented.
UncountNot(t) ==
    /\ pc[t] \in {"drop", "dropped"} /\ lock[ref[t]] = None
    /\ Goto(t, IF pc[t] = "drop" THEN "get" ELSE "home")
    /\ UNCHANGED <<pools, manager, open, cand, wrapper>>

Uncount(t) ==
    /\ pc[t] \in {"drop", "dropped"} /\ lock[ref[t]] = None
    /\ Count(ref[t], IF created[ref[t]] = 0 THEN 0 ELSE created[ref[t]] - 1)
    /\ Goto(t, IF pc[t] = "drop" THEN "get" ELSE "home")
    /\ UNCHANGED <<idle, closed, lock, manager, open, cand, wrapper>>

-----------------------------------------------------------------------------
(* Requests, and what Django closes at their start and end.                *)

\* Slip: the wrapper does not forget what it has returned.
CloseRemembers(t) ==
    /\ pc[t] = "home" /\ pooled[t] # None
    /\ Manage(t, "return")
    /\ cand' = [cand EXCEPT ![t] = pooled[t]]
    /\ UNCHANGED wrapper

\* PooledDatabaseWrapper.close of a borrowed connection: back to the pool the
\* manager has now.  The wrapper keeps the raw connection.
CloseReturns(t) ==
    /\ pc[t] = "home" /\ pooled[t] # None
    /\ Manage(t, "return")
    /\ cand' = [cand EXCEPT ![t] = pooled[t]]
    /\ pooled' = [pooled EXCEPT ![t] = None]
    /\ UNCHANGED raw

\* close without a borrowed connection: Django's own close.
CloseNative(t) ==
    /\ pc[t] = "home" /\ raw[t] # None /\ pooled[t] = None
    /\ open' = open \ {raw[t]}
    /\ raw' = [raw EXCEPT ![t] = None]
    /\ UNCHANGED <<pools, manager, pc, ref, cand, pooled>>

\* release: _closed is looked at without the lock.
Release(t) ==
    /\ pc[t] = "return"
    /\ IF closed[ref[t]]
       THEN Discard(t, "dropped")
       ELSE Goto(t, "put") /\ UNCHANGED <<open, cand>>
    /\ UNCHANGED <<pools, manager, wrapper>>

\* put_nowait: stored, whether or not the heap then raises (the wrapper
\* swallows it); a full queue discards.
PutBack(t) ==
    /\ pc[t] = "put"
    /\ IF Cardinality(idle[ref[t]]) >= MaxSize
       THEN Discard(t, "dropped") /\ UNCHANGED idle
       ELSE /\ Put(ref[t], cand[t])
            /\ cand' = [cand EXCEPT ![t] = None]
            /\ Goto(t, "home")
            /\ UNCHANGED open
    /\ UNCHANGED <<created, closed, lock, manager, wrapper>>

-----------------------------------------------------------------------------
\* close_all on SIGTERM; the process goes on.  The handler runs in the main
\* thread, and _lock is reentrant: whoever holds it may be the main thread.
\* The gets that raise lose their entries unclosed.
CloseAll ==
    /\ current # 0 /\ built < Pools
    /\ closed' = [closed EXCEPT ![current] = TRUE]
    /\ idle' = [idle EXCEPT ![current] = {}]
    /\ \E lost \in SUBSET idle[current] :
          /\ Cardinality(idle[current] \ lost) =
                IF Cardinality(idle[current]) > 2 THEN 2
                                                 ELSE Cardinality(idle[current])
          /\ open' = open \ (idle[current] \ (lost \cap Referred))
    /\ Count(current, 0)
    /\ current' = 0
    /\ UNCHANGED <<lock, built, pc, ref, cand, wrapper>>

Acquire(t) ==
    \/ Enter(t) \/ Get(t) \/ Create(t) \/ CreateFails(t) \/ TimedOut(t) \/ Wait(t)
    \/ WakeUp(t) \/ Lend(t) \/ Stale(t) \/ Uncount(t)

Worker(t) ==
    \/ Borrow(t) \/ Acquire(t) \/ CloseReturns(t)
    \/ CloseNative(t) \/ Release(t) \/ PutBack(t)

Next == CloseAll \/ \E t \in Threads : Worker(t)

Spec == Init /\ [][Next]_vars

-----------------------------------------------------------------------------
(* Properties.                                                             *)

\* A connection is idle in one pool, or being checked or returned by one
\* thread, or lent to one thread: the queue never hands it out twice, not
\* even around a shutdown that leaves loans of the old pool behind.
LoanIsExclusive ==
    \A c \in Conns :
        Cardinality({g \in Gens : c \in idle[g]})
          + Cardinality({t \in Threads : cand[t] = c})
          + Cardinality({t \in Threads : pooled[t] = c}) <= 1

Sound == TypeOK /\ LoanIsExclusive

Discarding == {t \in Threads : pc[t] \in {"drop", "dropped"}}

\* The connections of the first pool that its count stands for.
Real == Cardinality(idle[1]) + Cardinality(Discarding)
          + Cardinality({t \in Threads : cand[t] # None})
          + Cardinality({t \in Threads : pooled[t] # None})

\* Until the first pool is closed its count, which max_size limits, is off by
\* no more than the connection the warm-up did not count and, downwards, by
\* the entries the queue lost; those leave two, so it never shrinks to fewer.
CountNearTruth ==
    ~closed[1] =>
        /\ Real <= created[1] + (Warmed - WarmCount)
        /\ created[1] <= Real + (IF MaxSize > 2 THEN MaxSize - 2 ELSE 0)

\* Who waits for a connection of an open pool waits for somebody: one is
\* idle, lent, or on its way, so no wait is bound to run into its timeout.
WaitHasEnd ==
    \A t \in Threads : pc[t] = "wait" /\ ~closed[ref[t]] =>
        \/ idle[ref[t]] # {}
        \/ \E u \in Threads \ {t} :
              \/ pooled[u] # None
              \/ ref[u] = ref[t] /\ (cand[u] # None \/ u \in Discarding)

\* What the wrapper promises, business code unaware of the pool as under
\* Django's own wrapper: the connection a thread has borrowed is not closed
\* by another thread.  Another wrapper may still hold it.
LentStaysOpen == \A t \in Threads : pooled[t] # None => pooled[t] \in open
=============================================================================
