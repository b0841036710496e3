----------------------------- MODULE DbPoolProofs -----------------------------
(***************************************************************************)
(* For any threads, sizes, pools and connections: the pool never hands one *)
(* connection out twice, and counts no more than max_size.                 *)
(*                                                                         *)
(* LoanIsExclusive counts places; Exclusive says the same of each pair of  *)
(* them and is, with the types, inductive: a new connection is one nothing *)
(* knows, and every step moves a connection from one place to one other.   *)
(*                                                                         *)
(* And the count: as long as the first pool is open it is the only one, so *)
(* that every connection a thread carries is one that its count stands     *)
(* for; and a thread that waits has seen that count at the maximum.        *)
(***************************************************************************)
EXTENDS DbPool, FiniteSetTheorems, TLAPS

Exclusive ==
    /\ \A g, h \in Gens : idle[g] \cap idle[h] # {} => g = h
    /\ \A g \in Gens, t \in Threads : cand[t] \notin idle[g] /\ pooled[t] \notin idle[g]
    /\ \A t, u \in Threads :
          /\ cand[t] # None => cand[t] # pooled[u]
          /\ cand[t] # None /\ cand[t] = cand[u] => t = u
          /\ pooled[t] # None /\ pooled[t] = pooled[u] => t = u

\* The pool a call works on exists, so does the connection it checks or
\* returns, and there is a name for the next pool.
Exists ==
    /\ \A t \in Threads : pc[t] # "home" => ref[t] \in Gens
    /\ \A t \in Threads : pc[t] \in {"check", "return", "put"} => cand[t] \in Conns
    /\ current = 0 => built < Pools

IInv == TypeOK /\ Exists /\ Exclusive

-----------------------------------------------------------------------------
LEMMA Names ==
    /\ None \notin Conns
    /\ \A n : Fresh(n) \subseteq Unknown /\ Unknown \subseteq Conns
    /\ WarmCount \in 0 .. MaxSize
<1>1. None \notin Conns BY SizeAssumption
<1>2. \A n : Fresh(n) \subseteq Unknown /\ Unknown \subseteq Conns BY DEF Fresh, Unknown
<1>3. WarmCount \in 0 .. MaxSize BY SizeAssumption DEF WarmCount
<1> QED BY <1>1, <1>2, <1>3

\* A new connection is nowhere.
LEMMA FreshIsNew ==
    ASSUME NEW n, NEW c \in Fresh(n)
    PROVE  /\ c \in Conns /\ c # None
           /\ \A g \in Gens : c \notin idle[g]
           /\ \A t \in Threads : cand[t] # c /\ pooled[t] # c
BY Names DEF Unknown

LEMMA InvInit == Init => IInv
<1> SUFFICES ASSUME Init PROVE IInv OBVIOUS
<1> USE SizeAssumption DEF Init, Gens
<1>1. PICK first \in SUBSET Conns :
          idle = [g \in Gens |-> IF g = 1 THEN first ELSE {}] /\ open = first
  OBVIOUS
<1>2. TypeOK BY <1>1, Names DEF TypeOK, Held
<1>3. Exists BY DEF Exists
<1>4. Exclusive BY <1>1, Names DEF Exclusive
<1> QED BY <1>2, <1>3, <1>4 DEF IInv

-----------------------------------------------------------------------------
\* PoolManager.get gives a pool that exists, and a new one holds what nobody
\* has.
LEMMA Managed ==
    ASSUME IInv, NEW t \in Threads, NEW then, Manage(t, then)
    PROVE  /\ pc' = [pc EXCEPT ![t] = then] /\ UNCHANGED <<closed, lock>>
           /\ \E g \in Gens : ref' = [ref EXCEPT ![t] = g]
           /\ current' \in Gens /\ built' \in Gens /\ current' <= built'
           /\ open' \in SUBSET Conns /\ created' \in [Gens -> 0 .. MaxSize]
           /\ \/ idle' = idle
              \/ \E g \in Gens, n \in {Warmed} : idle' = [idle EXCEPT ![g] = Fresh(n)]
<1>1. CASE current # 0
  <2>1. current \in Gens /\ built \in Gens BY <1>1 DEF IInv, TypeOK, Gens
  <2>2. UNCHANGED <<idle, created, closed, lock, current, built, open>>
        /\ ref' = [ref EXCEPT ![t] = current]
    BY <1>1 DEF Manage, pools, manager
  <2> QED BY <2>1, <2>2 DEF IInv, TypeOK, Manage
<1>2. CASE current = 0
  <2>1. /\ built' = built + 1 /\ current' = built + 1 /\ UNCHANGED <<closed, lock>>
        /\ ref' = [ref EXCEPT ![t] = built + 1] /\ open' = open \cup Fresh(Warmed)
        /\ idle' = [idle EXCEPT ![built + 1] = Fresh(Warmed)]
        /\ created' = [created EXCEPT ![built + 1] = WarmCount]
    BY <1>2 DEF Manage, Count
  <2>2. built + 1 \in Gens
    BY <1>2, SizeAssumption DEF IInv, TypeOK, Exists, Gens
  <2>3. open' \in SUBSET Conns BY <2>1, Names DEF IInv, TypeOK
  <2>4. created' \in [Gens -> 0 .. MaxSize] BY <2>1, <2>2, Names DEF IInv, TypeOK
  <2>5. pc' = [pc EXCEPT ![t] = then] BY DEF Manage
  <2>6. current' <= built' BY <2>1, <2>2 DEF Gens
  <2> QED BY <2>1, <2>2, <2>3, <2>4, <2>5, <2>6
<1> QED BY <1>1, <1>2

\* What a new pool holds is in no other place.
LEMMA IdleManaged ==
    ASSUME IInv, NEW t \in Threads, NEW then, Manage(t, then)
    PROVE  /\ idle' \in [Gens -> SUBSET Conns]
           /\ \A g, h \in Gens : idle'[g] \cap idle'[h] # {} => g = h
           /\ \A g \in Gens, u \in Threads : cand[u] \notin idle'[g] /\ pooled[u] \notin idle'[g]
<1>1. CASE idle' = idle BY <1>1 DEF IInv, TypeOK, Exclusive
<1>2. CASE idle' # idle
  <2>1. PICK h \in Gens : idle' = [idle EXCEPT ![h] = Fresh(Warmed)] BY <1>2, Managed
  <2>2. \A g \in Gens : idle'[g] = IF g = h THEN Fresh(Warmed) ELSE idle[g]
    BY <2>1 DEF IInv, TypeOK
  <2>3. \A g \in Gens : idle[g] \cap Fresh(Warmed) = {} BY FreshIsNew
  <2>4. \A u \in Threads : cand[u] \notin Fresh(Warmed) /\ pooled[u] \notin Fresh(Warmed)
    BY FreshIsNew
  <2>5. idle' \in [Gens -> SUBSET Conns] BY <2>1, Names DEF IInv, TypeOK
  <2> QED BY <2>2, <2>3, <2>4, <2>5 DEF IInv, Exclusive
<1> QED BY <1>1, <1>2

LEMMA TypeManage ==
    ASSUME IInv, NEW t \in Threads, NEW then \in {"enter", "return"}, Manage(t, then),
           cand' \in Held, pooled' \in Held, raw' \in Held,
           then = "return" => cand'[t] \in Conns,
           \A u \in Threads \ {t} : cand'[u] = cand[u]
    PROVE  TypeOK' /\ Exists'
<1>1. PICK g \in Gens : ref' = [ref EXCEPT ![t] = g] BY Managed
<1>2. ref' \in [Threads -> 0 .. Pools] /\ \A u \in Threads : ref'[u] = IF u = t THEN g ELSE ref[u]
  BY <1>1 DEF IInv, TypeOK, Gens
<1>3. pc' = [pc EXCEPT ![t] = then] BY Managed
<1>4. pc' \in [Threads -> {"home"} \cup Acquiring \cup Releasing]
  BY <1>3 DEF IInv, TypeOK, Acquiring, Releasing
<1>5. idle' \in [Gens -> SUBSET Conns] BY IdleManaged
<1>6. current' \in Gens /\ built' \in Gens /\ current' <= built' BY Managed
<1>7. current' \in 0 .. Pools /\ built' \in 0 .. Pools /\ current' # 0 BY <1>6 DEF Gens
<1>8. UNCHANGED <<closed, lock>> /\ open' \subseteq Conns /\ created' \in [Gens -> 0 .. MaxSize]
  BY Managed
<1>9. TypeOK' BY <1>2, <1>4, <1>5, <1>6, <1>7, <1>8 DEF IInv, TypeOK
<1>10. Exists' BY <1>2, <1>3, <1>7 DEF IInv, Exists, TypeOK
<1> QED BY <1>9, <1>10

\* Requests that begin to borrow, or to return.
LEMMA InvBorrow == ASSUME IInv, NEW t \in Threads, Borrow(t) PROVE IInv'
<1>1. Manage(t, "enter") /\ UNCHANGED <<cand, pooled, raw>> BY DEF Borrow, wrapper
<1>2. TypeOK' /\ Exists' BY <1>1, TypeManage DEF IInv, TypeOK
<1> QED BY <1>1, <1>2, IdleManaged DEF IInv, Exclusive

LEMMA InvReturn == ASSUME IInv, NEW t \in Threads, CloseReturns(t) PROVE IInv'
<1>1. /\ Manage(t, "return") /\ pooled[t] # None /\ raw' = raw
      /\ cand' = [cand EXCEPT ![t] = pooled[t]] /\ pooled' = [pooled EXCEPT ![t] = None]
  BY DEF CloseReturns
<1>2. cand' \in Held /\ pooled' \in Held /\ raw' \in Held /\ cand'[t] \in Conns
  BY <1>1 DEF IInv, TypeOK, Held
<1>4. \A u \in Threads \ {t} : cand'[u] = cand[u] BY <1>1
<1>5. TypeOK' /\ Exists' BY <1>1, <1>2, <1>4, TypeManage
<1>3. Exclusive'
  <2>1. \A u \in Threads : /\ cand'[u] = IF u = t THEN pooled[t] ELSE cand[u]
                           /\ pooled'[u] = IF u = t THEN None ELSE pooled[u]
    BY <1>1 DEF IInv, TypeOK, Held
  <2>2. \A g \in Gens : None \notin idle'[g] BY <1>1, IdleManaged, Names
  <2> QED BY <1>1, <2>1, <2>2, IdleManaged DEF IInv, Exclusive
<1> QED BY <1>3, <1>5 DEF IInv

-----------------------------------------------------------------------------
\* The types of the steps below: a connection that moves is one, and the call
\* goes on in its pool or ends.
LEMMA Going ==
    ASSUME IInv, NEW t \in Threads, NEW to \in {"home"} \cup Acquiring \cup Releasing,
           Goto(t, to), to = "home" \/ pc[t] # "home"
    PROVE  /\ pc' \in [Threads -> {"home"} \cup Acquiring \cup Releasing]
           /\ ref' \in [Threads -> 0 .. Pools]
           /\ \A u \in Threads : pc'[u] # "home" => ref'[u] \in Gens
           /\ \A u \in Threads : pc'[u] = IF u = t THEN to ELSE pc[u]
<1>1. \A u \in Threads : pc'[u] = IF u = t THEN to ELSE pc[u]
  BY DEF Goto, IInv, TypeOK
<1>2. pc' \in [Threads -> {"home"} \cup Acquiring \cup Releasing]
  BY DEF Goto, IInv, TypeOK
<1>3. CASE to = "home" BY <1>1, <1>2, <1>3, SizeAssumption DEF Goto, IInv, TypeOK, Exists
<1>4. CASE to # "home" BY <1>1, <1>2, <1>4 DEF Goto, IInv, TypeOK, Exists
<1> QED BY <1>3, <1>4

\* acquire.
LEMMA InvNative ==
    ASSUME IInv, NEW t \in Threads, NEW gone, Native(t, gone)
    PROVE  /\ open' \subseteq Conns /\ raw' \in Held
           /\ Goto(t, "home") /\ UNCHANGED <<current, built, cand, pooled>>
<1>1. /\ \/ \E c \in Fresh(1) : open' = (open \ gone) \cup {c} /\ raw' = [raw EXCEPT ![t] = c]
         \/ open' = open \ gone /\ raw' = raw
  BY DEF Native
<1>2. open' \subseteq Conns /\ raw' \in Held BY <1>1, Names DEF IInv, TypeOK, Held
<1>3. Goto(t, "home") /\ UNCHANGED <<current, built, cand, pooled>> BY DEF Native, manager
<1> QED BY <1>2, <1>3

\* A step that leaves the places of all connections alone.
LEMMA Unmoved ==
    ASSUME IInv, UNCHANGED <<idle, cand, pooled>> PROVE Exclusive'
  BY DEF IInv, Exclusive

\* A connection leaves the queue.
LEMMA Popped ==
    ASSUME IInv, NEW t \in Threads, pc[t] \in {"get", "wait"}, NEW c \in Conns, Pop(t, c)
    PROVE  /\ idle' \in [Gens -> SUBSET Conns] /\ open' \subseteq Conns
           /\ cand' \in Held /\ raw' \in Held
           /\ UNCHANGED <<current, built, pooled>> /\ Exclusive'
           /\ \A u \in Threads \ {t} : cand'[u] = cand[u]
           /\ Goto(t, "home") \/ (Goto(t, "check") /\ cand'[t] \in Conns)
<1> DEFINE g == ref[t]
<1>1. g \in Gens BY DEF IInv, Exists
<1>2. idle' = [idle EXCEPT ![g] = @ \ {c}] /\ c \in idle[g] BY DEF Pop, Take
<1>3. idle' \in [Gens -> SUBSET Conns] BY <1>1, <1>2 DEF IInv, TypeOK
<1>4. \A h \in Gens : idle'[h] = IF h = g THEN idle[g] \ {c} ELSE idle[h]
  BY <1>1, <1>2 DEF IInv, TypeOK
<1> HIDE DEF g
<1>5. CASE Goto(t, "check") /\ cand' = [cand EXCEPT ![t] = c]
           /\ UNCHANGED <<open, current, built, pooled, raw>>
  <2>1. \A u \in Threads : cand'[u] = IF u = t THEN c ELSE cand[u]
    BY <1>5 DEF IInv, TypeOK, Held
  <2>2. \A h \in Gens : c \notin idle'[h] BY <1>1, <1>2, <1>4 DEF IInv, Exclusive
  <2>3. \A u \in Threads : cand[u] # c /\ pooled[u] # c
    BY <1>1, <1>2 DEF IInv, Exclusive
  <2>4. \A h, k \in Gens : idle'[h] \cap idle'[k] # {} => h = k
    BY <1>4 DEF IInv, Exclusive
  <2>5. Exclusive' BY <1>4, <1>5, <2>1, <2>2, <2>3, <2>4 DEF IInv, Exclusive
  <2>6. cand' \in Held BY <1>5 DEF IInv, TypeOK, Held
  <2> QED BY <1>3, <1>5, <2>1, <2>5, <2>6 DEF IInv, TypeOK
<1>6. CASE Native(t, {c} \ Referred)
  <2>1. Exclusive' BY <1>4, <1>6, InvNative DEF IInv, Exclusive
  <2> QED BY <1>3, <1>6, <2>1, InvNative DEF IInv, TypeOK
<1> QED BY <1>5, <1>6 DEF Pop, wrapper, manager

LEMMA InvGet == ASSUME IInv, NEW t \in Threads, Get(t) \/ WakeUp(t) PROVE IInv'
<1>1. pc[t] \in {"get", "wait"} /\ UNCHANGED <<created, closed>> BY DEF Get, WakeUp
<1>2. lock' \in [Gens -> Threads \cup {None}]
  BY DEF Get, WakeUp, IInv, TypeOK
<1>3. CASE \E c \in Conns : Pop(t, c)
  <2>1. PICK c \in Conns : Pop(t, c) BY <1>3
  <2>2. /\ pc' \in [Threads -> {"home"} \cup Acquiring \cup Releasing]
        /\ ref' \in [Threads -> 0 .. Pools]
        /\ \A u \in Threads : pc'[u] # "home" => ref'[u] \in Gens
        /\ \A u \in Threads : pc'[u] \in {"check", "return", "put"} => cand'[u] \in Conns
    BY <1>1, <2>1, Popped, Going DEF Acquiring, IInv, Exists
  <2> QED BY <1>1, <1>2, <2>1, <2>2, Popped DEF IInv, TypeOK, Exists
<1>4. CASE Empty(t, "limit") \/ Empty(t, "get")
  <2>1. /\ pc' \in [Threads -> {"home"} \cup Acquiring \cup Releasing]
        /\ ref' \in [Threads -> 0 .. Pools]
        /\ \A u \in Threads : pc'[u] # "home" => ref'[u] \in Gens
        /\ \A u \in Threads : pc'[u] \in {"check", "return", "put"} => cand'[u] \in Conns
    BY <1>1, <1>4, Going DEF Acquiring, Empty, IInv, Exists
  <2>2. UNCHANGED <<idle, open, cand, current, built, pooled, raw>>
    BY <1>4 DEF Empty, manager, wrapper
  <2> QED BY <1>1, <1>2, <2>1, <2>2, Unmoved DEF IInv, TypeOK, Exists
<1> QED BY <1>3, <1>4 DEF Get, WakeUp

\* What is left of acquire once the queue was found empty, and what becomes of
\* a candidate.
LEMMA InvLimit ==
    ASSUME IInv, NEW t \in Threads,
           Enter(t) \/ CreateFails(t) \/ TimedOut(t) \/ Wait(t)
    PROVE  IInv'
<1>1. pc[t] # "home" /\ UNCHANGED <<idle, created, closed>>
      /\ lock' \in [Gens -> Threads \cup {None}]
  BY DEF Enter, CreateFails, TimedOut, Wait, pools, IInv, TypeOK
<1>2. \/ Native(t, {})
      \/ /\ Goto(t, "get") \/ Goto(t, "wait")
         /\ UNCHANGED <<open, current, built, cand, pooled, raw>>
  BY DEF Enter, CreateFails, TimedOut, Wait, manager, wrapper
<1>3. Goto(t, "home") \/ Goto(t, "get") \/ Goto(t, "wait") BY <1>2, InvNative
<1>4. /\ open' \subseteq Conns /\ raw' \in Held
      /\ UNCHANGED <<current, built, cand, pooled>>
  BY <1>2, InvNative DEF IInv, TypeOK
<1> QED BY <1>1, <1>3, <1>4, Going, Unmoved DEF IInv, TypeOK, Exists, Acquiring

LEMMA InvCreate == ASSUME IInv, NEW t \in Threads, Create(t) PROVE IInv'
<1>1. PICK c \in Fresh(1) : open' = open \cup {c} /\ cand' = [cand EXCEPT ![t] = c]
  BY DEF Create
<1>2. /\ pc[t] # "home" /\ Goto(t, "check")
      /\ created' = [created EXCEPT ![ref[t]] = created[ref[t]] + 1]
      /\ created[ref[t]] < MaxSize
      /\ UNCHANGED <<idle, closed, lock, current, built, pooled, raw>>
  BY DEF Create, Count, manager, wrapper
<1>3. created' \in [Gens -> 0 .. MaxSize] BY <1>2, SizeAssumption DEF IInv, TypeOK, Exists
<1>4. open' \subseteq Conns /\ cand' \in Held BY <1>1, FreshIsNew DEF IInv, TypeOK, Held
<1>5. \A u \in Threads : cand'[u] = IF u = t THEN c ELSE cand[u]
  BY <1>1 DEF IInv, TypeOK, Held
<1>6. Exclusive' BY <1>2, <1>5, FreshIsNew DEF IInv, Exclusive
<1>7. /\ pc' \in [Threads -> {"home"} \cup Acquiring \cup Releasing]
      /\ ref' \in [Threads -> 0 .. Pools]
      /\ \A u \in Threads : pc'[u] # "home" => ref'[u] \in Gens
      /\ \A u \in Threads : pc'[u] = IF u = t THEN "check" ELSE pc[u]
  BY <1>2, Going DEF Acquiring
<1>8. TypeOK' BY <1>2, <1>3, <1>4, <1>7 DEF IInv, TypeOK
<1>9. Exists' BY <1>2, <1>5, <1>7, FreshIsNew DEF IInv, Exists
<1> QED BY <1>6, <1>8, <1>9 DEF IInv

LEMMA InvLend == ASSUME IInv, NEW t \in Threads, Lend(t) PROVE IInv'
<1>1. /\ cand[t] \in open /\ Goto(t, "home")
      /\ cand' = [cand EXCEPT ![t] = None] /\ pooled' = [pooled EXCEPT ![t] = cand[t]]
      /\ raw' = [raw EXCEPT ![t] = cand[t]]
      /\ UNCHANGED <<idle, created, closed, lock, current, built, open>>
  BY DEF Lend, pools, manager
<1>2. cand' \in Held /\ pooled' \in Held /\ raw' \in Held
  BY <1>1 DEF IInv, TypeOK, Held
<1>3. \A u \in Threads : /\ cand'[u] = IF u = t THEN None ELSE cand[u]
                         /\ pooled'[u] = IF u = t THEN cand[t] ELSE pooled[u]
  BY <1>1 DEF IInv, TypeOK, Held
<1>4. \A g \in Gens : None \notin idle'[g] BY <1>1, Names DEF IInv, TypeOK
<1>5. cand[t] # None BY <1>1, Names DEF IInv, TypeOK
<1>6. Exclusive' BY <1>1, <1>3, <1>4, <1>5 DEF IInv, Exclusive
<1> QED BY <1>1, <1>2, <1>6, Going DEF IInv, TypeOK, Exists

\* A candidate that goes nowhere.
LEMMA Dropped ==
    ASSUME IInv, NEW t \in Threads, cand' = [cand EXCEPT ![t] = None],
           UNCHANGED <<idle, pooled>>
    PROVE  cand' \in Held /\ Exclusive' /\ \A u \in Threads \ {t} : cand'[u] = cand[u]
<1>1. cand' \in Held BY DEF IInv, TypeOK, Held
<1>2. \A u \in Threads : cand'[u] = IF u = t THEN None ELSE cand[u]
  BY DEF IInv, TypeOK, Held
<1>3. \A g \in Gens : None \notin idle[g] BY Names DEF IInv, TypeOK
<1> QED BY <1>1, <1>2, <1>3 DEF IInv, Exclusive

LEMMA InvStale == ASSUME IInv, NEW t \in Threads, Stale(t) PROVE IInv'
<1>1. /\ pc[t] # "home" /\ Goto(t, "drop") /\ cand' = [cand EXCEPT ![t] = None]
      /\ open' = open \ {cand[t]}
      /\ UNCHANGED <<idle, created, closed, lock, current, built, pooled, raw>>
  BY DEF Stale, Discard, pools, manager, wrapper
<1>2. cand' \in Held /\ Exclusive' /\ \A u \in Threads \ {t} : cand'[u] = cand[u]
  BY <1>1, Dropped
<1>3. open' \subseteq Conns BY <1>1 DEF IInv, TypeOK
<1> QED BY <1>1, <1>2, <1>3, Going DEF IInv, TypeOK, Exists, Acquiring

LEMMA InvUncount == ASSUME IInv, NEW t \in Threads, Uncount(t) PROVE IInv'
<1>1. /\ pc[t] # "home" /\ (Goto(t, "get") \/ Goto(t, "home"))
      /\ created' = [created EXCEPT ![ref[t]] = IF @ = 0 THEN 0 ELSE @ - 1]
      /\ UNCHANGED <<idle, closed, lock, current, built, open, cand, pooled, raw>>
  BY DEF Uncount, Count, manager, wrapper
<1>2. created' \in [Gens -> 0 .. MaxSize] BY <1>1, SizeAssumption DEF IInv, TypeOK, Exists
<1> QED BY <1>1, <1>2, Unmoved, Going DEF IInv, TypeOK, Exists, Acquiring

-----------------------------------------------------------------------------
(* Returning, and the end of the pool.                                     *)

LEMMA InvRelease ==
    ASSUME IInv, NEW t \in Threads, Release(t) \/ PutBack(t) PROVE IInv'
<1>6. PICK g : g = ref[t] OBVIOUS
<1>1. pc[t] # "home" /\ g \in Gens /\ UNCHANGED <<created, closed, lock, current, built, pooled, raw>>
  BY <1>6 DEF Release, PutBack, pools, manager, wrapper, IInv, Exists
<1>5. cand[t] \in Conns BY DEF Release, PutBack, IInv, Exists
<1>2. CASE Discard(t, "dropped") /\ UNCHANGED idle
  <2>1. /\ Goto(t, "dropped") /\ cand' = [cand EXCEPT ![t] = None]
        /\ open' = open \ {cand[t]} /\ UNCHANGED <<idle, pooled>>
    BY <1>1, <1>2 DEF Discard
  <2>2. cand' \in Held /\ Exclusive' /\ \A u \in Threads \ {t} : cand'[u] = cand[u]
    BY <2>1, Dropped
  <2> QED BY <1>1, <2>1, <2>2, Going DEF IInv, TypeOK, Exists, Releasing
<1>3. CASE Goto(t, "put") /\ UNCHANGED <<idle, open, cand>>
  BY <1>1, <1>3, <1>5, Unmoved, Going DEF IInv, TypeOK, Exists, Releasing
<1>4. CASE Put(g, cand[t]) /\ cand' = [cand EXCEPT ![t] = None]
           /\ Goto(t, "home") /\ UNCHANGED open
  <2>1. idle' = [idle EXCEPT ![g] = @ \cup {cand[t]}] BY <1>4 DEF Put
  <2>2. cand[t] # None BY <1>5, Names
  <2>3. idle' \in [Gens -> SUBSET Conns] /\ cand' \in Held
    BY <1>1, <1>4, <1>5, <2>1 DEF IInv, TypeOK, Held
  <2>4. \A h \in Gens : idle'[h] = IF h = g THEN idle[g] \cup {cand[t]} ELSE idle[h]
    BY <1>1, <2>1 DEF IInv, TypeOK
  <2>5. \A u \in Threads : cand'[u] = IF u = t THEN None ELSE cand[u]
    BY <1>4 DEF IInv, TypeOK, Held
  <2>6. \A h \in Gens : None \notin idle'[h] BY <2>3, Names
  <2>7. \A h, k \in Gens : idle'[h] \cap idle'[k] # {} => h = k
    BY <2>4 DEF IInv, Exclusive
  <2>8. Exclusive' BY <1>1, <2>2, <2>4, <2>5, <2>6, <2>7 DEF IInv, Exclusive
  <2> QED BY <1>1, <1>4, <2>3, <2>8, Going DEF IInv, TypeOK, Exists
<1> QED BY <1>2, <1>3, <1>4, <1>6 DEF Release, PutBack, pools

LEMMA InvNativeClose == ASSUME IInv, NEW t \in Threads, CloseNative(t) PROVE IInv'
<1>1. /\ open' = open \ {raw[t]} /\ raw' = [raw EXCEPT ![t] = None]
      /\ UNCHANGED <<idle, created, closed, lock, current, built, pc, ref, cand, pooled>>
  BY DEF CloseNative, pools, manager
<1>2. open' \subseteq Conns /\ raw' \in Held BY <1>1 DEF IInv, TypeOK, Held
<1> QED BY <1>1, <1>2, Unmoved DEF IInv, TypeOK, Exists

LEMMA InvCloseAll == ASSUME IInv, CloseAll PROVE IInv'
<1>1. /\ current \in Gens /\ built < Pools /\ current' = 0
      /\ closed' = [closed EXCEPT ![current] = TRUE]
      /\ idle' = [idle EXCEPT ![current] = {}]
      /\ created' = [created EXCEPT ![current] = 0]
      /\ UNCHANGED <<lock, built, pc, ref, cand, pooled, raw>>
  BY DEF CloseAll, Count, wrapper, IInv, TypeOK, Gens
<1>2. open' \subseteq Conns BY DEF CloseAll, IInv, TypeOK
<1>3. \A g \in Gens : idle'[g] = IF g = current THEN {} ELSE idle[g]
  BY <1>1 DEF IInv, TypeOK
<1>4. idle' \in [Gens -> SUBSET Conns] /\ closed' \in [Gens -> BOOLEAN]
      /\ created' \in [Gens -> 0 .. MaxSize]
  BY <1>1, SizeAssumption DEF IInv, TypeOK
<1>5. TypeOK' BY <1>1, <1>2, <1>4, SizeAssumption DEF IInv, TypeOK
<1>6. Exclusive' BY <1>1, <1>3 DEF IInv, Exclusive
<1>7. Exists' BY <1>1 DEF IInv, Exists
<1> QED BY <1>5, <1>6, <1>7 DEF IInv

LEMMA InvNext == ASSUME IInv, [Next]_vars PROVE IInv'
<1>1. CASE CloseAll BY <1>1, InvCloseAll
<1>2. ASSUME NEW t \in Threads, Worker(t) PROVE IInv'
  <2>1. CASE Borrow(t) BY <2>1, InvBorrow
  <2>2. CASE CloseReturns(t) BY <2>2, InvReturn
  <2>3. CASE CloseNative(t) BY <2>3, InvNativeClose
  <2>4. CASE Release(t) \/ PutBack(t) BY <2>4, InvRelease
  <2>5. CASE Acquire(t)
    <3>1. CASE Enter(t) \/ CreateFails(t) \/ TimedOut(t) \/ Wait(t) BY <3>1, InvLimit
    <3>2. CASE Get(t) \/ WakeUp(t) BY <3>2, InvGet
    <3>3. CASE Create(t) BY <3>3, InvCreate
    <3>4. CASE Lend(t) BY <3>4, InvLend
    <3>5. CASE Stale(t) BY <3>5, InvStale
    <3>6. CASE Uncount(t) BY <3>6, InvUncount
    <3> QED BY <2>5, <3>1, <3>2, <3>3, <3>4, <3>5, <3>6 DEF Acquire
  <2> QED BY <1>2, <2>1, <2>2, <2>3, <2>4, <2>5 DEF Worker
<1>3. CASE UNCHANGED vars
  <2>1. UNCHANGED <<idle, created, closed, lock, current, built, open, pc, ref,
                    cand, pooled, raw>>
    BY <1>3 DEF vars, pools, manager, wrapper
  <2> QED BY <2>1, Unmoved DEF IInv, TypeOK, Exists
<1> QED BY <1>1, <1>2, <1>3 DEF Next

-----------------------------------------------------------------------------
\* A set with no two elements has at most one.
LEMMA AtMostOne ==
    ASSUME NEW S, \A x, y \in S : x = y
    PROVE  Cardinality(S) \in 0 .. 1 /\ (S = {} => Cardinality(S) = 0)
<1>1. CASE S = {} BY <1>1, FS_EmptySet
<1>2. CASE S # {}
  <2>1. PICK x \in S : TRUE BY <1>2
  <2>2. S = {x} BY <2>1
  <2>3. Cardinality(S) = 1 BY <2>2, FS_Singleton
  <2> QED BY <2>1, <2>3
<1> QED BY <1>1, <1>2

LEMMA Counted == IInv => Sound
<1> SUFFICES ASSUME IInv, NEW c \in Conns
             PROVE  Cardinality({g \in Gens : c \in idle[g]})
                      + Cardinality({t \in Threads : cand[t] = c})
                      + Cardinality({t \in Threads : pooled[t] = c}) <= 1
  BY DEF IInv, Sound, LoanIsExclusive
<1> DEFINE Idle == {g \in Gens : c \in idle[g]}
           Moving == {t \in Threads : cand[t] = c}
           Lent == {t \in Threads : pooled[t] = c}
<1>1. c # None BY Names
<1>2. \A g, h \in Idle : g = h BY DEF IInv, Exclusive
<1>3. \A t, u \in Moving : t = u BY <1>1 DEF IInv, Exclusive
<1>4. \A t, u \in Lent : t = u BY <1>1 DEF IInv, Exclusive
<1>5. Idle # {} => Moving = {} /\ Lent = {} BY DEF IInv, Exclusive
<1>6. Moving # {} => Lent = {} BY <1>1 DEF IInv, Exclusive
<1> HIDE DEF Idle, Moving, Lent
<1>7. Cardinality(Idle) \in 0 .. 1 /\ (Idle = {} => Cardinality(Idle) = 0) BY <1>2, AtMostOne
<1>8. Cardinality(Moving) \in 0 .. 1 /\ (Moving = {} => Cardinality(Moving) = 0)
  BY <1>3, AtMostOne
<1>9. Cardinality(Lent) \in 0 .. 1 /\ (Lent = {} => Cardinality(Lent) = 0) BY <1>4, AtMostOne
<1>10. Cardinality(Idle) + Cardinality(Moving) + Cardinality(Lent) <= 1
  BY <1>5, <1>6, <1>7, <1>8, <1>9
<1> QED BY <1>10 DEF Idle, Moving, Lent

\* Whatever the threads, the sizes and the shutdowns, the types hold, the
\* count stays within max_size, and a connection is in one place: the queue of
\* one pool, one call's hands, or one wrapper's loan (BasePool.acquire and
\* release, PooledDatabaseWrapper.close, PoolManager.close_all).
THEOREM AlwaysSound == Spec => []Sound
<1>1. Init => IInv BY InvInit
<1>2. IInv /\ [Next]_vars => IInv' BY InvNext
<1>3. IInv => Sound BY Counted
<1> QED BY <1>1, <1>2, <1>3, PTL DEF Spec

-----------------------------------------------------------------------------
(* The count.  Every connection the queue did not lose is idle, in a call's *)
(* hands, or lent; Tally says that this sum and the count keep in step for *)
(* each pool that is not closed, and what that rests on: there is one such *)
(* pool at a time, a call has at most one connection, and a thread that    *)
(* waits holds the lock without which nobody counts.                       *)

Busy == {"check", "return", "put", "drop", "dropped"}
Hands(g) == {t \in Threads : ref[t] = g /\ pc[t] \in Busy}
Loans == {t \in Threads : pooled[t] # None}
Truth(g) == Cardinality(idle[g]) + Cardinality(Hands(g)) + Cardinality(Loans)

\* As many entries as a queue of this size can lose.
Slack == IF MaxSize > 2 THEN MaxSize - 2 ELSE 0

OnePool ==
    /\ current \in {0, built} /\ built >= 1
    /\ \A g \in Gens : ~closed[g] => g = current \/ g > built
    /\ \A g \in Gens : g > built => created[g] = 0
    /\ \A t \in Threads : ref[t] <= built

Room == \A g \in Gens : Cardinality(idle[g]) <= MaxSize \/ Cardinality(idle[g]) <= 2

OneEach ==
    \A t \in Threads :
        /\ cand[t] # None <=> pc[t] \in {"check", "return", "put"}
        /\ pc[t] # "home" \/ raw[t] = None => pooled[t] = None

WaitsLocked ==
    \A t \in Threads :
        pc[t] = "wait" => /\ lock[ref[t]] = t
                          /\ closed[ref[t]] \/ created[ref[t]] >= MaxSize

Counts ==
    /\ \A g \in Gens : ~closed[g] => created[g] <= Truth(g) + Slack
    /\ ~closed[1] => Truth(1) <= created[1] + (Warmed - WarmCount)

Tally == IInv /\ OnePool /\ Room /\ OneEach /\ WaitsLocked /\ Counts

\* Adding a member to a finite set, or removing one, moves its size by one.
LEMMA SizeStep ==
    ASSUME NEW S, IsFiniteSet(S), NEW x
    PROVE  /\ Cardinality(S) \in Nat
           /\ IsFiniteSet(S \cup {x}) /\ IsFiniteSet(S \ {x})
           /\ Cardinality(S \cup {x}) = IF x \in S THEN Cardinality(S) ELSE Cardinality(S) + 1
           /\ Cardinality(S \ {x}) = IF x \in S THEN Cardinality(S) - 1 ELSE Cardinality(S)
BY FS_CardinalityType, FS_AddElement, FS_RemoveElement

LEMMA Finite ==
    ASSUME TypeOK
    PROVE  /\ \A g \in Gens : IsFiniteSet(idle[g]) /\ Cardinality(idle[g]) \in Nat
           /\ \A g \in Gens : IsFiniteSet(Hands(g)) /\ Cardinality(Hands(g)) \in Nat
           /\ IsFiniteSet(Loans) /\ Cardinality(Loans) \in Nat
<1>1. \A g \in Gens : IsFiniteSet(idle[g])
  BY FS_Subset, SizeAssumption DEF TypeOK
<1>2. \A g \in Gens : IsFiniteSet(Hands(g))
  BY FS_Subset, SizeAssumption DEF Hands
<1>3. IsFiniteSet(Loans)
  BY FS_Subset, SizeAssumption DEF Loans
<1> QED BY <1>1, <1>2, <1>3, FS_CardinalityType

LEMMA FiniteNext ==
    ASSUME TypeOK'
    PROVE  /\ \A g \in Gens : IsFiniteSet(idle'[g]) /\ Cardinality(idle'[g]) \in Nat
           /\ \A g \in Gens : IsFiniteSet(Hands(g)') /\ Cardinality(Hands(g)') \in Nat
           /\ IsFiniteSet(Loans') /\ Cardinality(Loans') \in Nat
<1>1. \A g \in Gens : IsFiniteSet(idle'[g])
  BY FS_Subset, SizeAssumption DEF TypeOK
<1>2. \A g \in Gens : IsFiniteSet(Hands(g)')
  BY FS_Subset, SizeAssumption DEF Hands
<1>3. IsFiniteSet(Loans')
  BY FS_Subset, SizeAssumption DEF Loans
<1> QED BY <1>1, <1>2, <1>3, FS_CardinalityType

LEMMA Sizes ==
    /\ MaxSize \in Nat /\ MaxSize >= 1 /\ Slack \in Nat
    /\ Warmed \in 0 .. 2 /\ WarmCount \in Nat /\ WarmCount <= Warmed
BY SizeAssumption DEF Slack, Warmed, WarmCount

-----------------------------------------------------------------------------
\* A call that has a connection, and whose pool is g, enters or leaves the
\* hands of g; those of the other pools stay.
LEMMA HandsStep ==
    ASSUME NEW t \in Threads, NEW g \in Gens, NEW to,
           pc[t] \notin Busy \/ ref[t] = g,
           to \notin Busy \/ ref'[t] = g,
           \A u \in Threads : pc'[u] = IF u = t THEN to ELSE pc[u],
           \A u \in Threads \ {t} : ref'[u] = ref[u]
    PROVE  /\ \A h \in Gens \ {g} : Hands(h)' = Hands(h)
           /\ Hands(g)' = IF to \in Busy THEN Hands(g) \cup {t} ELSE Hands(g) \ {t}
           /\ t \in Hands(g) <=> pc[t] \in Busy
<1>1. \A h \in Gens \ {g} : Hands(h)' = Hands(h) BY DEF Hands
<1>2. CASE to \in Busy BY <1>1, <1>2 DEF Hands
<1>3. CASE to \notin Busy BY <1>1, <1>3 DEF Hands
<1> QED BY <1>2, <1>3

\* The count and what it stands for move together; or the queue loses an entry
\* of three or more; or a count that is already 0 stays.
Together(g) == Truth(g)' + created[g] = Truth(g) + created'[g]
Lost(g) ==
    /\ created'[g] = created[g] /\ Truth(g)' = Truth(g) - 1
    /\ Cardinality(idle'[g]) >= 2 /\ MaxSize > 2
Floored(g) == created[g] = 0 /\ created'[g] = 0 /\ Truth(g)' = Truth(g) - 1

\* A step of a thread disturbs the count of its own pool in these ways only.
LEMMA CountsKept ==
    ASSUME Tally, TypeOK', NEW g \in Gens, g <= built, UNCHANGED closed,
           \A h \in Gens \ {g} : /\ idle'[h] = idle[h] /\ created'[h] = created[h]
                                 /\ Hands(h)' = Hands(h),
           Cardinality(Loans)' >= Cardinality(Loans),
           Together(g) \/ Lost(g) \/ Floored(g)
    PROVE  Counts'
<1> USE Sizes
<1>1. \A h \in Gens : /\ Truth(h) \in Nat /\ created[h] \in Nat /\ created[h] <= MaxSize
                      /\ Truth(h)' \in Nat /\ created'[h] \in Nat /\ created'[h] <= MaxSize
  BY Finite, FiniteNext DEF Truth, TypeOK, Tally, IInv
<1>2. \A h \in Gens \ {g} : Truth(h)' >= Truth(h) BY Finite, FiniteNext DEF Truth, Tally, IInv
<1>3. ASSUME NEW h \in Gens, ~closed[h] PROVE created'[h] <= Truth(h)' + Slack
  <2>1. created[h] <= Truth(h) + Slack BY <1>3 DEF Tally, Counts
  <2>2. CASE h # g BY <1>1, <1>2, <2>1, <2>2
  <2>3. CASE h = g /\ Together(g) BY <1>1, <2>1, <2>3 DEF Together
  <2>4. CASE h = g /\ Floored(g) BY <1>1, <2>4 DEF Floored
  <2>5. CASE h = g /\ Lost(g)
    <3>1. Truth(g)' >= 2 BY <2>5, FiniteNext DEF Lost, Truth
    <3>2. Slack = MaxSize - 2 BY <2>5 DEF Lost, Slack
    <3> QED BY <1>1, <2>5, <3>1, <3>2
  <2> QED BY <2>2, <2>3, <2>4, <2>5
<1>4. ASSUME ~closed[1] PROVE Truth(1)' <= created'[1] + (Warmed - WarmCount)
  <2>1. 1 \in Gens BY SizeAssumption DEF Gens
  <2>2. built = 1 BY <1>4, <2>1 DEF Tally, OnePool, IInv, TypeOK, Gens
  <2>3. g = 1 BY <2>2 DEF Gens
  <2>4. Truth(1) <= created[1] + (Warmed - WarmCount) BY <1>4 DEF Tally, Counts
  <2> QED BY <1>1, <2>1, <2>3, <2>4 DEF Together, Lost, Floored
<1> QED BY <1>3, <1>4 DEF Counts

-----------------------------------------------------------------------------
(* The steps of a call: each works on one pool, g, and moves one connection. *)

LEMMA Gone ==
    ASSUME TypeOK, NEW t \in Threads, NEW to, Goto(t, to)
    PROVE  \A u \in Threads : /\ pc'[u] = IF u = t THEN to ELSE pc[u]
                              /\ ref'[u] = IF u = t /\ to = "home" THEN 0 ELSE ref[u]
BY DEF Goto, TypeOK

\* What a step of a call has to show for all that Tally says.
LEMMA CallKeeps ==
    ASSUME Tally, TypeOK', NEW t \in Threads, NEW to, pc[t] # "home", Goto(t, to),
           UNCHANGED <<current, built, closed>>,
           NEW g \in Gens, g = ref[t],
           \A h \in Gens \ {g} : /\ idle'[h] = idle[h] /\ created'[h] = created[h]
                                 /\ lock'[h] = lock[h],
           \A u \in Threads \ {t} : /\ cand'[u] = cand[u] /\ pooled'[u] = pooled[u]
                                    /\ raw'[u] = raw[u],
           cand'[t] # None <=> to \in {"check", "return", "put"},
           to # "home" \/ raw'[t] = None => pooled'[t] = None,
           Cardinality(idle'[g]) <= MaxSize \/ Cardinality(idle'[g]) <= 2,
           lock'[g] = lock[g] \/ lock[g] \in {None, t},
           created'[g] = created[g] \/ lock[g] = None,
           to = "wait" => lock'[g] = t /\ created'[g] >= MaxSize,
           Cardinality(Loans)' >= Cardinality(Loans),
           Together(g) \/ Lost(g) \/ Floored(g)
    PROVE  OnePool' /\ Room' /\ OneEach' /\ WaitsLocked' /\ Counts'
<1>1. \A u \in Threads : /\ pc'[u] = IF u = t THEN to ELSE pc[u]
                         /\ ref'[u] = IF u = t /\ to = "home" THEN 0 ELSE ref[u]
  BY Gone DEF Tally, IInv
<1>2. g <= built BY DEF Tally, OnePool
<1>3. OnePool'
  <2>1. \A h \in Gens : h > built => created'[h] = 0
    BY <1>2, SizeAssumption DEF Tally, OnePool, IInv, TypeOK, Gens
  <2>2. \A u \in Threads : ref'[u] <= built
    BY <1>1 DEF Tally, OnePool, IInv, TypeOK
  <2> QED BY <2>1, <2>2 DEF Tally, OnePool
<1>4. Room' BY DEF Tally, Room
<1>5. OneEach' BY <1>1 DEF Tally, OneEach
<1>6. WaitsLocked'
  <2> SUFFICES ASSUME NEW u \in Threads, pc'[u] = "wait"
               PROVE  /\ lock'[ref'[u]] = u
                      /\ closed[ref'[u]] \/ created'[ref'[u]] >= MaxSize
    BY DEF WaitsLocked
  <2>1. CASE u = t BY <1>1, <2>1
  <2>2. CASE u # t
    <3>1. /\ pc[u] = "wait" /\ ref'[u] = ref[u] /\ lock[ref[u]] = u
          /\ closed[ref[u]] \/ created[ref[u]] >= MaxSize
      BY <1>1, <2>2 DEF Tally, WaitsLocked
    <3>2. ref[u] \in Gens /\ u # None BY <3>1, SizeAssumption DEF Tally, IInv, Exists
    <3> QED BY <2>2, <3>1, <3>2
  <2> QED BY <2>1, <2>2
<1>7. Counts'
  <2>1. to \notin Busy \/ ref'[t] = g BY <1>1 DEF Busy
  <2>2. \A h \in Gens \ {g} : Hands(h)' = Hands(h) BY <1>1, <2>1, HandsStep
  <2> QED BY <1>2, <2>2, CountsKept
<1> QED BY <1>3, <1>4, <1>5, <1>6, <1>7

\* A call that takes or leaves no connection.
LEMMA StayTogether ==
    ASSUME Tally, TypeOK', NEW t \in Threads, NEW to, Goto(t, to),
           NEW g \in Gens, g = ref[t], pc[t] \in Busy <=> to \in Busy,
           idle'[g] = idle[g], created'[g] = created[g],
           pooled' = pooled
    PROVE  Together(g) /\ Cardinality(Loans)' >= Cardinality(Loans)
<1>1. \A u \in Threads : /\ pc'[u] = IF u = t THEN to ELSE pc[u]
                         /\ ref'[u] = IF u = t /\ to = "home" THEN 0 ELSE ref[u]
  BY Gone DEF Tally, IInv
<1>2. Hands(g)' = Hands(g) BY <1>1 DEF Hands, Busy
<1>3. Loans' = Loans BY DEF Loans
<1>4. Cardinality(Loans) \in Nat BY Finite DEF Tally, IInv
<1> QED BY <1>2, <1>3, <1>4 DEF Together, Truth

LEMMA NativeRaw ==
    ASSUME TypeOK, NEW t \in Threads, NEW gone, Native(t, gone)
    PROVE  \A u \in Threads \ {t} : raw'[u] = raw[u]
BY DEF Native, TypeOK, Held

LEMMA TallyLimit ==
    ASSUME Tally, TypeOK', NEW t \in Threads,
           Enter(t) \/ CreateFails(t) \/ TimedOut(t) \/ Wait(t)
           \/ (Get(t) /\ Empty(t, "limit")) \/ (WakeUp(t) /\ Empty(t, "get"))
    PROVE  OnePool' /\ Room' /\ OneEach' /\ WaitsLocked' /\ Counts'
<1>1. PICK g : g = ref[t] OBVIOUS
<1>2. /\ pc[t] \in {"enter", "limit", "get", "wait"} /\ g \in Gens
      /\ UNCHANGED <<idle, created, closed, current, built, cand, pooled>>
      /\ cand[t] = None /\ pooled[t] = None
  <2>1. pc[t] \in {"enter", "limit", "get", "wait"}
    BY DEF Enter, CreateFails, TimedOut, Wait, Get, WakeUp
  <2>2. UNCHANGED <<idle, created, closed, current, built, cand, pooled>>
    BY DEF Enter, CreateFails, TimedOut, Wait, Get, WakeUp, Native, Empty, pools, manager,
           wrapper
  <2> QED BY <1>1, <2>1, <2>2 DEF Tally, IInv, Exists, OneEach
<1>3. PICK to \in {"home", "get", "wait", "limit"} :
          /\ Goto(t, to)
          /\ to = "wait" => created[g] >= MaxSize /\ lock'[g] = t
  <2>1. CASE Wait(t)
    BY <1>1, <1>2, <2>1 DEF Wait, Tally, IInv, TypeOK
  <2>2. CASE ~Wait(t)
    BY <2>2 DEF Enter, CreateFails, TimedOut, Get, WakeUp, Native, Empty
  <2> QED BY <2>1, <2>2
<1>4. \A u \in Threads \ {t} : raw'[u] = raw[u]
  <2>1. Native(t, {}) \/ raw' = raw
    BY DEF Enter, CreateFails, TimedOut, Wait, Get, WakeUp, Empty, wrapper
  <2> QED BY <2>1, NativeRaw DEF Tally, IInv
<1>5. /\ \A h \in Gens \ {g} : lock'[h] = lock[h]
      /\ lock'[g] = lock[g] \/ lock[g] \in {None, t}
  <2>1. CASE Wait(t) BY <1>1, <1>2, <2>1 DEF Wait, Tally, IInv, TypeOK
  <2>2. CASE WakeUp(t)
    <3>1. lock[g] = t BY <1>1, <2>2 DEF WakeUp, Tally, WaitsLocked
    <3> QED BY <1>1, <1>2, <2>2, <3>1 DEF WakeUp, Tally, IInv, TypeOK
  <2>3. CASE ~Wait(t) /\ ~WakeUp(t)
    BY <2>3 DEF Enter, CreateFails, TimedOut, Get, pools
  <2> QED BY <2>1, <2>2, <2>3
<1>6. Together(g) /\ Cardinality(Loans)' >= Cardinality(Loans)
  BY <1>1, <1>2, <1>3, StayTogether DEF Busy
<1>7. Cardinality(idle'[g]) <= MaxSize \/ Cardinality(idle'[g]) <= 2
  BY <1>2 DEF Tally, Room
<1> QED BY <1>1, <1>2, <1>3, <1>4, <1>5, <1>6, <1>7, CallKeeps

\* How the hands of the call's pool change.
LEMMA CallHands ==
    ASSUME Tally, NEW t \in Threads, NEW to, Goto(t, to), to \in Busy \/ pc[t] \in Busy,
           NEW g \in Gens, g = ref[t]
    PROVE  Cardinality(Hands(g)') =
             IF pc[t] \notin Busy THEN Cardinality(Hands(g)) + 1
             ELSE IF to \in Busy THEN Cardinality(Hands(g)) ELSE Cardinality(Hands(g)) - 1
<1>1. \A u \in Threads : /\ pc'[u] = IF u = t THEN to ELSE pc[u]
                         /\ ref'[u] = IF u = t /\ to = "home" THEN 0 ELSE ref[u]
  BY Gone DEF Tally, IInv
<1>2. to \notin Busy \/ ref'[t] = g BY <1>1 DEF Busy
<1>3. /\ Hands(g)' = IF to \in Busy THEN Hands(g) \cup {t} ELSE Hands(g) \ {t}
      /\ t \in Hands(g) <=> pc[t] \in Busy
  BY <1>1, <1>2, HandsStep
<1>4. IsFiniteSet(Hands(g)) BY Finite DEF Tally, IInv
<1> HIDE DEF Hands, Busy
<1>5. CASE to \in Busy
  <2>1. Hands(g)' = Hands(g) \cup {t} BY <1>3, <1>5
  <2>2. Cardinality(Hands(g) \cup {t})
          = IF t \in Hands(g) THEN Cardinality(Hands(g)) ELSE Cardinality(Hands(g)) + 1
    BY <1>4, SizeStep
  <2> QED BY <1>3, <1>5, <2>1, <2>2
<1>6. CASE to \notin Busy
  <2>1. Hands(g)' = Hands(g) \ {t} BY <1>3, <1>6
  <2>2. Cardinality(Hands(g) \ {t})
          = IF t \in Hands(g) THEN Cardinality(Hands(g)) - 1 ELSE Cardinality(Hands(g))
    BY <1>4, SizeStep
  <2> QED BY <1>3, <1>6, <2>1, <2>2
<1> QED BY <1>5, <1>6

LEMMA Numbers ==
    ASSUME Tally, NEW g \in Gens
    PROVE  /\ Cardinality(idle[g]) \in Nat /\ Cardinality(Hands(g)) \in Nat
           /\ Cardinality(Loans) \in Nat /\ created[g] \in Nat /\ created[g] <= MaxSize
           /\ MaxSize \in Nat
BY Finite, Sizes DEF Tally, IInv, TypeOK

\* The queue hands a connection over, or loses it.
LEMMA TallyPop ==
    ASSUME Tally, TypeOK', NEW t \in Threads, Get(t) \/ WakeUp(t), NEW c \in Conns, Pop(t, c)
    PROVE  OnePool' /\ Room' /\ OneEach' /\ WaitsLocked' /\ Counts'
<1>1. PICK g : g = ref[t] OBVIOUS
<1>2. /\ pc[t] \in {"get", "wait"} /\ g \in Gens
      /\ UNCHANGED <<created, closed, current, built, pooled>>
      /\ cand[t] = None /\ pooled[t] = None
  <2>1. pc[t] \in {"get", "wait"} BY DEF Get, WakeUp
  <2>2. UNCHANGED <<created, closed, current, built, pooled>>
    BY DEF Get, WakeUp, Pop, Native, manager, wrapper
  <2> QED BY <1>1, <2>1, <2>2 DEF Tally, IInv, Exists, OneEach
<1>3. /\ c \in idle[g]
      /\ \A h \in Gens : idle'[h] = IF h = g THEN idle[g] \ {c} ELSE idle[h]
  BY <1>1, <1>2 DEF Pop, Take, Tally, IInv, TypeOK
<1>4. Cardinality(idle'[g]) = Cardinality(idle[g]) - 1
  <2>1. IsFiniteSet(idle[g]) BY <1>2, Finite DEF Tally, IInv
  <2> QED BY <1>2, <1>3, <2>1, SizeStep
<1>5. \A h \in Gens \ {g} : lock'[h] = lock[h] BY <1>1, <1>2 DEF Get, WakeUp, Tally, IInv, TypeOK
<1>6. lock'[g] = lock[g] \/ lock[g] \in {None, t}
  BY <1>1, <1>2 DEF Get, WakeUp, Tally, WaitsLocked
<1>7. Loans' = Loans BY <1>2 DEF Loans
<1>8. Cardinality(idle'[g]) <= MaxSize \/ Cardinality(idle'[g]) <= 2
  BY <1>2, <1>4, Numbers DEF Tally, Room
<1>9. CASE Cardinality(idle[g]) <= 2
  <2>1. /\ cand' = [cand EXCEPT ![t] = c] /\ Goto(t, "check") /\ UNCHANGED raw
    BY <1>1, <1>9 DEF Pop, wrapper
  <2>2. cand'[t] # None /\ \A u \in Threads \ {t} : cand'[u] = cand[u]
    BY <2>1, Names DEF Tally, IInv, TypeOK, Held
  <2>3. Cardinality(Hands(g)') = Cardinality(Hands(g)) + 1
    BY <1>1, <1>2, <2>1, CallHands DEF Busy
  <2>4. Together(g)
    BY <1>2, <1>4, <1>7, <2>3, Numbers DEF Together, Truth
  <2> QED BY <1>1, <1>2, <1>3, <1>5, <1>6, <1>7, <1>8, <2>1, <2>2, <2>4, CallKeeps, Numbers
<1>10. CASE ~(Cardinality(idle[g]) <= 2)
  <2>1. Native(t, {c} \ Referred) BY <1>1, <1>10 DEF Pop
  <2>2. Goto(t, "home") /\ UNCHANGED cand BY <2>1, InvNative DEF Tally
  <2>3. \A u \in Threads \ {t} : raw'[u] = raw[u] BY <2>1, NativeRaw DEF Tally, IInv
  <2>4. Hands(g)' = Hands(g)
    <3>1. \A u \in Threads : /\ pc'[u] = IF u = t THEN "home" ELSE pc[u]
                             /\ ref'[u] = IF u = t THEN 0 ELSE ref[u]
      BY <2>2, Gone DEF Tally, IInv
    <3> QED BY <1>2, <3>1 DEF Hands, Busy
  <2>5. Lost(g)
    <3>1. MaxSize > 2 BY <1>2, <1>10, Numbers DEF Tally, Room
    <3>2. Truth(g)' = Truth(g) - 1 BY <1>2, <1>4, <1>7, <2>4, Numbers DEF Truth
    <3>3. Cardinality(idle'[g]) >= 2 BY <1>2, <1>4, <1>10, Numbers
    <3> QED BY <1>2, <3>1, <3>2, <3>3 DEF Lost
  <2> QED BY <1>1, <1>2, <1>3, <1>5, <1>6, <1>7, <1>8, <2>2, <2>3, <2>5, CallKeeps, Numbers
<1> QED BY <1>9, <1>10

LEMMA TallyCreate ==
    ASSUME Tally, TypeOK', NEW t \in Threads, Create(t)
    PROVE  OnePool' /\ Room' /\ OneEach' /\ WaitsLocked' /\ Counts'
<1>1. PICK g : g = ref[t] OBVIOUS
<1>2. /\ pc[t] = "limit" /\ g \in Gens /\ lock[g] = None /\ Goto(t, "check")
      /\ UNCHANGED <<idle, closed, lock, current, built, pooled, raw>>
      /\ created' = [created EXCEPT ![g] = created[g] + 1]
      /\ cand[t] = None /\ pooled[t] = None
  <2>1. /\ pc[t] = "limit" /\ lock[g] = None /\ Goto(t, "check")
        /\ UNCHANGED <<idle, closed, lock, current, built, pooled, raw>>
        /\ created' = [created EXCEPT ![g] = created[g] + 1]
    BY <1>1 DEF Create, Count, manager, wrapper
  <2> QED BY <1>1, <2>1 DEF Tally, IInv, Exists, OneEach
<1>3. PICK c \in Fresh(1) : cand' = [cand EXCEPT ![t] = c] BY DEF Create
<1>4. cand'[t] # None /\ \A u \in Threads \ {t} : cand'[u] = cand[u]
  BY <1>3, FreshIsNew DEF Tally, IInv, TypeOK, Held
<1>5. \A h \in Gens : created'[h] = IF h = g THEN created[g] + 1 ELSE created[h]
  BY <1>2 DEF Tally, IInv, TypeOK
<1>6. Loans' = Loans BY <1>2 DEF Loans
<1>7. Cardinality(Hands(g)') = Cardinality(Hands(g)) + 1 BY <1>1, <1>2, CallHands DEF Busy
<1>8. Together(g) BY <1>2, <1>5, <1>6, <1>7, Numbers DEF Together, Truth
<1>9. Cardinality(idle'[g]) <= MaxSize \/ Cardinality(idle'[g]) <= 2
  BY <1>2 DEF Tally, Room
<1> QED BY <1>1, <1>2, <1>4, <1>5, <1>6, <1>8, <1>9, CallKeeps, Numbers

LEMMA TallyLend ==
    ASSUME Tally, TypeOK', NEW t \in Threads, Lend(t)
    PROVE  OnePool' /\ Room' /\ OneEach' /\ WaitsLocked' /\ Counts'
<1>1. PICK g : g = ref[t] OBVIOUS
<1>2. /\ pc[t] = "check" /\ g \in Gens /\ Goto(t, "home")
      /\ UNCHANGED <<idle, created, closed, lock, current, built>>
      /\ cand' = [cand EXCEPT ![t] = None] /\ pooled' = [pooled EXCEPT ![t] = cand[t]]
      /\ raw' = [raw EXCEPT ![t] = cand[t]]
      /\ cand[t] # None /\ pooled[t] = None
  <2>1. /\ pc[t] = "check" /\ Goto(t, "home")
        /\ UNCHANGED <<idle, created, closed, lock, current, built>>
        /\ cand' = [cand EXCEPT ![t] = None] /\ pooled' = [pooled EXCEPT ![t] = cand[t]]
        /\ raw' = [raw EXCEPT ![t] = cand[t]]
    BY DEF Lend, pools, manager
  <2> QED BY <1>1, <2>1 DEF Tally, IInv, Exists, OneEach
<1>3. \A u \in Threads : /\ cand'[u] = IF u = t THEN None ELSE cand[u]
                         /\ pooled'[u] = IF u = t THEN cand[t] ELSE pooled[u]
                         /\ raw'[u] = IF u = t THEN cand[t] ELSE raw[u]
  BY <1>2 DEF Tally, IInv, TypeOK, Held
<1>4. Loans' = Loans \cup {t} /\ t \notin Loans BY <1>2, <1>3 DEF Loans
<1>5. Cardinality(Loans') = Cardinality(Loans) + 1
  <2>1. IsFiniteSet(Loans) BY Finite DEF Tally, IInv
  <2> QED BY <1>4, <2>1, SizeStep
<1>6. Cardinality(Hands(g)') = Cardinality(Hands(g)) - 1 BY <1>1, <1>2, CallHands DEF Busy
<1>7. Together(g) /\ Cardinality(Loans') >= Cardinality(Loans)
  BY <1>2, <1>5, <1>6, Numbers DEF Together, Truth
<1>8. Cardinality(idle'[g]) <= MaxSize \/ Cardinality(idle'[g]) <= 2
  BY <1>2 DEF Tally, Room
<1> QED BY <1>1, <1>2, <1>3, <1>7, <1>8, CallKeeps

\* A candidate or a returned connection that is closed stays in the call's
\* hands until the count has followed.
LEMMA TallyDiscard ==
    ASSUME Tally, TypeOK', NEW t \in Threads, NEW to \in {"drop", "dropped"},
           pc[t] \in {"check", "return", "put"}, Discard(t, to),
           UNCHANGED <<idle, created, closed, lock, current, built, pooled, raw>>
    PROVE  OnePool' /\ Room' /\ OneEach' /\ WaitsLocked' /\ Counts'
<1>1. PICK g : g = ref[t] OBVIOUS
<1>2. g \in Gens /\ Goto(t, to) /\ cand' = [cand EXCEPT ![t] = None] /\ pooled[t] = None
  BY <1>1 DEF Discard, Tally, IInv, Exists, OneEach
<1>3. \A u \in Threads : cand'[u] = IF u = t THEN None ELSE cand[u]
  BY <1>2 DEF Tally, IInv, TypeOK, Held
<1>4. Together(g) /\ Cardinality(Loans)' >= Cardinality(Loans)
  BY <1>1, <1>2, StayTogether DEF Busy
<1>5. Cardinality(idle'[g]) <= MaxSize \/ Cardinality(idle'[g]) <= 2
  BY <1>2 DEF Tally, Room
<1> QED BY <1>1, <1>2, <1>3, <1>4, <1>5, CallKeeps

LEMMA TallyUncount ==
    ASSUME Tally, TypeOK', NEW t \in Threads, Uncount(t)
    PROVE  OnePool' /\ Room' /\ OneEach' /\ WaitsLocked' /\ Counts'
<1>1. PICK g : g = ref[t] OBVIOUS
<1>2. /\ pc[t] \in {"drop", "dropped"} /\ g \in Gens /\ lock[g] = None
      /\ UNCHANGED <<idle, closed, lock, current, built, cand, pooled, raw>>
      /\ created' = [created EXCEPT ![g] = IF created[g] = 0 THEN 0 ELSE created[g] - 1]
      /\ cand[t] = None /\ pooled[t] = None
  <2>1. /\ pc[t] \in {"drop", "dropped"} /\ lock[g] = None
        /\ UNCHANGED <<idle, closed, lock, current, built, cand, pooled, raw>>
        /\ created' = [created EXCEPT ![g] = IF created[g] = 0 THEN 0 ELSE created[g] - 1]
    BY <1>1 DEF Uncount, Count, manager, wrapper
  <2> QED BY <1>1, <2>1 DEF Tally, IInv, Exists, OneEach
<1>3. PICK to \in {"get", "home"} : Goto(t, to) BY DEF Uncount
<1>4. \A h \in Gens : created'[h] = IF h # g THEN created[h]
                                    ELSE IF created[g] = 0 THEN 0 ELSE created[g] - 1
  BY <1>2 DEF Tally, IInv, TypeOK
<1>5. Loans' = Loans BY <1>2 DEF Loans
<1>6. Cardinality(Hands(g)') = Cardinality(Hands(g)) - 1
  BY <1>1, <1>2, <1>3, CallHands DEF Busy
<1>7. Together(g) \/ Floored(g)
  BY <1>2, <1>4, <1>5, <1>6, Numbers DEF Together, Floored, Truth
<1>8. Cardinality(idle'[g]) <= MaxSize \/ Cardinality(idle'[g]) <= 2
  BY <1>2 DEF Tally, Room
<1> QED BY <1>1, <1>2, <1>3, <1>4, <1>5, <1>7, <1>8, CallKeeps, Numbers

LEMMA TallyRelease ==
    ASSUME Tally, TypeOK', NEW t \in Threads, Release(t) \/ PutBack(t)
    PROVE  OnePool' /\ Room' /\ OneEach' /\ WaitsLocked' /\ Counts'
<1>1. PICK g : g = ref[t] OBVIOUS
<1>2. /\ pc[t] \in {"return", "put"} /\ g \in Gens
      /\ UNCHANGED <<created, closed, lock, current, built, pooled, raw>>
      /\ cand[t] \in Conns /\ cand[t] # None /\ pooled[t] = None
  <2>1. /\ pc[t] \in {"return", "put"}
        /\ UNCHANGED <<created, closed, lock, current, built, pooled, raw>>
    BY DEF Release, PutBack, pools, manager, wrapper
  <2> QED BY <1>1, <2>1, Names DEF Tally, IInv, Exists, OneEach
<1>3. CASE Discard(t, "dropped") /\ UNCHANGED idle
  BY <1>2, <1>3, TallyDiscard
<1>4. CASE Goto(t, "put") /\ UNCHANGED <<idle, cand>>
  <2>1. Together(g) /\ Cardinality(Loans)' >= Cardinality(Loans)
    BY <1>1, <1>2, <1>4, StayTogether DEF Busy
  <2>2. Cardinality(idle'[g]) <= MaxSize \/ Cardinality(idle'[g]) <= 2
    BY <1>2, <1>4 DEF Tally, Room
  <2> QED BY <1>1, <1>2, <1>4, <2>1, <2>2, CallKeeps
<1>5. CASE /\ ~(Cardinality(idle[g]) >= MaxSize)
           /\ Put(g, cand[t]) /\ cand' = [cand EXCEPT ![t] = None] /\ Goto(t, "home")
  <2>1. \A h \in Gens : idle'[h] = IF h = g THEN idle[g] \cup {cand[t]} ELSE idle[h]
    BY <1>2, <1>5 DEF Put, Tally, IInv, TypeOK
  <2>2. Cardinality(idle'[g]) = Cardinality(idle[g]) + 1
    <3>1. IsFiniteSet(idle[g]) /\ cand[t] \notin idle[g]
      BY <1>2, Finite DEF Tally, IInv, Exclusive
    <3> QED BY <1>2, <2>1, <3>1, SizeStep
  <2>3. \A u \in Threads : cand'[u] = IF u = t THEN None ELSE cand[u]
    BY <1>5 DEF Tally, IInv, TypeOK, Held
  <2>4. Loans' = Loans BY <1>2 DEF Loans
  <2>5. Cardinality(Hands(g)') = Cardinality(Hands(g)) - 1
    BY <1>1, <1>2, <1>5, CallHands DEF Busy
  <2>6. Together(g) BY <1>2, <2>2, <2>4, <2>5, Numbers DEF Together, Truth
  <2>7. Cardinality(idle'[g]) <= MaxSize BY <1>2, <1>5, <2>2, Numbers
  <2> QED BY <1>1, <1>2, <1>5, <2>1, <2>3, <2>4, <2>6, <2>7, CallKeeps, Numbers
<1> QED BY <1>1, <1>3, <1>4, <1>5 DEF Release, PutBack, pools

-----------------------------------------------------------------------------
(* The steps that ask the manager for its pool, or close it.               *)

\* The pool a request goes to: the open one, or a new one with its warm-up.
LEMMA ManagedPool ==
    ASSUME Tally, NEW t \in Threads, NEW then, Manage(t, then)
    PROVE  \E g \in Gens :
              /\ current' = g /\ built' = g /\ UNCHANGED <<closed, lock>>
              /\ \A u \in Threads : /\ pc'[u] = IF u = t THEN then ELSE pc[u]
                                    /\ ref'[u] = IF u = t THEN g ELSE ref[u]
              /\ \A h \in Gens \ {g} : idle'[h] = idle[h] /\ created'[h] = created[h]
              /\ \/ /\ current = g /\ built = g
                    /\ idle'[g] = idle[g] /\ created'[g] = created[g]
                 \/ /\ current = 0 /\ g = built + 1
                    /\ Cardinality(idle'[g]) = Warmed /\ created'[g] = WarmCount
<1>1. CASE current # 0
  <2>1. current = built /\ current \in Gens
    BY <1>1 DEF Tally, OnePool, IInv, TypeOK, Gens
  <2>2. /\ UNCHANGED <<idle, created, closed, lock, current, built>>
        /\ ref' = [ref EXCEPT ![t] = current] /\ pc' = [pc EXCEPT ![t] = then]
    BY <1>1 DEF Manage, pools, manager
  <2> QED BY <2>1, <2>2 DEF Tally, IInv, TypeOK
<1>2. CASE current = 0
  <2> DEFINE g == built + 1
  <2>1. /\ built' = g /\ current' = g /\ UNCHANGED <<closed, lock>>
        /\ ref' = [ref EXCEPT ![t] = g] /\ pc' = [pc EXCEPT ![t] = then]
        /\ idle' = [idle EXCEPT ![g] = Fresh(Warmed)]
        /\ created' = [created EXCEPT ![g] = WarmCount]
        /\ Cardinality(Fresh(Warmed)) = Warmed
    BY <1>2 DEF Manage, Count
  <2>2. g \in Gens BY <1>2, SizeAssumption DEF Tally, IInv, TypeOK, Exists, Gens
  <2> HIDE DEF g
  <2>3. /\ idle'[g] = Fresh(Warmed) /\ created'[g] = WarmCount
        /\ \A h \in Gens \ {g} : idle'[h] = idle[h] /\ created'[h] = created[h]
    BY <2>1, <2>2 DEF Tally, IInv, TypeOK
  <2>4. \A u \in Threads : /\ pc'[u] = IF u = t THEN then ELSE pc[u]
                           /\ ref'[u] = IF u = t THEN g ELSE ref[u]
    BY <2>1 DEF Tally, IInv, TypeOK
  <2>5. g = built + 1 BY DEF g
  <2>6. Cardinality(idle'[g]) = Warmed BY <2>1, <2>3
  <2> QED BY <1>2, <2>1, <2>2, <2>3, <2>4, <2>5, <2>6
<1> QED BY <1>1, <1>2

LEMMA ManageKeeps ==
    ASSUME Tally, TypeOK', NEW t \in Threads, NEW then \in {"enter", "return"},
           Manage(t, then), OneEach',
           \A g \in Gens : g = ref'[t] =>
               Cardinality(Hands(g)') + Cardinality(Loans') =
                  Cardinality(Hands(g)) + Cardinality(Loans)
    PROVE  OnePool' /\ Room' /\ OneEach' /\ WaitsLocked' /\ Counts'
<1> USE Sizes
<1>1. PICK g \in Gens :
          /\ current' = g /\ built' = g /\ UNCHANGED <<closed, lock>>
          /\ \A u \in Threads : /\ pc'[u] = IF u = t THEN then ELSE pc[u]
                                /\ ref'[u] = IF u = t THEN g ELSE ref[u]
          /\ \A h \in Gens \ {g} : idle'[h] = idle[h] /\ created'[h] = created[h]
          /\ \/ /\ current = g /\ built = g
                /\ idle'[g] = idle[g] /\ created'[g] = created[g]
             \/ /\ current = 0 /\ g = built + 1
                /\ Cardinality(idle'[g]) = Warmed /\ created'[g] = WarmCount
  BY ManagedPool
<1>9. closed' = closed /\ lock' = lock BY <1>1
<1>2. g >= 1 /\ g \in Nat /\ built \in Nat /\ built >= 1
  BY DEF Gens, Tally, IInv, TypeOK, OnePool
<1>3. OnePool'
  <2>1. \A h \in Gens : ~closed[h] => h = g \/ h > g
    BY <1>1, <1>2 DEF Tally, OnePool, Gens
  <2>2. \A h \in Gens : h > g => created'[h] = 0
    BY <1>1, <1>2 DEF Tally, OnePool, Gens
  <2>3. \A u \in Threads : ref'[u] <= g
    BY <1>1, <1>2 DEF Tally, OnePool, IInv, TypeOK
  <2> QED BY <1>1, <1>2, <2>1, <2>2, <2>3 DEF OnePool
<1>4. Room' BY <1>1 DEF Tally, Room
<1>5. WaitsLocked'
  <2> SUFFICES ASSUME NEW u \in Threads, pc'[u] = "wait"
               PROVE  /\ lock'[ref'[u]] = u
                      /\ closed[ref'[u]] \/ created'[ref'[u]] >= MaxSize
    BY <1>1 DEF WaitsLocked
  <2>1. /\ pc[u] = "wait" /\ ref'[u] = ref[u] /\ lock[ref[u]] = u
        /\ closed[ref[u]] \/ created[ref[u]] >= MaxSize
    BY <1>1 DEF Tally, WaitsLocked
  <2>2. ref[u] \in Gens /\ ref[u] <= built
    BY <2>1 DEF Tally, IInv, Exists, OnePool
  <2>3. created'[ref[u]] = created[ref[u]]
    <3>1. CASE ref[u] = g BY <1>1, <1>2, <2>2, <3>1
    <3>2. CASE ref[u] # g BY <1>1, <2>2, <3>2
    <3> QED BY <3>1, <3>2
  <2> QED BY <1>9, <2>1, <2>3
<1>6. \A h \in Gens : /\ Truth(h) \in Nat /\ created[h] \in Nat
                      /\ Truth(h)' \in Nat /\ created'[h] \in Nat
  BY Finite, FiniteNext DEF Truth, TypeOK, Tally, IInv
<1>7. CASE current = g /\ built = g /\ idle'[g] = idle[g] /\ created'[g] = created[g]
  <2>1. Truth(g)' = Truth(g)
    <3>1. Cardinality(Hands(g)') + Cardinality(Loans') = Cardinality(Hands(g)) + Cardinality(Loans)
      BY <1>1
    <3> QED BY <1>7, <3>1, Finite, FiniteNext DEF Truth, Tally, IInv
  <2>2. \A h \in Gens : ~closed[h] => created'[h] <= Truth(h)' + Slack
    <3>1. \A h \in Gens \ {g} : ~closed[h] => created'[h] = 0
      BY <1>1, <1>2, <1>7 DEF Tally, OnePool
    <3> QED BY <1>6, <1>7, <2>1, <3>1 DEF Tally, Counts
  <2>3. ~closed[1] => Truth(1)' <= created'[1] + (Warmed - WarmCount)
    <3>1. 1 \in Gens BY SizeAssumption DEF Gens
    <3>2. ~closed[1] => g = 1 BY <1>2, <1>7, <3>1 DEF Tally, OnePool
    <3> QED BY <1>7, <2>1, <3>1, <3>2 DEF Tally, Counts
  <2> QED BY <1>3, <1>4, <1>5, <1>9, <2>2, <2>3 DEF Counts
<1>8. CASE /\ current = 0 /\ g = built + 1
           /\ Cardinality(idle'[g]) = Warmed /\ created'[g] = WarmCount
  <2>1. \A h \in Gens \ {g} : ~closed[h] => created'[h] = 0
    BY <1>1, <1>2, <1>8 DEF Tally, OnePool, Gens
  <2>2. created'[g] <= Truth(g)' BY <1>8, FiniteNext DEF Truth
  <2>3. 1 \in Gens BY SizeAssumption DEF Gens
  <2>4. closed[1] BY <1>2, <1>8, <2>3 DEF Tally, OnePool
  <2>5. \A h \in Gens : ~closed[h] => created'[h] <= Truth(h)' + Slack
    BY <1>6, <2>1, <2>2
  <2> QED BY <1>3, <1>4, <1>5, <1>9, <2>4, <2>5 DEF Counts
<1> QED BY <1>1, <1>3, <1>4, <1>5, <1>7, <1>8

LEMMA TallyBorrow ==
    ASSUME Tally, TypeOK', NEW t \in Threads, Borrow(t)
    PROVE  OnePool' /\ Room' /\ OneEach' /\ WaitsLocked' /\ Counts'
<1>1. /\ pc[t] = "home" /\ raw[t] = None /\ Manage(t, "enter")
      /\ UNCHANGED <<cand, pooled, raw>>
  BY DEF Borrow, wrapper
<1>2. PICK g \in Gens :
          \A u \in Threads : /\ pc'[u] = IF u = t THEN "enter" ELSE pc[u]
                             /\ ref'[u] = IF u = t THEN g ELSE ref[u]
  BY <1>1, ManagedPool
<1>3. OneEach' BY <1>1, <1>2 DEF Tally, OneEach
<1>4. \A h \in Gens : Hands(h)' = Hands(h) BY <1>1, <1>2 DEF Hands, Busy
<1>5. Loans' = Loans BY <1>1 DEF Loans
<1>6. \A h \in Gens : Cardinality(Hands(h)) + Cardinality(Loans) \in Nat
  BY Finite DEF Tally, IInv
<1> QED BY <1>1, <1>3, <1>4, <1>5, <1>6, ManageKeeps

LEMMA TallyReturn ==
    ASSUME Tally, TypeOK', NEW t \in Threads, CloseReturns(t)
    PROVE  OnePool' /\ Room' /\ OneEach' /\ WaitsLocked' /\ Counts'
<1>1. /\ pc[t] = "home" /\ pooled[t] # None /\ Manage(t, "return") /\ raw' = raw
      /\ cand' = [cand EXCEPT ![t] = pooled[t]] /\ pooled' = [pooled EXCEPT ![t] = None]
  BY DEF CloseReturns
<1>2. PICK g \in Gens :
          \A u \in Threads : /\ pc'[u] = IF u = t THEN "return" ELSE pc[u]
                             /\ ref'[u] = IF u = t THEN g ELSE ref[u]
  BY <1>1, ManagedPool
<1>3. \A u \in Threads : /\ cand'[u] = IF u = t THEN pooled[t] ELSE cand[u]
                         /\ pooled'[u] = IF u = t THEN None ELSE pooled[u]
  BY <1>1 DEF Tally, IInv, TypeOK, Held
<1>4. OneEach' BY <1>1, <1>2, <1>3 DEF Tally, OneEach
<1>5. Loans' = Loans \ {t} /\ t \in Loans BY <1>1, <1>3 DEF Loans
<1>6. Hands(g)' = Hands(g) \cup {t} /\ t \notin Hands(g)
      /\ \A h \in Gens \ {g} : Hands(h)' = Hands(h)
  BY <1>1, <1>2 DEF Hands, Busy
<1>7. Cardinality(Loans') = Cardinality(Loans) - 1
  <2>1. IsFiniteSet(Loans) BY Finite DEF Tally, IInv
  <2> QED BY <1>5, <2>1, SizeStep
<1>8. Cardinality(Hands(g)') = Cardinality(Hands(g)) + 1
  <2>1. IsFiniteSet(Hands(g)) BY Finite DEF Tally, IInv
  <2> QED BY <1>6, <2>1, SizeStep
<1>9. \A h \in Gens : h = ref'[t] =>
        Cardinality(Hands(h)') + Cardinality(Loans') = Cardinality(Hands(h)) + Cardinality(Loans)
  BY <1>2, <1>7, <1>8, Numbers
<1> QED BY <1>1, <1>4, <1>9, ManageKeeps

\* Steps that write nothing the tally looks at, but a wrapper's own connection.
LEMMA TallyStill ==
    ASSUME Tally,
           UNCHANGED <<idle, created, closed, lock, current, built, pc, ref, cand, pooled>>,
           raw' = raw \/ \E t \in Threads : pooled[t] = None /\ raw' = [raw EXCEPT ![t] = None]
    PROVE  OnePool' /\ Room' /\ OneEach' /\ WaitsLocked' /\ Counts'
<1>1. \A u \in Threads : raw'[u] = None => pooled[u] = None
  <2>1. CASE raw' = raw BY <2>1 DEF Tally, OneEach
  <2>2. ASSUME NEW t \in Threads, pooled[t] = None, raw' = [raw EXCEPT ![t] = None]
        PROVE  \A u \in Threads : raw'[u] = None => pooled[u] = None
    BY <2>2 DEF Tally, OneEach, IInv, TypeOK, Held
  <2> QED BY <2>1, <2>2
<1>2. OneEach' BY <1>1 DEF Tally, OneEach
<1>3. \A g \in Gens : Truth(g)' = Truth(g) BY DEF Truth, Hands, Loans
<1>4. 1 \in Gens BY SizeAssumption DEF Gens
<1>5. Counts' BY <1>3, <1>4 DEF Tally, Counts
<1> QED BY <1>2, <1>5 DEF Tally, OnePool, Room, WaitsLocked

LEMMA TallyCloseAll ==
    ASSUME Tally, TypeOK', CloseAll
    PROVE  OnePool' /\ Room' /\ OneEach' /\ WaitsLocked' /\ Counts'
<1>1. /\ current \in Gens /\ current = built /\ built >= 1 /\ built \in Nat
      /\ closed' = [closed EXCEPT ![current] = TRUE] /\ idle' = [idle EXCEPT ![current] = {}]
      /\ created' = [created EXCEPT ![current] = 0] /\ current' = 0
      /\ UNCHANGED <<lock, built, pc, ref, cand, pooled, raw>>
  BY DEF CloseAll, Count, wrapper, Tally, IInv, TypeOK, OnePool, Gens
<1>2. \A h \in Gens : /\ closed'[h] <=> h = current \/ closed[h]
                      /\ idle'[h] = IF h = current THEN {} ELSE idle[h]
                      /\ created'[h] = IF h = current THEN 0 ELSE created[h]
  BY <1>1 DEF Tally, IInv, TypeOK
<1>3. \A h \in Gens : ~closed'[h] => h > built /\ created'[h] = 0
  BY <1>1, <1>2 DEF Tally, OnePool
<1>4. OnePool'
  <2>1. \A h \in Gens : h > built => created'[h] = 0 BY <1>1, <1>2 DEF Tally, OnePool
  <2> QED BY <1>1, <1>3, <2>1 DEF Tally, OnePool
<1>5. Room'
  <2>1. Cardinality({}) = 0 BY FS_EmptySet
  <2> QED BY <1>2, <2>1 DEF Tally, Room
<1>6. OneEach' BY <1>1 DEF Tally, OneEach
<1>7. WaitsLocked'
  <2> SUFFICES ASSUME NEW u \in Threads, pc'[u] = "wait"
               PROVE  /\ lock'[ref'[u]] = u
                      /\ closed'[ref'[u]] \/ created'[ref'[u]] >= MaxSize
    BY DEF WaitsLocked
  <2>1. /\ lock[ref[u]] = u
        /\ closed[ref[u]] \/ created[ref[u]] >= MaxSize
        /\ ref[u] \in Gens
    BY <1>1 DEF Tally, WaitsLocked, IInv, Exists
  <2>2. CASE ref[u] = current BY <1>1, <1>2, <2>1, <2>2 DEF Tally, WaitsLocked
  <2>3. CASE ref[u] # current BY <1>1, <1>2, <2>1, <2>3 DEF Tally, WaitsLocked
  <2> QED BY <2>2, <2>3
<1>8. Counts'
  <2>1. \A h \in Gens : Truth(h)' \in Nat BY FiniteNext DEF Truth
  <2>2. 1 \in Gens BY SizeAssumption DEF Gens
  <2>3. closed'[1] BY <1>1, <1>3, <2>2
  <2>4. \A h \in Gens : ~closed'[h] => created'[h] <= Truth(h)' + Slack BY <1>3, <2>1, Sizes
  <2> QED BY <2>3, <2>4 DEF Counts
<1> QED BY <1>4, <1>5, <1>6, <1>7, <1>8

LEMMA TallyInit == Init => Tally
<1> SUFFICES ASSUME Init PROVE Tally OBVIOUS
<1> USE Sizes
<1>1. PICK first \in SUBSET Conns :
          /\ Cardinality(first) = Warmed
          /\ idle = [g \in Gens |-> IF g = 1 THEN first ELSE {}]
  BY DEF Init
<1>2. /\ built = 1 /\ current = 1 /\ 1 \in Gens
      /\ \A g \in Gens : created[g] = (IF g = 1 THEN WarmCount ELSE 0) /\ ~closed[g]
      /\ \A t \in Threads : /\ pc[t] = "home" /\ ref[t] = 0
                            /\ cand[t] = None /\ pooled[t] = None
  BY SizeAssumption DEF Init, Gens
<1>3. \A g \in Gens : Cardinality(idle[g]) = IF g = 1 THEN Warmed ELSE 0
  BY <1>1, FS_EmptySet
<1>4. OnePool BY <1>2 DEF OnePool, Gens
<1>5. Room BY <1>3 DEF Room
<1>6. OneEach /\ WaitsLocked BY <1>2 DEF OneEach, WaitsLocked
<1>7. Counts
  <2>1. Loans = {} /\ \A g \in Gens : Hands(g) = {} BY <1>2 DEF Loans, Hands, Busy
  <2>2. \A g \in Gens : Truth(g) = IF g = 1 THEN Warmed ELSE 0
    BY <1>3, <2>1, FS_EmptySet DEF Truth
  <2> QED BY <1>2, <2>2 DEF Counts
<1> QED BY <1>4, <1>5, <1>6, <1>7, InvInit DEF Tally

LEMMA TallyNext == Tally /\ [Next]_vars => Tally'
<1> SUFFICES ASSUME Tally, [Next]_vars
             PROVE  OnePool' /\ Room' /\ OneEach' /\ WaitsLocked' /\ Counts'
  BY InvNext DEF Tally
<1>1. TypeOK' BY InvNext DEF Tally, IInv
<1>2. CASE CloseAll BY <1>1, <1>2, TallyCloseAll
<1>3. ASSUME NEW t \in Threads, Worker(t)
      PROVE  OnePool' /\ Room' /\ OneEach' /\ WaitsLocked' /\ Counts'
  <2>1. CASE Borrow(t) BY <1>1, <2>1, TallyBorrow
  <2>2. CASE CloseReturns(t) BY <1>1, <2>2, TallyReturn
  <2>3. CASE CloseNative(t)
    BY <2>3, TallyStill DEF CloseNative, pools, manager
  <2>4. CASE Release(t) \/ PutBack(t) BY <1>1, <2>4, TallyRelease
  <2>5. CASE Acquire(t)
    <3>1. CASE Enter(t) \/ CreateFails(t) \/ TimedOut(t) \/ Wait(t)
      BY <1>1, <3>1, TallyLimit
    <3>2. CASE Get(t) \/ WakeUp(t)
      <4>1. CASE \E c \in Conns : Pop(t, c) BY <1>1, <3>2, <4>1, TallyPop
      <4>2. CASE ~\E c \in Conns : Pop(t, c)
        BY <1>1, <3>2, <4>2, TallyLimit DEF Get, WakeUp
      <4> QED BY <4>1, <4>2
    <3>3. CASE Create(t) BY <1>1, <3>3, TallyCreate
    <3>4. CASE Lend(t) BY <1>1, <3>4, TallyLend
    <3>5. CASE Stale(t)
      <4>1. /\ pc[t] = "check" /\ Discard(t, "drop")
            /\ UNCHANGED <<idle, created, closed, lock, current, built, pooled, raw>>
        BY <3>5 DEF Stale, pools, manager, wrapper
      <4> QED BY <1>1, <4>1, TallyDiscard
    <3>6. CASE Uncount(t) BY <1>1, <3>6, TallyUncount
    <3> QED BY <2>5, <3>1, <3>2, <3>3, <3>4, <3>5, <3>6 DEF Acquire
  <2> QED BY <1>3, <2>1, <2>2, <2>3, <2>4, <2>5 DEF Worker
<1>4. CASE UNCHANGED vars
  BY <1>4, TallyStill DEF vars, pools, manager, wrapper
<1> QED BY <1>2, <1>3, <1>4 DEF Next

LEMMA AlwaysTally == Spec => []Tally
BY TallyInit, TallyNext, PTL DEF Spec

-----------------------------------------------------------------------------
LEMMA CountedNear == Tally => CountNearTruth
<1> SUFFICES ASSUME Tally, ~closed[1]
             PROVE  /\ Real <= created[1] + (Warmed - WarmCount)
                    /\ created[1] <= Real + Slack
  BY DEF CountNearTruth, Slack
<1>1. 1 \in Gens BY SizeAssumption DEF Gens
<1>2. built = 1 /\ \A t \in Threads : pc[t] # "home" => ref[t] = 1
  BY <1>1 DEF Tally, OnePool, IInv, TypeOK, Exists, Gens
<1>3. Real = Truth(1)
  <2> DEFINE Moving == {t \in Threads : cand[t] # None}
  <2>1. Hands(1) = Discarding \cup Moving
    BY <1>2 DEF Hands, Busy, Discarding, Tally, OneEach
  <2>2. Discarding \cap Moving = {}
    BY DEF Discarding, Tally, OneEach
  <2>3. IsFiniteSet(Discarding) /\ IsFiniteSet(Moving)
    BY FS_Subset, SizeAssumption DEF Discarding
  <2> HIDE DEF Moving
  <2>4. Cardinality(Hands(1)) = Cardinality(Discarding) + Cardinality(Moving)
    <3>1. Cardinality(Discarding \cup Moving)
            = Cardinality(Discarding) + Cardinality(Moving) - Cardinality(Discarding \cap Moving)
      BY <2>3, FS_Union
    <3>2. Cardinality(Discarding \cap Moving) = 0 BY <2>2, FS_EmptySet
    <3>3. Cardinality(Discarding) \in Nat /\ Cardinality(Moving) \in Nat
      BY <2>3, FS_CardinalityType
    <3>4. Cardinality(Hands(1)) = Cardinality(Discarding \cup Moving) BY <2>1
    <3> QED BY <3>1, <3>2, <3>3, <3>4
  <2>5. Cardinality(Discarding) \in Nat /\ Cardinality(Moving) \in Nat
        /\ Cardinality(idle[1]) \in Nat /\ Cardinality(Loans) \in Nat
    BY <1>1, <2>3, FS_CardinalityType, Numbers
  <2> QED BY <2>4, <2>5 DEF Real, Truth, Loans, Moving
<1> QED BY <1>1, <1>3 DEF Tally, Counts

LEMMA SomebodyWillReturn == Tally => WaitHasEnd
<1> SUFFICES ASSUME Tally, NEW t \in Threads, pc[t] = "wait", ~closed[ref[t]],
                    idle[ref[t]] = {}
             PROVE  \E u \in Threads \ {t} :
                       \/ pooled[u] # None
                       \/ ref[u] = ref[t] /\ (cand[u] # None \/ u \in Discarding)
  BY DEF WaitHasEnd
<1>1. PICK g \in Gens : g = ref[t] BY DEF Tally, IInv, Exists
<1>2. created[g] >= MaxSize BY <1>1 DEF Tally, WaitsLocked
<1>3. Truth(g) >= 1
  <2>1. created[g] <= Truth(g) + Slack BY <1>1 DEF Tally, Counts
  <2>2. Truth(g) \in Nat BY Numbers DEF Truth
  <2>3. Slack < MaxSize BY Sizes DEF Slack
  <2> QED BY <1>2, <2>1, <2>2, <2>3, Sizes, Numbers
<1>4. Cardinality(idle[g]) = 0 BY <1>1, FS_EmptySet
<1>5. Hands(g) # {} \/ Loans # {} BY <1>3, <1>4, FS_EmptySet DEF Truth
<1>6. t \notin Hands(g) /\ t \notin Loans BY DEF Hands, Busy, Loans, Tally, OneEach
<1>7. ASSUME NEW u \in Hands(g) PROVE ref[u] = g /\ (cand[u] # None \/ u \in Discarding)
  BY <1>7 DEF Hands, Busy, Discarding, Tally, OneEach
<1> QED BY <1>1, <1>5, <1>6, <1>7 DEF Hands, Loans

\* Whatever the threads and sizes, until the first pool is closed its count is
\* off by no more than the warm-up's connection and the entries the queue lost
\* to the TypeError (BasePool._ensure_min_size, acquire, release, _discard).
THEOREM CountStaysNear == Spec => []CountNearTruth
BY AlwaysTally, CountedNear, PTL

\* Whatever the threads, sizes, shutdowns and lost entries, a thread that waits
\* with the lock of an open pool has a connection to hope for: one is idle,
\* lent, or in the hands of a call that will return or uncount it.
THEOREM WaitsForSomebody == Spec => []WaitHasEnd
BY AlwaysTally, SomebodyWillReturn, PTL
=============================================================================
