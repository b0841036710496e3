-------------------------- MODULE IdempotencyProofs --------------------------
(***************************************************************************)
(* For any set of calls and any payloads: what module Idempotency promises *)
(* holds in every reachable state.                                         *)
(*                                                                         *)
(* None of the promises is inductive.  That a replay answers its own       *)
(* request needs that whoever was let through owns the record; that needs  *)
(* that a record, once placed, stays until it lapses; and that no more     *)
(* than one call takes effect needs that only a failure lets a second in.  *)
(***************************************************************************)
EXTENDS Idempotency, FiniteSetTheorems, TLAPS

Engaged == ran \cup Inside

\* What was answered happened, whatever lapses.
Answered ==
    /\ \A c \in Calls : pc[c] \in {"store", "storing"} => c \in ran
    /\ rec.status = "COMPLETED" => rec.response \in ran
    /\ \A c \in Calls : reply[c] # None => reply[c] \in ran

\* Only a lapsed record is taken away.
Kept ==
    /\ rec.stale => lapsed
    /\ \A c \in Calls : pc[c] = "delete" => lapsed
    /\ ~lapsed /\ rec.status = "none" =>
          Engaged = {} /\ \A c \in Calls : pc[c] # "get"

\* Until then it carries the payload of every call that was let through, and
\* so does what such a call has read of it.
Owned ==
    ~lapsed =>
        /\ \A c \in Engaged : rec.payload = Payload[c]
        /\ \A c \in Calls : pc[c] \in {"storing", "failing"} =>
              snap[c].payload = Payload[c] /\ snap[c].status # "none"
        /\ \A c \in Calls : reply[c] # None => Payload[reply[c]] = Payload[c]

\* Without a failure one call is let through.
Single ==
    /\ ~raised => /\ rec.status # "FAILED"
                  /\ \A c \in Calls : pc[c] \notin {"fail", "failing"}
    /\ ~raised /\ ~lapsed => \A c, d \in Engaged : c = d

IInv == TypeOK /\ Answered /\ Kept /\ Owned /\ Single

-----------------------------------------------------------------------------
\* Every value that is stored is a record.
LEMMA RecordTypes ==
    /\ Absent \in Records
    /\ \A c \in Calls : Reserved(c) \in Records
    /\ \A r \in Records, c \in Calls :
          /\ [r EXCEPT !.status = "COMPLETED", !.response = c, !.stale = FALSE] \in Records
          /\ [r EXCEPT !.status = "FAILED", !.stale = FALSE] \in Records
  BY DEF Absent, Reserved, Records, Statuses

LEMMA TypeInit == Init => TypeOK
  BY RecordTypes DEF Init, TypeOK, Places

LEMMA TypeCall ==
    ASSUME TypeOK, NEW c \in Calls,
           Call(c) \/ ExecuteFails(c) \/ WriteFails(c) \/ Crash(c)
    PROVE  TypeOK'
<1> USE DEF TypeOK, Go, Places, ghosts
<1>1. CASE Reserve(c) BY <1>1, RecordTypes DEF Reserve
<1>2. CASE Lookup(c) BY <1>2 DEF Lookup, Records
<1>3. CASE DeleteStale(c) BY <1>3, RecordTypes DEF DeleteStale
<1>4. CASE Execute(c) BY <1>4 DEF Execute
<1>5. CASE ReadForUpdate(c) BY <1>5 DEF ReadForUpdate
<1>6. CASE Store(c) BY <1>6, RecordTypes DEF Store
<1>7. CASE MarkFailed(c) BY <1>7, RecordTypes DEF MarkFailed
<1>8. CASE ExecuteFails(c) BY <1>8 DEF ExecuteFails
<1>9. CASE WriteFails(c) BY <1>9 DEF WriteFails
<1>10. CASE Crash(c) BY <1>10 DEF Crash
<1> QED BY <1>1, <1>2, <1>3, <1>4, <1>5, <1>6, <1>7, <1>8, <1>9, <1>10 DEF Call

LEMMA TypeRedis == ASSUME TypeOK, Lapse \/ Evict PROVE TypeOK'
<1>1. rec' \in Records
  <2>1. CASE Lapse BY <2>1 DEF TypeOK, Lapse, Records
  <2>2. CASE Evict BY <2>2, RecordTypes DEF Evict
  <2> QED BY <2>1, <2>2
<1>2. lapsed' \in BOOLEAN
  <2>1. CASE Lapse BY <2>1 DEF Lapse
  <2>2. CASE Evict BY <2>2 DEF TypeOK, Evict, ghosts
  <2> QED BY <2>1, <2>2
<1>3. UNCHANGED <<pc, snap, reply, ran, raised>> BY DEF Lapse, Evict, ghosts
<1> QED BY <1>1, <1>2, <1>3 DEF TypeOK

-----------------------------------------------------------------------------
LEMMA InvInit == Init => IInv
<1> SUFFICES ASSUME Init PROVE IInv OBVIOUS
<1>1. TypeOK BY TypeInit
<1>2. Engaged = {} BY DEF Engaged, Inside, Init
<1>3. Answered /\ Kept /\ Owned /\ Single
  BY <1>2 DEF Answered, Kept, Owned, Single, Init, Absent
<1> QED BY <1>1, <1>3 DEF IInv

\* reserve and the branches of idempotent_context.
LEMMA InvAdmit ==
    ASSUME IInv, NEW c \in Calls, Reserve(c) \/ Lookup(c) \/ DeleteStale(c)
    PROVE  IInv'
<1>1. TypeOK' BY TypeCall DEF IInv, Call
<1> USE DEF IInv, TypeOK, Go, ghosts
<1>2. CASE Reserve(c)
  <2>1. CASE rec.status = "none"
    <3>1. pc' = [pc EXCEPT ![c] = "run"] /\ rec' = Reserved(c)
          /\ UNCHANGED <<snap, reply, ran, ghosts>>
      BY <1>2, <2>1 DEF Reserve
    <3>2. Engaged' \subseteq Engaged \cup {c} BY <3>1 DEF Engaged, Inside
    <3>3. Answered' BY <3>1 DEF Answered, Reserved
    <3>4. Kept' BY <3>1 DEF Kept, Reserved
    <3>5. Owned' BY <2>1, <3>1, <3>2 DEF Owned, Kept, Reserved
    <3>6. Single' BY <2>1, <3>1, <3>2 DEF Single, Kept, Reserved
    <3> QED BY <1>1, <3>3, <3>4, <3>5, <3>6
  <2>2. CASE rec.status # "none"
    <3>1. pc' = [pc EXCEPT ![c] = "get"] /\ UNCHANGED <<rec, snap, reply, ran, ghosts>>
      BY <1>2, <2>2 DEF Reserve
    <3>2. Engaged' \subseteq Engaged BY <3>1 DEF Engaged, Inside
    <3> QED BY <1>1, <2>2, <3>1, <3>2 DEF Answered, Kept, Owned, Single
  <2> QED BY <2>1, <2>2
<1>3. CASE Lookup(c)
  <2>1. UNCHANGED <<rec, snap, ran, ghosts>> /\ pc[c] = "get" BY <1>3 DEF Lookup
  <2>2. CASE rec.status = "none" \/ rec.stale
    <3>1. lapsed BY <2>1, <2>2 DEF Kept
    <3>2. \E to \in {"run", "delete", "get"} : pc' = [pc EXCEPT ![c] = to]
      BY <1>3, <2>2 DEF Lookup
    <3>3. UNCHANGED reply BY <1>3, <2>2 DEF Lookup
    <3> QED BY <1>1, <2>1, <3>1, <3>2, <3>3 DEF Answered, Kept, Owned, Single
  <2>3. CASE rec.status # "none" /\ ~rec.stale
    <3>1. CASE rec.payload = Payload[c] /\ rec.status = "COMPLETED"
      <4>1. pc' = [pc EXCEPT ![c] = "done"] /\ reply' = [reply EXCEPT ![c] = rec.response]
        BY <1>3, <2>3, <3>1 DEF Lookup
      <4>2. Engaged' = Engaged BY <2>1, <4>1 DEF Engaged, Inside
      <4>3. Answered' BY <2>1, <3>1, <4>1 DEF Answered
      <4>4. Kept' BY <2>1, <2>3, <4>1, <4>2 DEF Kept
      <4>5. ~lapsed => Payload[rec.response] = Payload[c]
        BY <3>1 DEF Answered, Owned, Engaged
      <4>6. Owned' BY <2>1, <4>1, <4>2, <4>5 DEF Owned
      <4>7. Single' BY <2>1, <4>1, <4>2 DEF Single
      <4> QED BY <1>1, <4>3, <4>4, <4>6, <4>7
    <3>2. CASE rec.payload = Payload[c] /\ rec.status = "FAILED"
      <4>1. pc' = [pc EXCEPT ![c] = "run"] /\ reply' = reply
        BY <1>3, <2>3, <3>2 DEF Lookup
      <4>2. Engaged' \subseteq Engaged \cup {c} BY <2>1, <4>1 DEF Engaged, Inside
      <4>3. raised BY <3>2 DEF Single
      <4> QED BY <1>1, <2>1, <2>3, <3>2, <4>1, <4>2, <4>3 DEF Answered, Kept, Owned, Single
    <3>3. CASE rec.payload # Payload[c] \/ rec.status = "IN_PROGRESS"
      <4>1. \E to \in {"conflict", "busy"} : pc' = [pc EXCEPT ![c] = to]
        BY <1>3, <2>3, <3>3 DEF Lookup
      <4>2. UNCHANGED reply BY <1>3, <2>3, <3>3 DEF Lookup
      <4>3. Engaged' = Engaged BY <2>1, <4>1 DEF Engaged, Inside
      <4> QED BY <1>1, <2>1, <2>3, <4>1, <4>2, <4>3 DEF Answered, Kept, Owned, Single
    <3> QED BY <2>3, <3>1, <3>2, <3>3 DEF Records, Statuses
  <2> QED BY <2>2, <2>3
<1>4. CASE DeleteStale(c)
  <2>1. lapsed BY <1>4 DEF DeleteStale, Kept
  <2>2. /\ pc' = [pc EXCEPT ![c] = "idle"] /\ rec' = Absent
        /\ UNCHANGED <<snap, reply, ran, ghosts>>
    BY <1>4 DEF DeleteStale
  <2> QED BY <1>1, <2>1, <2>2 DEF Answered, Kept, Owned, Single, Absent
<1> QED BY <1>2, <1>3, <1>4

\* The protected function, and a process that dies.
LEMMA InvRun ==
    ASSUME IInv, NEW c \in Calls, Execute(c) \/ ExecuteFails(c) \/ Crash(c)
    PROVE  IInv'
<1>1. TypeOK' BY TypeCall DEF IInv, Call
<1> USE DEF IInv, TypeOK, Go, ghosts
<1>2. UNCHANGED <<rec, snap, reply, lapsed>> /\ c \in Inside
  BY DEF Execute, ExecuteFails, Crash, Inside
<1>3. CASE Execute(c)
  <2>1. /\ pc' = [pc EXCEPT ![c] = "store"] /\ ran' = ran \cup {c} /\ raised' = raised
    BY <1>3 DEF Execute
  <2>2. Engaged' = Engaged BY <1>2, <2>1 DEF Engaged, Inside
  <2> QED BY <1>1, <1>2, <2>1, <2>2 DEF Answered, Kept, Owned, Single
<1>4. CASE ExecuteFails(c)
  <2>1. /\ pc' = [pc EXCEPT ![c] = "fail"] /\ ran' = ran /\ raised'
    BY <1>4 DEF ExecuteFails
  <2>2. Engaged' = Engaged BY <1>2, <2>1 DEF Engaged, Inside
  <2> QED BY <1>1, <1>2, <2>1, <2>2 DEF Answered, Kept, Owned, Single
<1>5. CASE Crash(c)
  <2>1. /\ pc' = [pc EXCEPT ![c] = "crashed"] /\ ran' = ran /\ raised' = raised
    BY <1>5 DEF Crash
  <2>2. Engaged' \subseteq Engaged BY <1>2, <2>1 DEF Engaged, Inside
  <2>3. Kept' BY <1>2, <2>1, <2>2 DEF Kept
  <2> QED BY <1>1, <1>2, <2>1, <2>2, <2>3 DEF Answered, Owned, Single
<1> QED BY <1>3, <1>4, <1>5

\* store and mark_failed.
LEMMA InvUpdate ==
    ASSUME IInv, NEW c \in Calls,
           ReadForUpdate(c) \/ Store(c) \/ MarkFailed(c) \/ WriteFails(c)
    PROVE  IInv'
<1>1. TypeOK' BY TypeCall DEF IInv, Call
<1> USE DEF IInv, TypeOK, Go, ghosts
<1>2. UNCHANGED <<ran, raised, lapsed>> /\ c \in Inside
  BY DEF ReadForUpdate, Store, MarkFailed, WriteFails, Inside
<1>3. CASE ReadForUpdate(c)
  <2>1. rec' = rec /\ snap' = [snap EXCEPT ![c] = rec] BY <1>3 DEF ReadForUpdate
  <2>2. CASE rec.status = "none"
    <3>1. \/ pc[c] = "store" /\ pc' = [pc EXCEPT ![c] = "done"]
             /\ reply' = [reply EXCEPT ![c] = c]
          \/ pc[c] = "fail" /\ pc' = [pc EXCEPT ![c] = "error"] /\ reply' = reply
      BY <1>3, <2>2 DEF ReadForUpdate
    <3>2. lapsed BY <1>2, <2>2 DEF Kept, Engaged
    <3>3. Single' BY <1>2, <2>1, <3>1, <3>2 DEF Single
    <3> QED BY <1>1, <1>2, <2>1, <3>1, <3>2, <3>3 DEF Answered, Kept, Owned
  <2>3. CASE rec.status # "none"
    <3>1. \/ pc[c] = "store" /\ pc' = [pc EXCEPT ![c] = "storing"]
          \/ pc[c] = "fail" /\ pc' = [pc EXCEPT ![c] = "failing"]
      BY <1>3, <2>3 DEF ReadForUpdate
    <3>2. reply' = reply BY <1>3, <2>3 DEF ReadForUpdate
    <3>3. Engaged' = Engaged BY <1>2, <3>1 DEF Engaged, Inside
    <3>4. Owned' BY <1>2, <2>1, <2>3, <3>1, <3>2, <3>3 DEF Owned, Engaged
    <3> QED BY <1>1, <1>2, <2>1, <2>3, <3>1, <3>2, <3>3, <3>4 DEF Answered, Kept, Single
  <2> QED BY <2>2, <2>3
<1>4. CASE Store(c)
  <2> DEFINE r == [snap[c] EXCEPT !.status = "COMPLETED", !.response = c, !.stale = FALSE]
  <2>1. /\ pc[c] = "storing" /\ pc' = [pc EXCEPT ![c] = "done"]
        /\ rec' = r /\ reply' = [reply EXCEPT ![c] = c] /\ snap' = snap
    BY <1>4 DEF Store
  <2>2. r.status = "COMPLETED" /\ r.response = c /\ ~r.stale /\ r.payload = snap[c].payload
    BY DEF Records
  <2>3. Engaged' = Engaged /\ c \in ran BY <1>2, <2>1 DEF Engaged, Inside, Answered
  <2> HIDE DEF r
  <2>4. Answered' BY <1>2, <2>1, <2>2, <2>3 DEF Answered
  <2>5. Kept' BY <1>2, <2>1, <2>2 DEF Kept
  <2>6. ~lapsed => r.payload = rec.payload BY <1>2, <2>1, <2>2 DEF Owned, Engaged
  <2>7. Owned' BY <1>2, <2>1, <2>3, <2>6 DEF Owned
  <2>8. Single' BY <1>2, <2>1, <2>2, <2>3 DEF Single
  <2> QED BY <1>1, <2>4, <2>5, <2>7, <2>8
<1>5. CASE MarkFailed(c)
  <2> DEFINE r == [snap[c] EXCEPT !.status = "FAILED", !.stale = FALSE]
  <2>1. /\ pc[c] = "failing" /\ pc' = [pc EXCEPT ![c] = "error"]
        /\ rec' = r /\ reply' = reply /\ snap' = snap
    BY <1>5 DEF MarkFailed
  <2>2. r.status = "FAILED" /\ ~r.stale /\ r.payload = snap[c].payload BY DEF Records
  <2>3. Engaged' \subseteq Engaged BY <1>2, <2>1 DEF Engaged, Inside
  <2> HIDE DEF r
  <2>4. Answered' BY <1>2, <2>1, <2>2 DEF Answered
  <2>5. Kept' BY <1>2, <2>1, <2>2 DEF Kept
  <2>6. ~lapsed => r.payload = rec.payload BY <1>2, <2>1, <2>2 DEF Owned, Engaged
  <2>7. Owned' BY <1>2, <2>1, <2>3, <2>6 DEF Owned
  <2>8. raised BY <2>1 DEF Single
  <2>9. Single' BY <1>2, <2>8 DEF Single
  <2> QED BY <1>1, <2>4, <2>5, <2>7, <2>9
<1>6. CASE WriteFails(c)
  <2>1. rec' = rec /\ snap' = snap BY <1>6 DEF WriteFails
  <2>2. \/ pc[c] = "storing" /\ pc' = [pc EXCEPT ![c] = "done"]
           /\ reply' = [reply EXCEPT ![c] = c]
        \/ pc[c] = "failing" /\ pc' = [pc EXCEPT ![c] = "error"] /\ reply' = reply
    BY <1>6 DEF WriteFails
  <2>3. Engaged' \subseteq Engaged BY <1>2, <2>2 DEF Engaged, Inside
  <2>4. Answered' BY <1>2, <2>1, <2>2 DEF Answered
  <2>5. Kept' BY <1>2, <2>1, <2>2, <2>3 DEF Kept
  <2>6. Owned' BY <1>2, <2>1, <2>2, <2>3 DEF Owned
  <2>7. Single' BY <1>2, <2>1, <2>2, <2>3 DEF Single
  <2> QED BY <1>1, <2>4, <2>5, <2>6, <2>7
<1> QED BY <1>3, <1>4, <1>5, <1>6

\* A record lapses, and goes.
LEMMA InvRedis == ASSUME IInv, Lapse \/ Evict PROVE IInv'
<1>1. TypeOK' BY TypeRedis DEF IInv
<1>2. lapsed' /\ UNCHANGED <<pc, snap, reply, ran, raised>>
  BY DEF IInv, Kept, Lapse, Evict, ghosts
<1>3. rec' = Absent \/ (rec'.status = rec.status /\ rec'.response = rec.response)
  BY DEF IInv, TypeOK, Records, Lapse, Evict
<1> QED BY <1>1, <1>2, <1>3 DEF IInv, Answered, Kept, Owned, Single, Absent

LEMMA InvNext == IInv /\ [Next]_vars => IInv'
<1> SUFFICES ASSUME IInv, [Next]_vars PROVE IInv' OBVIOUS
<1>1. CASE UNCHANGED vars
  BY <1>1 DEF IInv, TypeOK, Answered, Kept, Owned, Single, Engaged, Inside, vars, ghosts
<1>2. CASE Lapse \/ Evict BY <1>2, InvRedis
<1>3. ASSUME NEW c \in Calls, Call(c) \/ ExecuteFails(c) \/ WriteFails(c) \/ Crash(c)
      PROVE  IInv'
  BY <1>3, InvAdmit, InvRun, InvUpdate DEF Call
<1> QED BY <1>1, <1>2, <1>3 DEF Next

\* The invariant behind the theorems holds in every reachable state.
THEOREM RecordKept == Spec => []IInv
  BY InvInit, InvNext, PTL DEF Spec

-----------------------------------------------------------------------------
\* Under every fault and expiry, what a call returns is the outcome of a call
\* that ran: no answer of idempotent_context is invented.
THEOREM AlwaysAnswersHappened == Spec => []AnswersHappened
<1>1. IInv => AnswersHappened BY DEF IInv, Answered, AnswersHappened
<1> QED BY <1>1, RecordKept, PTL

\* Within the TTL a replay is the answer to the request that is repeated,
\* whatever fails and is retried.
THEOREM AlwaysReplayIsGenuine == Spec => []ReplayIsGenuine
<1>1. IInv => ReplayIsGenuine BY DEF IInv, Answered, Owned, ReplayIsGenuine
<1> QED BY <1>1, RecordKept, PTL

\* Within the TTL no call with another payload is let through.
THEOREM AlwaysOnePayload == Spec => []OnePayload
<1>1. IInv => OnePayload BY DEF IInv, Owned, Engaged, OnePayload
<1> QED BY <1>1, RecordKept, PTL

\* Until a call raises or a record lapses, the protected function takes
\* effect at most once, however many calls race for the key.
THEOREM AlwaysAtMostOnce == Spec => []AtMostOnce
<1>1. IInv => AtMostOnce
  <2> SUFFICES ASSUME IInv, ~raised, ~lapsed PROVE Cardinality(ran) <= 1
    BY DEF AtMostOnce
  <2>1. ran = {} \/ \E c \in ran : ran = {c} BY DEF IInv, Single, Engaged
  <2>2. Cardinality({}) = 0 /\ \A c \in ran : Cardinality({c}) = 1
    BY FS_EmptySet, FS_Singleton
  <2> QED BY <2>1, <2>2
<1> QED BY <1>1, RecordKept, PTL
=============================================================================
