----------------------------- MODULE Idempotency -----------------------------
(***************************************************************************)
(* framework/idempotency on Redis: several calls arrive with one           *)
(* idempotency key (a client's retries, possibly with another payload) and *)
(* each passes through idempotent_context.  A call's response is the call  *)
(* itself: who produced an answer is all the properties ask.               *)
(***************************************************************************)
EXTENDS Naturals, FiniteSets

CONSTANTS
    Calls,      \* calls made with the key, retries included
    Payload,    \* the fingerprint of each call
    None        \* no payload, no response

ASSUME NoneAssumption ==
    None \notin Calls /\ \A c \in Calls : Payload[c] # None

VARIABLES
    rec,        \* the record stored under idem:<key>
    pc,         \* where each call is
    snap,       \* the record a call has read in update_status
    reply,      \* the response each call returned, None so far
    ran,        \* calls whose protected function has taken effect
    raised,     \* has the protected function of a call raised
    lapsed      \* has a record passed its TTL

ghosts == <<raised, lapsed>>
vars == <<rec, pc, snap, reply, ran, ghosts>>

Statuses == {"none", "IN_PROGRESS", "COMPLETED", "FAILED"}
Places == {"idle", "get", "delete", "run", "store", "storing", "fail",
           "failing", "done", "conflict", "busy", "error", "crashed"}

Records == [status : Statuses, payload : {Payload[c] : c \in Calls} \cup {None},
            response : Calls \cup {None}, stale : BOOLEAN]

\* No key in Redis.
Absent == [status |-> "none", payload |-> None, response |-> None, stale |-> FALSE]

\* Slip: the fingerprint is taken from the key and not from the request.
ReservedByKey(c) ==
    [status |-> "IN_PROGRESS", response |-> None, stale |-> FALSE,
     payload |-> CHOOSE p \in {Payload[d] : d \in Calls} : TRUE]

Reserved(c) ==
    [status |-> "IN_PROGRESS", payload |-> Payload[c], response |-> None,
     stale |-> FALSE]

TypeOK ==
    /\ rec \in Records
    /\ pc \in [Calls -> Places]
    /\ snap \in [Calls -> Records]
    /\ reply \in [Calls -> Calls \cup {None}]
    /\ ran \subseteq Calls
    /\ raised \in BOOLEAN /\ lapsed \in BOOLEAN

Init ==
    /\ rec = Absent
    /\ pc = [c \in Calls |-> "idle"]
    /\ snap = [c \in Calls |-> Absent]
    /\ reply = [c \in Calls |-> None]
    /\ ran = {}
    /\ raised = FALSE /\ lapsed = FALSE

Go(c, from, to) == pc[c] = from /\ pc' = [pc EXCEPT ![c] = to]

-----------------------------------------------------------------------------
(* reserve and the branches of idempotent_context.                         *)

\* Slip: SET EX without NX.
ReserveAlways(c) ==
    /\ Go(c, "idle", "run")
    /\ rec' = Reserved(c)
    /\ UNCHANGED <<snap, reply, ran, ghosts>>

\* SET NX EX.
Reserve(c) ==
    /\ IF rec.status = "none"
       THEN Go(c, "idle", "run") /\ rec' = Reserved(c)
       ELSE Go(c, "idle", "get") /\ UNCHANGED rec
    /\ UNCHANGED <<snap, reply, ran, ghosts>>

\* The record may have changed, or gone, since SET NX was refused.
Lookup(c) ==
    /\ \/ rec.status = "none" /\ Go(c, "get", "run") /\ UNCHANGED reply
       \/ rec.stale /\ Go(c, "get", "delete") /\ UNCHANGED reply
       \/ /\ rec.status # "none" /\ ~rec.stale
          /\ \/ /\ rec.payload # Payload[c]
                /\ Go(c, "get", "conflict") /\ UNCHANGED reply
             \/ /\ rec.payload = Payload[c] /\ rec.status = "COMPLETED"
                /\ Go(c, "get", "done")
                /\ reply' = [reply EXCEPT ![c] = rec.response]
             \/ /\ rec.payload = Payload[c] /\ rec.status = "IN_PROGRESS"
                /\ Go(c, "get", "busy") /\ UNCHANGED reply
             \/ /\ rec.payload = Payload[c] /\ rec.status = "FAILED"
                /\ Go(c, "get", "run") /\ UNCHANGED reply
    /\ UNCHANGED <<rec, snap, ran, ghosts>>

\* A record past its expires_at is deleted, whatever it is by now, and the
\* reservation tried again.
DeleteStale(c) ==
    /\ Go(c, "delete", "idle")
    /\ rec' = Absent
    /\ UNCHANGED <<snap, reply, ran, ghosts>>

-----------------------------------------------------------------------------
(* The protected function, store and mark_failed.                          *)

Execute(c) ==
    /\ Go(c, "run", "store")
    /\ ran' = ran \cup {c}
    /\ UNCHANGED <<rec, snap, reply, ghosts>>

ExecuteFails(c) ==
    /\ Go(c, "run", "fail")
    /\ raised' = TRUE
    /\ UNCHANGED <<rec, snap, reply, ran, lapsed>>

\* update_status reads the record and, when there is one, writes it back.
ReadForUpdate(c) ==
    /\ \/ /\ rec.status = "none"
          /\ Go(c, "store", "done") /\ reply' = [reply EXCEPT ![c] = c]
       \/ rec.status = "none" /\ Go(c, "fail", "error") /\ UNCHANGED reply
       \/ /\ rec.status # "none"
          /\ Go(c, "store", "storing") \/ Go(c, "fail", "failing")
          /\ UNCHANGED reply
    /\ snap' = [snap EXCEPT ![c] = rec]
    /\ UNCHANGED <<rec, ran, ghosts>>

\* The write keeps the payload of the record read, and at least one second of
\* life.
Store(c) ==
    /\ Go(c, "storing", "done")
    /\ rec' = [snap[c] EXCEPT !.status = "COMPLETED", !.response = c,
                              !.stale = FALSE]
    /\ reply' = [reply EXCEPT ![c] = c]
    /\ UNCHANGED <<snap, ran, ghosts>>

\* Slip: a failure is recorded as an answer.
MarkCompleted(c) ==
    /\ Go(c, "failing", "error")
    /\ rec' = [snap[c] EXCEPT !.status = "COMPLETED", !.stale = FALSE]
    /\ UNCHANGED <<snap, reply, ran, ghosts>>

MarkFailed(c) ==
    /\ Go(c, "failing", "error")
    /\ rec' = [snap[c] EXCEPT !.status = "FAILED", !.stale = FALSE]
    /\ UNCHANGED <<snap, reply, ran, ghosts>>

\* A write that Redis refuses is logged and ignored; the outcome stands.
WriteFails(c) ==
    /\ \/ Go(c, "storing", "done") /\ reply' = [reply EXCEPT ![c] = c]
       \/ Go(c, "failing", "error") /\ UNCHANGED reply
    /\ UNCHANGED <<rec, snap, ran, ghosts>>

Crash(c) ==
    /\ pc[c] \in {"run", "store", "storing", "fail", "failing"}
    /\ pc' = [pc EXCEPT ![c] = "crashed"]
    /\ UNCHANGED <<rec, snap, reply, ran, ghosts>>

-----------------------------------------------------------------------------
(* Redis: expires_at passes a moment before the key goes.                  *)

Lapse ==
    /\ rec.status # "none" /\ ~rec.stale
    /\ rec' = [rec EXCEPT !.stale = TRUE]
    /\ lapsed' = TRUE
    /\ UNCHANGED <<pc, snap, reply, ran, raised>>

Evict ==
    /\ rec.stale
    /\ rec' = Absent
    /\ UNCHANGED <<pc, snap, reply, ran, ghosts>>

-----------------------------------------------------------------------------
Call(c) ==
    \/ Reserve(c) \/ Lookup(c) \/ DeleteStale(c) \/ Execute(c)
    \/ ReadForUpdate(c) \/ Store(c) \/ MarkFailed(c)

Next ==
    \/ \E c \in Calls : Call(c) \/ ExecuteFails(c) \/ WriteFails(c) \/ Crash(c)
    \/ Lapse \/ Evict

Spec == Init /\ [][Next]_vars

-----------------------------------------------------------------------------
Inside == {c \in Calls : pc[c] \in {"run", "store", "storing", "fail", "failing"}}

\* "Resolves 'repeated request = repeated side effect'": until a call has
\* raised or a record has passed its TTL, the function takes effect at most
\* once for the key, whatever calls race or die half-way.
AtMostOnce == ~raised /\ ~lapsed => Cardinality(ran) <= 1

\* A replay is the answer to the very request that is repeated: it was
\* produced by a call with the same payload, whose effect has happened.
\* Failures and retries do not matter, only the TTL does.
ReplayIsGenuine ==
    ~lapsed => \A c \in Calls : reply[c] # None =>
                  reply[c] \in ran /\ Payload[reply[c]] = Payload[c]

\* "The same key with other arguments is rejected": within the TTL every call
\* let through carries the payload that owns the key, even after failures.
OnePayload ==
    ~lapsed => /\ \A c, d \in ran \cup Inside : Payload[c] = Payload[d]
               /\ \A c \in Inside : rec.payload = Payload[c]

\* No answer is invented: under every fault and expiry, what is stored as
\* completed, and what a call returns, is the outcome of a call that ran.
AnswersHappened ==
    /\ TypeOK
    /\ rec.status = "COMPLETED" => rec.response \in ran
    /\ \A c \in Calls : reply[c] # None => reply[c] \in ran

=============================================================================
