---------------------------- MODULE CircuitBreaker ----------------------------
(***************************************************************************)
(* framework/reliability: the circuit breaker and the state store it keeps *)
(* its state, counters and opening time in.  Over RedisStateStore, which   *)
(* get_state_store picks, the callers are worker processes, each with a    *)
(* local lock of its own, so that their consultations and reports overlap; *)
(* over InMemoryStateStore they are the threads of one process, which the  *)
(* local lock keeps apart.                                                 *)
(*                                                                         *)
(* The keys live five recovery times or more after their last write.  The  *)
(* count of successes is taken to be renewed before that, by calls that    *)
(* come more often; the expiry of opened_at, read as long ago, shows       *)
(* nothing new.                                                            *)
(***************************************************************************)
EXTENDS Naturals

CONSTANTS
    Callers,            \* threads or processes; each makes calls in turn
    FailureThreshold,   \* failure_threshold
    SuccessThreshold,   \* success_threshold
    Recovery,           \* recovery_time
    Nobody              \* the local lock is free

ASSUME ThresholdAssumption ==
    /\ FailureThreshold \in Nat \ {0} /\ SuccessThreshold \in Nat \ {0}
    /\ Recovery \in Nat /\ Nobody \notin Callers

VARIABLES
    redis,      \* the store is RedisStateStore; it is picked once
    state,      \* cb:<name>:state; no key reads as CLOSED
    failures,   \* cb:<name>:failures, counted up to FailureThreshold
    successes,  \* cb:<name>:successes, counted up to SuccessThreshold
    pickled,    \* that key holds the 0 of RedisStateStore.set, which is no integer
    waited,     \* time since cb:<name>:opened_at, up to Recovery
    pc,         \* where each caller is
    lock,       \* holder of the local lock, when the callers share one
    strikes,    \* failures reported since the last success or closing
    overlap,    \* a caller inside has met another, or the end of the state key
    healed      \* the protected service no longer fails

keys == <<state, failures, successes, pickled, waited>>
vars == <<redis, keys, pc, lock, strikes, overlap, healed>>

Calm == {"idle", "run"}
Inside == {"check", "half", "reset", "won", "clear", "tally", "counted", "closing",
           "forget", "lost", "strike", "opening", "open"}

TypeOK ==
    /\ redis \in BOOLEAN
    /\ state \in {"CLOSED", "OPEN", "HALF_OPEN"}
    /\ failures \in 0 .. FailureThreshold
    /\ successes \in 0 .. SuccessThreshold
    /\ pickled \in BOOLEAN
    /\ waited \in 0 .. Recovery
    /\ pc \in [Callers -> Calm \cup Inside]
    /\ lock \in Callers \cup {Nobody}
    /\ strikes \in 0 .. FailureThreshold
    /\ overlap \in BOOLEAN
    /\ healed \in BOOLEAN

Init ==
    /\ redis \in BOOLEAN
    /\ state = "CLOSED" /\ failures = 0 /\ successes = 0 /\ pickled = FALSE /\ waited = 0
    /\ pc = [c \in Callers |-> "idle"]
    /\ lock = Nobody
    /\ strikes = 0 /\ overlap = FALSE /\ healed = FALSE

CappedSucc(n, cap) == IF n < cap THEN n + 1 ELSE cap

\* Nobody but c is inside, before or after a step of c's.
Sole(c) == \A d \in Callers \ {c} : pc[d] \in Calm

Step(c, from, to) ==
    /\ pc[c] = from
    /\ pc' = [pc EXCEPT ![c] = to]
    /\ lock' = IF redis THEN lock ELSE IF to \in Calm THEN Nobody ELSE c
    /\ overlap' = IF Sole(c) THEN overlap /\ to \notin Calm ELSE TRUE
    /\ UNCHANGED redis

\* Threads of one process wait for each other; processes do not.
Enter(c, from, to) == lock = Nobody /\ Step(c, from, to)

-----------------------------------------------------------------------------
(* call: allow_request.                                                    *)

\* HALF_OPEN lets every caller through.
AllowRequest(c) ==
    /\ Enter(c, "idle", IF state = "OPEN" THEN "check" ELSE "run")
    /\ UNCHANGED <<keys, strikes, healed>>

\* Slip: opened_at is not looked at.
CheckNothing(c) == Step(c, "check", "half") /\ UNCHANGED <<keys, strikes, healed>>

\* opened_at: too early, CircuitOpenError.
CheckRecovery(c) ==
    /\ Step(c, "check", IF waited >= Recovery THEN "half" ELSE "idle")
    /\ UNCHANGED <<keys, strikes, healed>>

EnterHalfOpen(c) ==
    /\ Step(c, "half", "reset")
    /\ state' = "HALF_OPEN"
    /\ UNCHANGED <<failures, successes, pickled, waited, strikes, healed>>

ResetSuccesses(c) ==
    /\ Step(c, "reset", "run")
    /\ successes' = 0 /\ pickled' = redis
    /\ UNCHANGED <<state, failures, waited, strikes, healed>>

-----------------------------------------------------------------------------
(* call: the protected function, then record_success or record_failure.    *)

Succeed(c) == Enter(c, "run", "won") /\ UNCHANGED <<keys, strikes, healed>>

Fail(c) == ~healed /\ Enter(c, "run", "lost") /\ UNCHANGED <<keys, strikes, healed>>

RecordSuccess(c) ==
    /\ Step(c, "won", CASE state = "HALF_OPEN" -> "tally"
                        [] state = "CLOSED" -> "clear"
                        [] state = "OPEN" -> "idle")
    /\ UNCHANGED <<keys, strikes, healed>>

\* Slip: a success leaves the failures.
ClearNothing(c) ==
    /\ Step(c, "clear", "idle")
    /\ strikes' = 0
    /\ UNCHANGED <<keys, healed>>

Clear(c) ==
    /\ Step(c, "clear", "idle")
    /\ failures' = 0 /\ strikes' = 0
    /\ UNCHANGED <<state, successes, pickled, waited, healed>>

\* Slip: the successes are never counted.
IncreasedNever == 0

\* incr(successes): INCR refuses the pickled 0, and incr answers 0.
Increased == IF pickled THEN 0 ELSE CappedSucc(successes, SuccessThreshold)

Tally(c) ==
    /\ Step(c, "tally", IF Increased >= SuccessThreshold THEN "counted" ELSE "idle")
    /\ successes' = Increased
    /\ UNCHANGED <<state, failures, pickled, waited, strikes, healed>>

Close(c) ==
    /\ Step(c, "counted", "closing")
    /\ state' = "CLOSED"
    /\ strikes' = 0
    /\ UNCHANGED <<failures, successes, pickled, waited, healed>>

\* Slip: the failures survive the closing.
KeepFailures(c) == Step(c, "closing", "forget") /\ UNCHANGED <<keys, strikes, healed>>

DropFailures(c) ==
    /\ Step(c, "closing", "forget")
    /\ failures' = 0
    /\ UNCHANGED <<state, successes, pickled, waited, strikes, healed>>

DropSuccesses(c) ==
    /\ Step(c, "forget", "idle")
    /\ successes' = 0 /\ pickled' = FALSE
    /\ UNCHANGED <<state, failures, waited, strikes, healed>>

RecordFailure(c) ==
    /\ Step(c, "lost", IF state = "HALF_OPEN" THEN "opening" ELSE "strike")
    /\ UNCHANGED <<keys, strikes, healed>>

Strike(c) ==
    /\ failures' = CappedSucc(failures, FailureThreshold)
    /\ strikes' = CappedSucc(strikes, FailureThreshold)
    /\ Step(c, "strike", IF failures' >= FailureThreshold THEN "opening" ELSE "idle")
    /\ UNCHANGED <<state, successes, pickled, waited, healed>>

\* _open: first opened_at, then the state.
StampOpening(c) ==
    /\ Step(c, "opening", "open")
    /\ waited' = 0
    /\ UNCHANGED <<state, failures, successes, pickled, strikes, healed>>

Open(c) ==
    /\ Step(c, "open", "idle")
    /\ state' = "OPEN"
    /\ UNCHANGED <<failures, successes, pickled, waited, strikes, healed>>

-----------------------------------------------------------------------------
Tick ==
    /\ waited < Recovery
    /\ waited' = waited + 1
    /\ UNCHANGED <<redis, state, failures, successes, pickled, pc, lock, strikes,
                   overlap, healed>>

Heal ==
    /\ ~healed
    /\ healed' = TRUE
    /\ UNCHANGED <<redis, keys, pc, lock, strikes, overlap>>

\* The TTLs: a state that nothing has changed for long reads as CLOSED, and
\* old failures are gone.
StateExpires ==
    /\ state # "CLOSED"
    /\ state' = "CLOSED"
    /\ overlap' = \E c \in Callers : pc[c] \in Inside
    /\ UNCHANGED <<redis, failures, successes, pickled, waited, pc, lock, strikes, healed>>

FailuresExpire ==
    /\ failures > 0
    /\ failures' = 0
    /\ UNCHANGED <<redis, state, successes, pickled, waited, pc, lock, strikes,
                   overlap, healed>>

ZeroExpires ==
    /\ pickled
    /\ pickled' = FALSE
    /\ UNCHANGED <<redis, state, failures, successes, waited, pc, lock, strikes,
                   overlap, healed>>

Time == Tick \/ StateExpires \/ FailuresExpire \/ ZeroExpires

Caller(c) ==
    \/ AllowRequest(c) \/ CheckRecovery(c) \/ EnterHalfOpen(c)
    \/ ResetSuccesses(c) \/ Succeed(c) \/ RecordSuccess(c) \/ Clear(c)
    \/ Tally(c) \/ Close(c) \/ DropFailures(c) \/ DropSuccesses(c)
    \/ RecordFailure(c) \/ Strike(c) \/ StampOpening(c) \/ Open(c)

Next == Time \/ Heal \/ \E c \in Callers : Caller(c) \/ Fail(c)

Spec == Init /\ [][Next]_vars

\* Callers go on calling, every call returns, the lock is handed round, time
\* passes, and the pickled 0, which no success renews, reaches its TTL.
FairSpec ==
    /\ Spec
    /\ WF_vars(Tick) /\ WF_vars(ZeroExpires)
    /\ \A c \in Callers : SF_vars(Caller(c))

-----------------------------------------------------------------------------
(* The breaker as module AtomicBreaker sees it: whoever has begun to write a *)
(* change of state has made it.                                            *)
Somebody(places) == \E c \in Callers : pc[c] \in places

Mode ==
    IF Somebody({"opening", "open"}) THEN "OPEN"
    ELSE IF Somebody({"counted"}) THEN "CLOSED" ELSE state
Fails == IF Somebody({"counted", "closing"}) THEN 0 ELSE failures
Wins == IF Somebody({"reset", "counted", "closing", "forget"}) THEN 0 ELSE successes
Pause == IF Somebody({"opening"}) THEN 0 ELSE waited

Atomic == INSTANCE AtomicBreaker WITH
    mode <- Mode, fails <- Fails, wins <- Wins, pause <- Pause

-----------------------------------------------------------------------------
\* Whatever came before, a consultation or report that no other overlaps changes
\* the breaker at once: it is one success or failure, or the end of a pause.
IsAtomic ==
    Atomic!Init /\ [][~overlap /\ ~overlap' => Atomic!Next]_(Atomic!vars)

\* "OPEN lasts recovery_time before HALF_OPEN": no caller ends a pause early,
\* but for a report that it overlaps.
PauseRespected ==
    [][state = "OPEN" /\ state' = "HALF_OPEN" => waited >= Recovery \/ overlap]_vars

\* "failure_threshold failures in a row enter OPEN": what was counted before a
\* success or the last closing opens no closed breaker, if reports do not overlap.
OpensOnStrikes ==
    [][state = "CLOSED" /\ state' = "OPEN" => strikes >= FailureThreshold \/ overlap]_vars

\* However reports overlap, the failures on the key were reported after the last
\* success and the last closing, once the caller that closed has dropped them.
ClosedIsFresh ==
    TypeOK /\ (failures <= strikes \/ Somebody({"closing"}))

\* Once the service has recovered the breaker closes for good, as long as it is
\* called.
Recovers == <>healed => <>[](state = "CLOSED")
=============================================================================
