--------------------------- MODULE ProtectionProofs ---------------------------
(***************************************************************************)
(* The two modules that keep calls away from a service.                    *)
(*                                                                         *)
(* The circuit breaker, over either store: a consultation or report that   *)
(* no other overlaps changes it at once, ends no pause early, and opens it *)
(* on failures in a row only; and a closed breaker starts from zero        *)
(* however they overlap.  For any number of callers, any thresholds and    *)
(* any recovery time.                                                      *)
(*                                                                         *)
(* The gateway's window: a burst passes the limit by the requests under    *)
(* way only, and a refusal is due.  For any number of workers, any paths   *)
(* and rules, whatever EXPIREs fail and however the rules are switched.    *)
(***************************************************************************)
EXTENDS CircuitBreaker, Gateway, FiniteSetTheorems, WellFoundedInduction, TLAPS

-----------------------------------------------------------------------------
(* The circuit breaker.                                                    *)

\* A caller that has met no other is inside by itself.
Apart ==
    ~overlap => \A c, d \in Callers : pc[c] \in Inside /\ pc[d] \in Inside => c = d

\* What it has read and written, when it is at a place, still holds.
Knows(place) ==
    /\ place \in {"check", "half"} => state = "OPEN"
    /\ place = "half" => waited >= Recovery
    /\ place \in {"reset", "tally", "counted"} => state = "HALF_OPEN"
    /\ place \in {"clear", "closing", "forget"} => state = "CLOSED"
    /\ place = "strike" => state # "HALF_OPEN"
    /\ (place \in {"opening", "open"} /\ state = "CLOSED") => strikes >= FailureThreshold

Read == ~overlap => \A c \in Callers : Knows(pc[c])

IInv ==
    /\ TypeOK /\ Apart /\ Read
    /\ failures <= strikes \/ Somebody({"closing"})
    /\ pickled => successes = 0

-----------------------------------------------------------------------------
LEMMA InitInv == Init => IInv
<1> SUFFICES ASSUME Init PROVE IInv
  OBVIOUS
<1>1. /\ FailureThreshold \in Nat /\ FailureThreshold > 0 /\ SuccessThreshold \in Nat
      /\ Recovery \in Nat
  BY ThresholdAssumption
<1>2. "idle" \in Calm \cup Inside
  BY DEF Calm
<1>3. TypeOK
  <2>1. /\ pc \in [Callers -> Calm \cup Inside] /\ healed \in BOOLEAN
        /\ redis \in BOOLEAN /\ pickled \in BOOLEAN /\ overlap \in BOOLEAN
    BY <1>2 DEF Init
  <2>2. /\ failures \in 0 .. FailureThreshold /\ strikes \in 0 .. FailureThreshold
        /\ successes \in 0 .. SuccessThreshold
        /\ waited \in 0 .. Recovery /\ lock \in Callers \cup {Nobody}
        /\ state \in {"CLOSED", "OPEN", "HALF_OPEN"}
    BY <1>1 DEF Init
  <2> QED
    BY <2>1, <2>2 DEF TypeOK
<1>4. \A c \in Callers : pc[c] = "idle"
  BY DEF Init
<1>5. Apart
  BY <1>4 DEF Apart, Inside
<1>6. Read
  BY <1>4 DEF Read, Knows
<1>7. failures <= strikes /\ ~pickled
  BY DEF Init
<1> QED
  BY <1>3, <1>5, <1>6, <1>7 DEF IInv

\* A caller moves; unless it meets another, all others are outside.
LEMMA Moved ==
    ASSUME TypeOK, Apart, NEW c \in Callers, NEW from, NEW to \in Calm \cup Inside,
           Step(c, from, to)
    PROVE  /\ pc[c] = from
           /\ \A d \in Callers : pc'[d] = IF d = c THEN to ELSE pc[d]
           /\ pc' \in [Callers -> Calm \cup Inside] /\ lock' \in Callers \cup {Nobody}
           /\ redis' \in BOOLEAN /\ overlap' \in BOOLEAN
           /\ ~overlap' => /\ \A d \in Callers \ {c} : pc[d] \in Calm
                           /\ ~overlap \/ to \in Calm
           /\ Apart'
<1>1. /\ pc[c] = from
      /\ \A d \in Callers : pc'[d] = IF d = c THEN to ELSE pc[d]
      /\ pc' \in [Callers -> Calm \cup Inside] /\ lock' \in Callers \cup {Nobody}
      /\ redis' \in BOOLEAN
  BY DEF Step, TypeOK
<1>2. overlap' \in BOOLEAN
  BY DEF Step, TypeOK
<1>3. ASSUME ~overlap'
      PROVE  (\A d \in Callers \ {c} : pc[d] \in Calm) /\ (~overlap \/ to \in Calm)
  <2>1. Sole(c)
    BY <1>3 DEF Step
  <2> QED
    BY <1>3, <2>1 DEF Step, Sole
<1>4. Apart'
  BY <1>1, <1>3 DEF Apart, Calm, Inside
<1> QED
  BY <1>1, <1>2, <1>3, <1>4

\* What a step has to show of the caller that takes it.
LEMMA Alone ==
    ASSUME TypeOK, Apart, NEW c \in Callers, NEW from, NEW to \in Calm \cup Inside,
           Step(c, from, to), ~overlap /\ ~overlap' => Knows(to)'
    PROVE  Read'
<1>1. /\ \A d \in Callers : pc'[d] = IF d = c THEN to ELSE pc[d]
      /\ ~overlap' => /\ \A d \in Callers \ {c} : pc[d] \in Calm
                      /\ ~overlap \/ to \in Calm
  BY Moved
<1>2. \A place \in Calm : Knows(place)'
  BY DEF Knows, Calm
<1>3. ASSUME ~overlap', NEW d \in Callers PROVE Knows(pc[d])'
  <2>1. CASE d = c
    <3>1. pc'[d] = to
      BY <1>1, <2>1
    <3>2. Knows(to)'
      BY <1>1, <1>2, <1>3
    <3> QED
      BY <3>1, <3>2 DEF Knows
  <2>2. CASE d # c
    <3>1. pc'[d] \in Calm
      BY <1>1, <1>3, <2>2
    <3> QED
      BY <3>1 DEF Knows, Calm
  <2> QED
    BY <2>1, <2>2
<1> QED
  BY <1>3 DEF Read

LEMMA CapType ==
    ASSUME NEW cap \in Nat, NEW n \in 0 .. cap
    PROVE  CappedSucc(n, cap) \in 0 .. cap /\ CappedSucc(n, cap) >= n
BY DEF CappedSucc

LEMMA CapGrows ==
    ASSUME NEW cap \in Nat, NEW n \in 0 .. cap, NEW m \in 0 .. cap, n <= m
    PROVE  CappedSucc(n, cap) <= CappedSucc(m, cap)
BY DEF CappedSucc

LEMMA CallerStep ==
    ASSUME IInv, NEW c \in Callers, Caller(c) \/ Fail(c) PROVE IInv'
<1> USE DEF keys
<1>0. TypeOK /\ Apart /\ Read
  BY DEF IInv
<1>a. /\ FailureThreshold \in Nat /\ FailureThreshold > 0
      /\ SuccessThreshold \in Nat /\ SuccessThreshold > 0 /\ Recovery \in Nat
  BY ThresholdAssumption
<1>b. /\ state \in {"CLOSED", "OPEN", "HALF_OPEN"} /\ failures \in 0 .. FailureThreshold
      /\ successes \in 0 .. SuccessThreshold /\ waited \in 0 .. Recovery
      /\ strikes \in 0 .. FailureThreshold /\ healed \in BOOLEAN
      /\ pickled \in BOOLEAN /\ redis \in BOOLEAN
  BY <1>0 DEF TypeOK
<1>1. ASSUME NEW from, NEW to \in Calm \cup Inside, Step(c, from, to),
             state' \in {"CLOSED", "OPEN", "HALF_OPEN"}, failures' \in 0 .. FailureThreshold,
             successes' \in 0 .. SuccessThreshold, waited' \in 0 .. Recovery,
             strikes' \in 0 .. FailureThreshold, healed' = healed, pickled' \in BOOLEAN,
             ~overlap /\ Knows(from) => Knows(to)',
             \/ failures <= strikes /\ from # "closing" => failures' <= strikes'
             \/ to = "closing",
             from = "closing" => failures' <= strikes',
             pickled' => successes' = 0
      PROVE  IInv'
  <2>1. /\ pc[c] = from
        /\ \A d \in Callers : pc'[d] = IF d = c THEN to ELSE pc[d]
        /\ pc' \in [Callers -> Calm \cup Inside] /\ lock' \in Callers \cup {Nobody}
        /\ redis' \in BOOLEAN /\ overlap' \in BOOLEAN /\ Apart'
    BY <1>0, <1>1, Moved
  <2>2. TypeOK'
    BY <1>1, <1>b, <2>1 DEF TypeOK
  <2>3. Read'
    <3>1. ~overlap => Knows(from)
      BY <1>0, <2>1 DEF Read
    <3> QED
      BY <1>0, <1>1, <3>1, Alone
  <2>4. failures' <= strikes' \/ Somebody({"closing"})'
    <3>1. CASE from = "closing" \/ to = "closing"
      BY <1>1, <2>1, <3>1 DEF Somebody
    <3>2. CASE from # "closing" /\ to # "closing"
      <4>1. failures <= strikes \/ Somebody({"closing"})
        BY DEF IInv
      <4>2. Somebody({"closing"}) => Somebody({"closing"})'
        BY <2>1, <3>2 DEF Somebody
      <4> QED
        BY <1>1, <3>2, <4>1, <4>2
    <3> QED
      BY <3>1, <3>2
  <2> QED
    BY <1>1, <2>1, <2>2, <2>3, <2>4 DEF IInv
<1>2. pickled => successes = 0
  BY DEF IInv
<1>3. CASE AllowRequest(c)
  <2>1. PICK to \in {"check", "run"} :
            Step(c, "idle", to) /\ (to = "check" <=> state = "OPEN")
    BY <1>3 DEF AllowRequest, Enter
  <2> QED
    BY <1>1, <1>2, <1>3, <1>b, <2>1 DEF AllowRequest, Calm, Inside, Knows
<1>4. CASE CheckRecovery(c)
  <2>1. PICK to \in {"half", "idle"} :
            Step(c, "check", to) /\ (to = "half" => waited >= Recovery)
    BY <1>4 DEF CheckRecovery
  <2> QED
    BY <1>1, <1>2, <1>4, <1>b, <2>1 DEF CheckRecovery, Calm, Inside, Knows
<1>5. CASE EnterHalfOpen(c)
  <2>1. Step(c, "half", "reset") /\ state' = "HALF_OPEN"
    BY <1>5 DEF EnterHalfOpen
  <2> QED
    BY <1>1, <1>2, <1>5, <1>b, <2>1 DEF EnterHalfOpen, Calm, Inside, Knows
<1>6. CASE ResetSuccesses(c)
  <2>1. /\ Step(c, "reset", "run") /\ successes' = 0
        /\ successes' \in 0 .. SuccessThreshold /\ pickled' \in BOOLEAN
    BY <1>6, <1>a, <1>b DEF ResetSuccesses
  <2> QED
    BY <1>1, <1>2, <1>6, <1>b, <2>1 DEF ResetSuccesses, Calm, Inside, Knows
<1>7. CASE Succeed(c) \/ Fail(c)
  <2>1. PICK to \in {"won", "lost"} : Step(c, "run", to)
    BY <1>7 DEF Succeed, Fail, Enter
  <2> QED
    BY <1>1, <1>2, <1>7, <1>b, <2>1 DEF Succeed, Fail, Calm, Inside, Knows
<1>8. CASE RecordSuccess(c)
  <2>1. PICK to \in {"tally", "clear", "idle"} :
            /\ Step(c, "won", to)
            /\ to = "tally" => state = "HALF_OPEN"
            /\ to = "clear" => state = "CLOSED"
    BY <1>8, <1>b DEF RecordSuccess
  <2> QED
    BY <1>1, <1>2, <1>8, <1>b, <2>1 DEF RecordSuccess, Calm, Inside, Knows
<1>9. CASE Clear(c)
  <2>1. Step(c, "clear", "idle") /\ failures' = 0 /\ strikes' = 0
    BY <1>9 DEF Clear
  <2> QED
    BY <1>1, <1>2, <1>9, <1>a, <1>b, <2>1 DEF Clear, Calm, Inside, Knows
<1>10. CASE Tally(c)
  <2>1. PICK to \in {"counted", "idle"} : Step(c, "tally", to)
    BY <1>10 DEF Tally
  <2>2. Increased \in 0 .. SuccessThreshold /\ (pickled => Increased = 0)
    BY <1>a, <1>b, CapType DEF Increased
  <2> QED
    BY <1>1, <1>2, <1>10, <1>b, <2>1, <2>2 DEF Tally, Calm, Inside, Knows
<1>11. CASE Close(c)
  <2>1. Step(c, "counted", "closing") /\ state' = "CLOSED" /\ strikes' = 0
    BY <1>11 DEF Close
  <2> QED
    BY <1>1, <1>2, <1>11, <1>a, <1>b, <2>1 DEF Close, Calm, Inside, Knows
<1>12. CASE DropFailures(c)
  <2>1. Step(c, "closing", "forget") /\ failures' = 0
    BY <1>12 DEF DropFailures
  <2> QED
    BY <1>1, <1>2, <1>12, <1>a, <1>b, <2>1 DEF DropFailures, Calm, Inside, Knows
<1>13. CASE DropSuccesses(c)
  <2>1. /\ Step(c, "forget", "idle") /\ successes' = 0
        /\ UNCHANGED <<state, failures, waited, strikes, healed>>
    BY <1>13 DEF DropSuccesses
  <2>2. pickled' \in BOOLEAN
    BY <1>13 DEF DropSuccesses
  <2>3. successes' \in 0 .. SuccessThreshold
    BY <1>a, <2>1
  <2>4. Knows("forget") => Knows("idle")'
    BY DEF Knows
  <2> QED
    BY <1>1, <1>b, <2>1, <2>2, <2>3, <2>4 DEF Calm, Inside
<1>14. CASE RecordFailure(c)
  <2>1. PICK to \in {"opening", "strike"} :
            /\ Step(c, "lost", to)
            /\ IF to = "opening" THEN state = "HALF_OPEN" ELSE state # "HALF_OPEN"
    BY <1>14 DEF RecordFailure
  <2> QED
    BY <1>1, <1>2, <1>14, <1>b, <2>1 DEF RecordFailure, Calm, Inside, Knows
<1>15. CASE Strike(c)
  <2>1. /\ failures' = CappedSucc(failures, FailureThreshold)
        /\ strikes' = CappedSucc(strikes, FailureThreshold)
        /\ Step(c, "strike", IF failures' >= FailureThreshold THEN "opening" ELSE "idle")
        /\ UNCHANGED <<state, successes, pickled, waited, healed>>
    BY <1>15 DEF Strike
  <2>2. /\ failures' \in 0 .. FailureThreshold /\ strikes' \in 0 .. FailureThreshold
        /\ failures <= strikes => failures' <= strikes'
    BY <1>a, <1>b, <2>1, CapType, CapGrows
  <2>3. ASSUME failures' >= FailureThreshold, ~overlap, ~overlap' PROVE strikes' >= FailureThreshold
    <3>1. /\ \A d \in Callers \ {c} : pc[d] \in Calm
          /\ pc[c] = "strike"
      BY <1>0, <2>1, <2>3, Moved DEF Calm, Inside
    <3>2. ~Somebody({"closing"})
      BY <3>1 DEF Somebody, Calm
    <3>3. failures' <= strikes'
      BY <2>2, <3>2 DEF IInv
    <3> QED
      BY <1>a, <2>2, <2>3, <3>3
  <2>4. PICK to \in {"opening", "idle"} :
            Step(c, "strike", to) /\ (to = "opening" => failures' >= FailureThreshold)
    BY <2>1
  <2>5. Read'
    <3>1. ~overlap /\ ~overlap' => Knows(to)'
      BY <2>3, <2>4 DEF Knows
    <3>2. to \in Calm \cup Inside
      BY DEF Calm, Inside
    <3> QED
      BY <1>0, <2>4, <3>1, <3>2, Alone
  <2>6. /\ \A d \in Callers : pc'[d] = IF d = c THEN to ELSE pc[d]
        /\ pc' \in [Callers -> Calm \cup Inside] /\ lock' \in Callers \cup {Nobody}
        /\ redis' \in BOOLEAN /\ overlap' \in BOOLEAN /\ Apart' /\ pc[c] = "strike"
    BY <1>0, <2>4, Moved DEF Calm, Inside
  <2>7. TypeOK'
    BY <1>b, <2>1, <2>2, <2>6 DEF TypeOK
  <2>8. Somebody({"closing"}) => Somebody({"closing"})'
    BY <2>6 DEF Somebody
  <2> QED
    BY <1>2, <2>1, <2>2, <2>5, <2>6, <2>7, <2>8 DEF IInv
<1>16. CASE StampOpening(c)
  <2>1. Step(c, "opening", "open") /\ waited' = 0
    BY <1>16 DEF StampOpening
  <2> QED
    BY <1>1, <1>2, <1>16, <1>a, <1>b, <2>1 DEF StampOpening, Calm, Inside, Knows
<1>17. CASE Open(c)
  <2>1. Step(c, "open", "idle") /\ state' = "OPEN"
    BY <1>17 DEF Open
  <2> QED
    BY <1>1, <1>2, <1>17, <1>b, <2>1 DEF Open, Calm, Inside, Knows
<1> QED
  BY <1>3, <1>4, <1>5, <1>6, <1>7, <1>8, <1>9, <1>10, <1>11, <1>12, <1>13, <1>14,
     <1>15, <1>16, <1>17 DEF Caller

LEMMA InvStep == IInv /\ [Next]_vars => IInv'
<1> SUFFICES ASSUME IInv, [Next]_vars PROVE IInv'
  OBVIOUS
<1> USE DEF keys
<1>0. /\ TypeOK /\ Apart /\ Read /\ (failures <= strikes \/ Somebody({"closing"}))
      /\ pickled => successes = 0
  BY DEF IInv
<1>1. ASSUME UNCHANGED pc PROVE \A places : Somebody(places)' <=> Somebody(places)
  BY <1>1 DEF Somebody
<1>2. ASSUME UNCHANGED <<redis, state, successes, pc, lock, strikes, overlap>>,
             waited' \in 0 .. Recovery, waited' >= waited, failures' \in {0, failures},
             pickled' \in BOOLEAN, pickled' => pickled, healed' \in BOOLEAN
      PROVE  IInv'
  <2>1. Apart' /\ Read'
    <3>1. \A place : Knows(place) => Knows(place)'
      <4>1. waited \in Int /\ waited' \in Int /\ Recovery \in Int
        BY <1>0, <1>2, ThresholdAssumption DEF TypeOK
      <4> QED
        BY <1>2, <4>1 DEF Knows
    <3>2. ASSUME ~overlap, NEW d \in Callers PROVE Knows(pc[d])'
      <4>1. Knows(pc[d])
        BY <1>0, <3>2 DEF Read
      <4>2. pc'[d] = pc[d]
        BY <1>2
      <4> QED
        BY <1>2, <3>1, <4>1, <4>2 DEF Knows
    <3> QED
      BY <1>0, <1>2, <3>2 DEF Apart, Read
  <2>2. failures' \in 0 .. FailureThreshold
    BY <1>0, <1>2, ThresholdAssumption DEF TypeOK
  <2>3. TypeOK'
    BY <1>0, <1>2, <2>2 DEF TypeOK
  <2>4. failures' <= strikes' \/ Somebody({"closing"})'
    <3>1. strikes \in Nat
      BY <1>0, ThresholdAssumption DEF TypeOK
    <3> QED
      BY <1>0, <1>1, <1>2, <3>1
  <2> QED
    BY <1>0, <1>2, <2>1, <2>3, <2>4 DEF IInv
<1>3. waited \in 0 .. Recovery /\ waited >= waited /\ pickled \in BOOLEAN /\ healed \in BOOLEAN
  BY <1>0, ThresholdAssumption DEF TypeOK
<1>4. CASE Tick
  <2>1. waited' \in 0 .. Recovery /\ waited' >= waited
    BY <1>3, <1>4, ThresholdAssumption DEF Tick
  <2> QED
    BY <1>2, <1>3, <1>4, <2>1 DEF Tick
<1>5. CASE FailuresExpire
  BY <1>2, <1>3, <1>5 DEF FailuresExpire
<1>6. CASE ZeroExpires
  BY <1>2, <1>3, <1>6 DEF ZeroExpires
<1>7. CASE Heal
  BY <1>2, <1>3, <1>7 DEF Heal
<1>8. CASE UNCHANGED vars
  BY <1>2, <1>3, <1>8 DEF vars
<1>9. CASE StateExpires
  <2>1. /\ UNCHANGED <<redis, failures, successes, pickled, waited, pc, lock, strikes, healed>>
        /\ state' = "CLOSED" /\ overlap' = \E c \in Callers : pc[c] \in Inside
    BY <1>9 DEF StateExpires
  <2>2. TypeOK'
    BY <1>0, <2>1 DEF TypeOK
  <2>3. ASSUME ~overlap', NEW d \in Callers PROVE pc'[d] \in Calm
    BY <1>0, <2>1, <2>3 DEF TypeOK
  <2>4. Apart' /\ Read'
    <3>1. \A place \in Calm : Knows(place)'
      BY DEF Knows, Calm
    <3>2. ASSUME ~overlap', NEW d \in Callers PROVE Knows(pc[d])'
      BY <2>3, <3>2 DEF Knows, Calm
    <3>3. \A place \in Calm : place \notin Inside
      BY DEF Calm, Inside
    <3> QED
      BY <2>3, <3>2, <3>3 DEF Apart, Read
  <2> QED
    BY <1>0, <1>1, <2>1, <2>2, <2>4 DEF IInv
<1> QED
  BY <1>4, <1>5, <1>6, <1>7, <1>8, <1>9, CallerStep DEF Next, Time

LEMMA AlwaysInv == Spec => []IInv
BY InvStep, InitInv, PTL DEF Spec

-----------------------------------------------------------------------------
\* However consultations and reports overlap, and over either store, the key
\* counts no failure from before the last success or the last closing, but while
\* the caller that closes the breaker is about to drop them.
THEOREM ClosedStartsFresh == Spec => []ClosedIsFresh
<1>1. IInv => ClosedIsFresh
  BY DEF IInv, ClosedIsFresh
<1> QED
  BY <1>1, AlwaysInv, PTL

\* Only the step that opens the breaker, and only the one that ends a pause,
\* write these states.
LEMMA StateWrites ==
    ASSUME [Next]_vars
    PROVE  /\ state' = "OPEN" => state' = state \/ \E c \in Callers : Open(c)
           /\ state' = "HALF_OPEN" => state' = state \/ \E c \in Callers : EnterHalfOpen(c)
<1>1. ASSUME NEW c \in Callers, Caller(c) \/ Fail(c), ~Open(c), ~EnterHalfOpen(c)
      PROVE  state' = state \/ state' = "CLOSED"
  BY <1>1 DEF Caller, Fail, AllowRequest, CheckRecovery, ResetSuccesses, Succeed,
              RecordSuccess, Clear, Tally, Close, DropFailures, DropSuccesses,
              RecordFailure, Strike, StampOpening, keys
<1>2. \A c \in Callers : /\ Open(c) => state' = "OPEN"
                         /\ EnterHalfOpen(c) => state' = "HALF_OPEN"
  BY DEF Open, EnterHalfOpen
<1>3. Time \/ Heal \/ UNCHANGED vars => state' = state \/ state' = "CLOSED"
  BY DEF Time, Tick, StateExpires, FailuresExpire, ZeroExpires, Heal, vars, keys
<1> QED
  BY <1>1, <1>2, <1>3 DEF Next

\* A caller that no other overlaps ends no pause before recovery_time is over.
THEOREM PausesLast == Spec => PauseRespected
<1>1. ASSUME IInv, [Next]_vars
      PROVE  [state = "OPEN" /\ state' = "HALF_OPEN" => waited >= Recovery \/ overlap]_vars
  <2>1. ASSUME NEW c \in Callers, EnterHalfOpen(c) PROVE waited >= Recovery \/ overlap
    BY <1>1, <2>1 DEF EnterHalfOpen, Step, IInv, Read, Knows
  <2> QED
    BY <1>1, <2>1, StateWrites
<1> QED
  BY <1>1, AlwaysInv, PTL DEF Spec, PauseRespected

\* A closed breaker opens on failures in a row: unless reports overlap, those
\* before a success or before the last closing do not count.
THEOREM StrikesOpen == Spec => OpensOnStrikes
<1>1. ASSUME IInv, [Next]_vars
      PROVE  [state = "CLOSED" /\ state' = "OPEN" => strikes >= FailureThreshold \/ overlap]_vars
  <2>1. ASSUME NEW c \in Callers, Open(c), state = "CLOSED"
        PROVE  strikes >= FailureThreshold \/ overlap
    BY <1>1, <2>1 DEF Open, Step, IInv, Read, Knows
  <2> QED
    BY <1>1, <2>1, StateWrites
<1> QED
  BY <1>1, AlwaysInv, PTL DEF Spec, OpensOnStrikes

-----------------------------------------------------------------------------
(* The breaker that changes at once.  A caller that has met no other is the *)
(* only one inside, so what AtomicBreaker sees is told by its place.       *)

LEMMA Seen ==
    ASSUME TypeOK, Apart, NEW c \in Callers, NEW from, NEW to \in Calm \cup Inside,
           Step(c, from, to), ~overlap'
    PROVE  /\ Mode = IF from \in {"opening", "open"} THEN "OPEN"
                     ELSE IF from = "counted" THEN "CLOSED" ELSE state
           /\ Fails = IF from \in {"counted", "closing"} THEN 0 ELSE failures
           /\ Wins = IF from \in {"reset", "counted", "closing", "forget"} THEN 0
                     ELSE successes
           /\ Pause = IF from = "opening" THEN 0 ELSE waited
           /\ Mode' = IF to \in {"opening", "open"} THEN "OPEN"
                      ELSE IF to = "counted" THEN "CLOSED" ELSE state'
           /\ Fails' = IF to \in {"counted", "closing"} THEN 0 ELSE failures'
           /\ Wins' = IF to \in {"reset", "counted", "closing", "forget"} THEN 0
                      ELSE successes'
           /\ Pause' = IF to = "opening" THEN 0 ELSE waited'
<1>1. /\ pc[c] = from
      /\ \A d \in Callers : pc'[d] = IF d = c THEN to ELSE pc[d]
      /\ \A d \in Callers \ {c} : pc[d] \in Calm
  BY Moved
<1>2. /\ Somebody({"opening", "open"}) <=> from \in {"opening", "open"}
      /\ Somebody({"counted"}) <=> from = "counted"
      /\ Somebody({"counted", "closing"}) <=> from \in {"counted", "closing"}
      /\ Somebody({"reset", "counted", "closing", "forget"})
             <=> from \in {"reset", "counted", "closing", "forget"}
      /\ Somebody({"opening"}) <=> from = "opening"
  BY <1>1 DEF Somebody, Calm
<1>3. /\ Somebody({"opening", "open"})' <=> to \in {"opening", "open"}
      /\ Somebody({"counted"})' <=> to = "counted"
      /\ Somebody({"counted", "closing"})' <=> to \in {"counted", "closing"}
      /\ Somebody({"reset", "counted", "closing", "forget"})'
             <=> to \in {"reset", "counted", "closing", "forget"}
      /\ Somebody({"opening"})' <=> to = "opening"
  BY <1>1 DEF Somebody, Calm
<1>4. /\ Mode = IF from \in {"opening", "open"} THEN "OPEN"
                ELSE IF from = "counted" THEN "CLOSED" ELSE state
      /\ Mode' = IF to \in {"opening", "open"} THEN "OPEN"
                 ELSE IF to = "counted" THEN "CLOSED" ELSE state'
  BY <1>2, <1>3 DEF Mode
<1>5. /\ Fails = IF from \in {"counted", "closing"} THEN 0 ELSE failures
      /\ Fails' = IF to \in {"counted", "closing"} THEN 0 ELSE failures'
  BY <1>2, <1>3 DEF Fails
<1>6. /\ Wins = IF from \in {"reset", "counted", "closing", "forget"} THEN 0
                ELSE successes
      /\ Wins' = IF to \in {"reset", "counted", "closing", "forget"} THEN 0
                 ELSE successes'
  BY <1>2, <1>3 DEF Wins
<1>7. /\ Pause = IF from = "opening" THEN 0 ELSE waited
      /\ Pause' = IF to = "opening" THEN 0 ELSE waited'
  BY <1>2, <1>3 DEF Pause
<1> QED
  BY <1>4, <1>5, <1>6, <1>7

\* Of a caller's steps only the end of a pause, the counts and what they lead
\* to are steps of the breaker.
LEMMA AtomicCaller ==
    ASSUME IInv, ~overlap, ~overlap', NEW c \in Callers, Caller(c) \/ Fail(c)
    PROVE  Atomic!Next \/ UNCHANGED Atomic!vars
<1> USE DEF keys
<1>0. TypeOK /\ Apart /\ Read /\ (pickled => successes = 0)
  BY DEF IInv
<1>a. /\ FailureThreshold \in Nat /\ FailureThreshold > 0
      /\ SuccessThreshold \in Nat /\ SuccessThreshold > 0 /\ Recovery \in Nat
  BY ThresholdAssumption
<1>b. /\ state \in {"CLOSED", "OPEN", "HALF_OPEN"} /\ failures \in 0 .. FailureThreshold
      /\ successes \in 0 .. SuccessThreshold
  BY <1>0 DEF TypeOK
<1>c. \A n, cap \in Nat :
         /\ CappedSucc(n, cap) >= cap <=> n + 1 >= cap
         /\ n + 1 < cap => CappedSucc(n, cap) = n + 1
         /\ n \in 0 .. cap /\ n + 1 >= cap => CappedSucc(n, cap) = cap
  BY DEF CappedSucc
<1>d. ASSUME UNCHANGED <<Mode, Fails, Wins, Pause>> PROVE UNCHANGED Atomic!vars
  BY <1>d DEF Atomic!vars
<1>1. ASSUME NEW from, NEW to, Step(c, from, to) PROVE Knows(from)
  BY <1>0, <1>1 DEF Step, Read
<1>3. CASE AllowRequest(c)
  <2>1. PICK to \in {"check", "run"} : Step(c, "idle", to)
    BY <1>3 DEF AllowRequest, Enter
  <2> QED
    BY <1>0, <1>3, <1>d, <2>1, Seen DEF AllowRequest, Calm, Inside
<1>4. CASE CheckRecovery(c)
  <2>1. PICK to \in {"half", "idle"} : Step(c, "check", to)
    BY <1>4 DEF CheckRecovery
  <2> QED
    BY <1>0, <1>4, <1>d, <2>1, Seen DEF CheckRecovery, Calm, Inside
<1>5. CASE EnterHalfOpen(c)
  <2>1. Step(c, "half", "reset") /\ state' = "HALF_OPEN" /\ UNCHANGED <<failures, waited>>
    BY <1>5 DEF EnterHalfOpen
  <2>2. state = "OPEN" /\ waited >= Recovery
    BY <1>1, <2>1 DEF Knows
  <2>3. /\ Mode = "OPEN" /\ Mode' = "HALF_OPEN" /\ Wins' = 0
        /\ UNCHANGED <<Fails, Pause>> /\ Pause >= Recovery
    BY <1>0, <2>1, <2>2, Seen DEF Calm, Inside
  <2> QED
    BY <2>3 DEF Atomic!Next, Atomic!Probe
<1>6. CASE ResetSuccesses(c)
  <2>1. Step(c, "reset", "run") /\ successes' = 0 /\ UNCHANGED <<state, failures, waited>>
    BY <1>6 DEF ResetSuccesses
  <2> QED
    BY <1>0, <1>d, <2>1, Seen DEF Calm, Inside
<1>7. CASE Succeed(c) \/ Fail(c)
  <2>1. PICK to \in {"won", "lost"} : Step(c, "run", to)
    BY <1>7 DEF Succeed, Fail, Enter
  <2> QED
    BY <1>0, <1>7, <1>d, <2>1, Seen DEF Succeed, Fail, Calm, Inside
<1>8. CASE RecordSuccess(c)
  <2>1. PICK to \in {"tally", "clear", "idle"} : Step(c, "won", to)
    BY <1>8, <1>b DEF RecordSuccess
  <2>2. UNCHANGED <<state, failures, successes, waited>>
    BY <1>8 DEF RecordSuccess
  <2> QED
    BY <1>0, <1>d, <2>1, <2>2, Seen DEF Calm, Inside
<1>9. CASE Clear(c)
  <2>1. Step(c, "clear", "idle") /\ failures' = 0 /\ UNCHANGED <<state, successes, waited>>
    BY <1>9 DEF Clear
  <2>2. state = "CLOSED"
    BY <1>1, <2>1 DEF Knows
  <2>3. Mode = "CLOSED" /\ Fails' = 0 /\ UNCHANGED <<Mode, Wins, Pause>>
    BY <1>0, <2>1, <2>2, Seen DEF Calm, Inside
  <2> QED
    BY <2>3 DEF Atomic!Next, Atomic!Success
<1>10. CASE Tally(c)
  <2>1. /\ Step(c, "tally", IF Increased >= SuccessThreshold THEN "counted" ELSE "idle")
        /\ successes' = Increased
        /\ UNCHANGED <<state, failures, waited>>
    BY <1>10 DEF Tally
  <2>2. PICK to \in {"counted", "idle"} :
            Step(c, "tally", to) /\ (to = "counted" <=> Increased >= SuccessThreshold)
    BY <2>1
  <2>3. state = "HALF_OPEN"
    BY <1>1, <2>2 DEF Knows
  <2>4. CASE pickled
    <3>1. Increased = 0 /\ successes = 0 /\ to = "idle"
      BY <1>0, <1>a, <2>2, <2>4 DEF Increased
    <3> QED
      BY <1>0, <1>d, <2>1, <2>2, <3>1, Seen DEF Calm, Inside
  <2>5. CASE ~pickled /\ successes + 1 < SuccessThreshold
    <3>1. Increased = CappedSucc(successes, SuccessThreshold)
      BY <2>5 DEF Increased
    <3>2. to = "idle" /\ successes' = successes + 1
      BY <1>a, <1>b, <1>c, <2>1, <2>2, <2>5, <3>1
    <3>3. /\ Mode = "HALF_OPEN" /\ Wins + 1 < SuccessThreshold /\ Wins' = Wins + 1
          /\ UNCHANGED <<Mode, Fails, Pause>>
      BY <1>0, <2>1, <2>2, <2>3, <2>5, <3>2, Seen DEF Calm, Inside
    <3> QED
      BY <3>3 DEF Atomic!Next, Atomic!Success
  <2>6. CASE ~pickled /\ successes + 1 >= SuccessThreshold
    <3>1. Increased = CappedSucc(successes, SuccessThreshold)
      BY <2>6 DEF Increased
    <3>2. to = "counted"
      BY <1>a, <1>b, <1>c, <2>2, <2>6, <3>1
    <3>3. /\ Mode = "HALF_OPEN" /\ Wins + 1 >= SuccessThreshold
          /\ Mode' = "CLOSED" /\ Fails' = 0 /\ Wins' = 0 /\ UNCHANGED Pause
      BY <1>0, <2>1, <2>2, <2>3, <2>6, <3>2, Seen DEF Calm, Inside
    <3> QED
      BY <3>3 DEF Atomic!Next, Atomic!Success
  <2>7. successes + 1 < SuccessThreshold \/ successes + 1 >= SuccessThreshold
    BY <1>a, <1>b
  <2> QED
    BY <2>4, <2>5, <2>6, <2>7
<1>11. CASE Close(c)
  <2>1. Step(c, "counted", "closing") /\ state' = "CLOSED" /\ UNCHANGED waited
    BY <1>11 DEF Close
  <2> QED
    BY <1>0, <1>d, <2>1, Seen DEF Calm, Inside
<1>12. CASE DropFailures(c)
  <2>1. /\ Step(c, "closing", "forget") /\ failures' = 0
        /\ UNCHANGED <<state, waited>>
    BY <1>12 DEF DropFailures
  <2> QED
    BY <1>0, <1>d, <2>1, Seen DEF Calm, Inside
<1>13. CASE DropSuccesses(c)
  <2>1. /\ Step(c, "forget", "idle") /\ successes' = 0
        /\ UNCHANGED <<state, failures, waited>>
    BY <1>13 DEF DropSuccesses
  <2> QED
    BY <1>0, <1>d, <2>1, Seen DEF Calm, Inside
<1>14. CASE RecordFailure(c)
  <2>1. UNCHANGED <<state, failures, successes, waited>>
    BY <1>14 DEF RecordFailure
  <2>2. CASE state = "HALF_OPEN"
    <3>1. Step(c, "lost", "opening")
      BY <1>14, <2>2 DEF RecordFailure
    <3>2. /\ Mode = "HALF_OPEN" /\ Mode' = "OPEN" /\ Pause' = 0
          /\ UNCHANGED <<Fails, Wins>>
      BY <1>0, <2>1, <2>2, <3>1, Seen DEF Calm, Inside
    <3> QED
      BY <3>2 DEF Atomic!Next, Atomic!Failure, Atomic!Trip
  <2>3. CASE state # "HALF_OPEN"
    <3>1. Step(c, "lost", "strike")
      BY <1>14, <2>3 DEF RecordFailure
    <3> QED
      BY <1>0, <1>d, <2>1, <3>1, Seen DEF Calm, Inside
  <2> QED
    BY <2>2, <2>3
<1>15. CASE Strike(c)
  <2>1. /\ failures' = CappedSucc(failures, FailureThreshold)
        /\ Step(c, "strike", IF failures' >= FailureThreshold THEN "opening" ELSE "idle")
        /\ UNCHANGED <<state, successes, waited>>
    BY <1>15 DEF Strike
  <2>2. state # "HALF_OPEN"
    BY <1>1, <2>1 DEF Knows
  <2>3. CASE failures + 1 < FailureThreshold
    <3>1. failures' = failures + 1 /\ ~(failures' >= FailureThreshold)
      BY <1>a, <1>b, <1>c, <2>1, <2>3
    <3>2. Step(c, "strike", "idle")
      BY <2>1, <3>1
    <3>3. /\ Mode # "HALF_OPEN" /\ Fails + 1 < FailureThreshold /\ Fails' = Fails + 1
          /\ UNCHANGED <<Mode, Wins, Pause>>
      BY <1>0, <2>1, <2>2, <2>3, <3>1, <3>2, Seen DEF Calm, Inside
    <3> QED
      BY <3>3 DEF Atomic!Next, Atomic!Failure
  <2>4. CASE failures + 1 >= FailureThreshold
    <3>1. failures' = FailureThreshold
      BY <1>a, <1>b, <1>c, <2>1, <2>4
    <3>2. Step(c, "strike", "opening")
      BY <1>a, <2>1, <3>1
    <3>3. /\ Mode # "HALF_OPEN" /\ Fails + 1 >= FailureThreshold
          /\ Fails' = FailureThreshold /\ Mode' = "OPEN" /\ Pause' = 0 /\ UNCHANGED Wins
      BY <1>0, <2>1, <2>2, <2>4, <3>1, <3>2, Seen DEF Calm, Inside
    <3> QED
      BY <3>3 DEF Atomic!Next, Atomic!Failure, Atomic!Trip
  <2> QED
    BY <1>a, <1>b, <2>3, <2>4
<1>16. CASE StampOpening(c)
  <2>1. /\ Step(c, "opening", "open") /\ waited' = 0
        /\ UNCHANGED <<state, failures, successes>>
    BY <1>16 DEF StampOpening
  <2> QED
    BY <1>0, <1>d, <2>1, Seen DEF Calm, Inside
<1>17. CASE Open(c)
  <2>1. /\ Step(c, "open", "idle") /\ state' = "OPEN"
        /\ UNCHANGED <<failures, successes, waited>>
    BY <1>17 DEF Open
  <2> QED
    BY <1>0, <1>d, <2>1, Seen DEF Calm, Inside
<1> QED
  BY <1>3, <1>4, <1>5, <1>6, <1>7, <1>8, <1>9, <1>10, <1>11, <1>12, <1>13, <1>14,
     <1>15, <1>16, <1>17 DEF Caller

LEMMA AtomicStep ==
    ASSUME IInv, [Next]_vars, ~overlap, ~overlap'
    PROVE  Atomic!Next \/ UNCHANGED Atomic!vars
<1>0. TypeOK
  BY DEF IInv
<1>1. ASSUME UNCHANGED pc
      PROVE  \A places : Somebody(places)' <=> Somebody(places)
  BY <1>1 DEF Somebody
<1>2. CASE Tick
  <2>1. /\ waited < Recovery /\ waited' = waited + 1
        /\ UNCHANGED <<state, failures, successes, pc>>
    BY <1>2 DEF Tick
  <2>2. UNCHANGED <<Mode, Fails, Wins>>
    BY <1>1, <2>1 DEF Mode, Fails, Wins
  <2>3. CASE Somebody({"opening"})
    <3>1. UNCHANGED Pause
      BY <1>1, <2>1, <2>3 DEF Pause
    <3> QED
      BY <2>2, <3>1 DEF Atomic!vars
  <2>4. CASE ~Somebody({"opening"})
    <3>1. Pause < Recovery /\ Pause' = Pause + 1
      BY <1>1, <2>1, <2>4 DEF Pause
    <3> QED
      BY <2>2, <3>1 DEF Atomic!Next, Atomic!Wait
  <2> QED
    BY <2>3, <2>4
<1>3. CASE Heal \/ ZeroExpires \/ UNCHANGED vars
  <2>1. UNCHANGED <<state, failures, successes, waited, pc>>
    BY <1>3 DEF Heal, ZeroExpires, keys, vars
  <2>2. UNCHANGED <<Mode, Fails, Wins, Pause>>
    BY <1>1, <2>1 DEF Mode, Fails, Wins, Pause
  <2> QED
    BY <2>2 DEF Atomic!vars
<1>4. CASE FailuresExpire
  <2>1. /\ failures > 0 /\ failures' = 0
        /\ UNCHANGED <<state, successes, waited, pc>>
    BY <1>4 DEF FailuresExpire
  <2>2. UNCHANGED <<Mode, Wins, Pause>>
    BY <1>1, <2>1 DEF Mode, Wins, Pause
  <2>3. Fails' = 0 /\ Fails \in {0, failures}
    BY <2>1 DEF Fails
  <2>4. CASE Fails = 0
    BY <2>2, <2>3, <2>4 DEF Atomic!vars
  <2>5. CASE Fails = failures
    BY <2>1, <2>2, <2>3, <2>5 DEF Atomic!Next, Atomic!Lapse
  <2> QED
    BY <2>3, <2>4, <2>5
<1>5. CASE StateExpires
  <2>1. /\ state # "CLOSED" /\ state' = "CLOSED" /\ ~\E c \in Callers : pc[c] \in Inside
        /\ UNCHANGED <<failures, successes, waited, pc>>
    BY <1>5 DEF StateExpires
  <2>2. \A places \in SUBSET Inside : ~Somebody(places)
    BY <2>1 DEF Somebody
  <2>3. /\ ~Somebody({"opening", "open"}) /\ ~Somebody({"counted"})
        /\ ~Somebody({"counted", "closing"}) /\ ~Somebody({"opening"})
        /\ ~Somebody({"reset", "counted", "closing", "forget"})
    BY <2>2 DEF Inside
  <2>4. Mode # "CLOSED" /\ Mode' = "CLOSED" /\ UNCHANGED <<Fails, Wins, Pause>>
    BY <1>1, <2>1, <2>3 DEF Mode, Fails, Wins, Pause
  <2> QED
    BY <2>4 DEF Atomic!Next, Atomic!Lapse
<1> QED
  BY <1>2, <1>3, <1>4, <1>5, AtomicCaller DEF Next, Time

\* Over either store, what no other consultation or report overlaps changes the
\* breaker at once: every call let through after the pause, every report, counts
\* once and whole, whatever the overlapping ones before it have left behind.
THEOREM BehavesAtomically == Spec => IsAtomic
<1>1. Init => Atomic!Init
  <2> SUFFICES ASSUME Init PROVE Atomic!Init
    OBVIOUS
  <2>1. \A c \in Callers : pc[c] = "idle"
    BY DEF Init
  <2>2. /\ ~Somebody({"opening", "open"}) /\ ~Somebody({"counted"})
        /\ ~Somebody({"counted", "closing"}) /\ ~Somebody({"opening"})
        /\ ~Somebody({"reset", "counted", "closing", "forget"})
    BY <2>1 DEF Somebody
  <2> QED
    BY <2>2 DEF Init, Atomic!Init, Mode, Fails, Wins, Pause
<1>2. IInv /\ [Next]_vars => [~overlap /\ ~overlap' => Atomic!Next]_(Atomic!vars)
  BY AtomicStep
<1> QED
  BY <1>1, <1>2, AlwaysInv, PTL DEF Spec, IsAtomic

-----------------------------------------------------------------------------
(* The gateway.                                                            *)

(* How many requests are younger than an age.                              *)

Counts == [Ages -> Nat]
Within(n) == {a \in Ages : a < n}

\* A unit stands for one request: its age, and its number among those.
LEMMA UnitOf ==
    ASSUME NEW f, NEW T, NEW u
    PROVE  u \in Units(f, T) <=> \E a \in T : \E i \in 1 .. f[a] : u = <<a, i>>
BY DEF Units

LEMMA UnitsFinite ==
    ASSUME NEW f \in Counts, NEW n
    PROVE  IsFiniteSet(Units(f, Within(n)))
<1> DEFINE T == Within(n)
           part == [a \in T |-> {a} \X (1 .. f[a])]
           parts == {part[a] : a \in T}
<1>1. IsFiniteSet(T)
  <2>1. IsFiniteSet(Ages)
    BY RateAssumption, FS_Interval DEF Ages
  <2>2. T \subseteq Ages
    BY DEF Within
  <2> QED
    BY <2>1, <2>2, FS_Subset
<1>2. IsFiniteSet(parts)
  <2>1. part \in Surjection(T, parts)
    BY DEF Surjection
  <2> QED
    BY <1>1, <2>1, FS_Surjection
<1>3. \A p \in parts : IsFiniteSet(p)
  <2> SUFFICES ASSUME NEW a \in T PROVE IsFiniteSet({a} \X (1 .. f[a]))
    OBVIOUS
  <2>1. f[a] \in Int
    BY DEF Counts, Within, Ages
  <2>2. IsFiniteSet(1 .. f[a])
    BY <2>1, FS_Interval
  <2>3. IsFiniteSet({a})
    BY FS_Singleton
  <2> QED
    BY <2>2, <2>3, FS_Product
<1>4. Units(f, T) = UNION parts
  BY DEF Units
<1> QED
  BY <1>2, <1>3, <1>4, FS_UNION

LEMMA YoungerType ==
    ASSUME NEW f \in Counts, NEW n
    PROVE  Younger(f, n) \in Nat
BY UnitsFinite, FS_CardinalityType DEF Younger, Weight, Within

\* More requests, or a wider window, do not count less.
LEMMA YoungerGrows ==
    ASSUME NEW f \in Counts, NEW g \in Counts, NEW m, NEW n,
           \A a \in Ages : a < m /\ f[a] > 0 => a < n /\ f[a] <= g[a]
    PROVE  Younger(f, m) <= Younger(g, n)
<1>1. Units(f, Within(m)) \subseteq Units(g, Within(n))
  <2> SUFFICES ASSUME NEW a \in Within(m), NEW i \in 1 .. f[a]
               PROVE  <<a, i>> \in Units(g, Within(n))
    BY UnitOf
  <2>1. a \in Ages /\ f[a] \in Nat /\ g[a] \in Nat /\ a < m
    BY DEF Counts, Within
  <2>2. f[a] > 0
    BY <2>1
  <2>3. a \in Within(n) /\ f[a] <= g[a]
    BY <2>1, <2>2 DEF Within
  <2>4. i \in 1 .. g[a]
    BY <2>1, <2>3
  <2> QED
    BY <2>3, <2>4, UnitOf
<1>2. IsFiniteSet(Units(g, Within(n)))
  BY UnitsFinite
<1> QED
  BY <1>1, <1>2, FS_Subset DEF Younger, Weight, Within

LEMMA YoungerNone ==
    ASSUME NEW f \in Counts, NEW n, \A a \in Ages : a < n => f[a] = 0
    PROVE  Younger(f, n) = 0
<1>1. Units(f, Within(n)) = {}
  <2> SUFFICES ASSUME NEW a \in Within(n), NEW i \in 1 .. f[a] PROVE FALSE
    BY UnitOf
  <2>1. f[a] = 0
    BY DEF Within
  <2> QED
    BY <2>1
<1> QED
  BY <1>1, FS_EmptySet DEF Younger, Weight, Within

LEMMA YoungerSome ==
    ASSUME NEW f \in Counts, NEW n, NEW a \in Ages, a < n, f[a] > 0
    PROVE  Younger(f, n) > 0
<1>1. <<a, 1>> \in Units(f, Within(n))
  <2>1. f[a] \in Nat
    BY DEF Counts
  <2>2. 1 \in 1 .. f[a] /\ a \in Within(n)
    BY <2>1 DEF Within
  <2> QED
    BY <2>2, UnitOf
<1>2. IsFiniteSet(Units(f, Within(n)))
  BY UnitsFinite
<1>3. Cardinality(Units(f, Within(n))) # 0
  BY <1>1, <1>2, FS_EmptySet
<1>4. Cardinality(Units(f, Within(n))) \in Nat
  BY <1>2, FS_CardinalityType
<1>5. Cardinality(Units(f, Within(n))) > 0
  BY <1>3, <1>4
<1> QED
  BY <1>5 DEF Younger, Weight, Within

\* One more request of age b.
LEMMA YoungerRecord ==
    ASSUME NEW f \in Counts, NEW b \in Ages, NEW n
    PROVE  /\ Record(f, b) \in Counts
           /\ Younger(Record(f, b), n) = Younger(f, n) + (IF b < n THEN 1 ELSE 0)
<1> DEFINE g == Record(f, b)
           new == <<b, f[b] + 1>>
<1>1. g \in Counts /\ \A a \in Ages : g[a] = IF a = b THEN f[b] + 1 ELSE f[a]
  BY DEF Record, Counts
<1>2. f[b] \in Nat
  BY DEF Counts
<1> HIDE DEF g
<1>3. CASE ~(b < n)
  <2>1. \A a \in Within(n) : g[a] = f[a]
    BY <1>1, <1>3 DEF Within
  <2>2. Units(g, Within(n)) = Units(f, Within(n))
    BY <2>1 DEF Units
  <2>3. Younger(g, n) = Younger(f, n) /\ Younger(f, n) \in Nat
    BY <2>2, YoungerType DEF Younger, Weight, Within
  <2> QED
    BY <1>1, <1>3, <2>3 DEF g
<1>4. CASE b < n
  <2>1. b \in Within(n)
    BY <1>4 DEF Within
  <2>2. \A i : i \in 1 .. f[b] + 1 <=> i \in 1 .. f[b] \/ i = f[b] + 1
    BY <1>2
  <2>3. Units(g, Within(n)) = Units(f, Within(n)) \cup {new}
    <3>1. ASSUME NEW u \in Units(g, Within(n)) PROVE u \in Units(f, Within(n)) \cup {new}
      <4>1. PICK a \in Within(n) : \E i \in 1 .. g[a] : u = <<a, i>>
        BY <3>1, UnitOf
      <4>2. a \in Ages
        BY DEF Within
      <4>3. CASE a = b
        BY <1>1, <2>1, <2>2, <4>1, <4>2, <4>3, UnitOf
      <4>4. CASE a # b
        BY <1>1, <4>1, <4>2, <4>4, UnitOf
      <4> QED
        BY <4>3, <4>4
    <3>2. new \in Units(g, Within(n))
      BY <1>1, <2>1, <2>2, UnitOf
    <3>3. ASSUME NEW u \in Units(f, Within(n)) PROVE u \in Units(g, Within(n))
      <4>1. PICK a \in Within(n) : \E i \in 1 .. f[a] : u = <<a, i>>
        BY <3>3, UnitOf
      <4>2. a \in Ages
        BY DEF Within
      <4>3. CASE a = b
        BY <1>1, <2>1, <2>2, <4>1, <4>2, <4>3, UnitOf
      <4>4. CASE a # b
        BY <1>1, <4>1, <4>2, <4>4, UnitOf
      <4> QED
        BY <4>3, <4>4
    <3> QED
      BY <3>1, <3>2, <3>3
  <2>4. new \notin Units(f, Within(n))
    <3> SUFFICES ASSUME NEW a \in Within(n), NEW i \in 1 .. f[a], new = <<a, i>>
                 PROVE  FALSE
      BY UnitOf
    <3>1. i = f[b] + 1 /\ a = b
      OBVIOUS
    <3> QED
      BY <1>2, <3>1
  <2>5. IsFiniteSet(Units(f, Within(n)))
    BY UnitsFinite
  <2>6. Cardinality(Units(g, Within(n))) = Cardinality(Units(f, Within(n))) + 1
    BY <2>3, <2>4, <2>5, FS_AddElement
  <2> QED
    BY <1>1, <1>4, <2>6 DEF g, Younger, Weight, Within
<1> QED
  BY <1>3, <1>4

\* A tick later everything is one older.
LEMMA YoungerShift ==
    ASSUME NEW f \in Counts, NEW g \in Counts, NEW n \in 1 .. MaxAge,
           g[0] = 0, \A a \in 1 .. MaxAge : a < n => g[a] = f[a - 1]
    PROVE  Younger(g, n) = Younger(f, n - 1)
<1> DEFINE S == Units(f, Within(n - 1))
           T == Units(g, Within(n))
           older == [u \in S |-> <<u[1] + 1, u[2]>>]
<1>0. MaxAge \in Nat /\ n \in Int
  BY RateAssumption
<1>1. \A a \in Within(n - 1) :
          a \in Nat /\ a + 1 \in Within(n) /\ f[a] \in Nat /\ g[a + 1] = f[a]
  BY <1>0 DEF Within, Ages, Counts
<1>2. \A a \in Within(n) : a # 0 => a - 1 \in Within(n - 1) /\ g[a] = f[a - 1] /\ (a - 1) + 1 = a
  BY <1>0 DEF Within, Ages
<1>3. \A u \in S : u = <<u[1], u[2]>> /\ u[1] \in Within(n - 1) /\ u[2] \in 1 .. f[u[1]]
  BY UnitOf
<1>4. older \in [S -> T]
  <2> SUFFICES ASSUME NEW u \in S PROVE <<u[1] + 1, u[2]>> \in T
    OBVIOUS
  <2>1. u[1] \in Within(n - 1) /\ u[2] \in 1 .. f[u[1]]
    BY <1>3
  <2>2. u[1] + 1 \in Within(n) /\ u[2] \in 1 .. g[u[1] + 1]
    BY <1>1, <2>1
  <2> QED
    BY <2>2, UnitOf
<1>5. \A u, v \in S : older[u] = older[v] => u = v
  <2> SUFFICES ASSUME NEW u \in S, NEW v \in S, older[u] = older[v] PROVE u = v
    OBVIOUS
  <2>1. u[1] + 1 = v[1] + 1 /\ u[2] = v[2]
    OBVIOUS
  <2>2. u[1] \in Nat /\ v[1] \in Nat
    BY <1>1, <1>3
  <2>3. u[1] = v[1]
    BY <2>1, <2>2
  <2> QED
    BY <1>3, <2>1, <2>3
<1>6. \A t \in T : \E u \in S : older[u] = t
  <2> SUFFICES ASSUME NEW t \in T PROVE \E u \in S : older[u] = t
    OBVIOUS
  <2>1. PICK a \in Within(n) : \E j \in 1 .. g[a] : t = <<a, j>>
    BY UnitOf
  <2>2. PICK i \in 1 .. g[a] : t = <<a, i>>
    BY <2>1
  <2>3. a # 0
    OBVIOUS
  <2>4. a - 1 \in Within(n - 1) /\ i \in 1 .. f[a - 1] /\ (a - 1) + 1 = a
    BY <1>2, <2>3
  <2>5. <<a - 1, i>> \in S
    BY <2>4, UnitOf
  <2>6. older[<<a - 1, i>>] = <<a, i>>
    BY <2>4, <2>5
  <2> QED
    BY <2>5, <2>6, <2>2
<1> HIDE DEF S, T, older
<1>7. ExistsBijection(S, T)
  <2>1. older \in Injection(S, T)
    BY <1>4, <1>5 DEF Injection, IsInjective
  <2>2. older \in Surjection(S, T)
    BY <1>4, <1>6 DEF Surjection
  <2>3. older \in Bijection(S, T)
    BY <2>1, <2>2 DEF Bijection
  <2> QED
    BY <2>3 DEF ExistsBijection
<1>8. IsFiniteSet(S)
  BY UnitsFinite DEF S
<1>9. Cardinality(T) = Cardinality(S)
  BY <1>7, <1>8, FS_Bijection
<1> QED
  BY <1>9 DEF S, T, Younger, Weight, Within
-----------------------------------------------------------------------------
(* The inductive invariant.                                                *)

Loose == Shortest - Stall
Adding == {w \in Workers : stage[w] = "add"}

\* A worker that counts has trimmed what its window does not reach.
Trimmed ==
    \A w \in Workers : stage[w] = "count" =>
        \A a \in Ages : a >= rate[w].window + lag[w] => zset[a] = 0

\* The sorted set holds nothing that was not let in, and shows nothing younger
\* than it is.
Accounted ==
    \A n \in 0 .. MaxAge :
        Younger(zset, n) <= Younger(entered.kept, n) + Younger(entered.bare, n)

\* Who was let in and kept is in the sorted set as long as every window reaches
\* back to it, at most Stall older there.
KeptInSet ==
    \A n \in 0 .. Loose : Younger(entered.kept, n) <= Younger(zset, n + Stall)

\* The key outlives what was kept.
KeyOutlives ==
    \A a \in Ages : a < Loose /\ entered.kept[a] > 0 => ttl + a >= 2 * Shortest

\* Each worker that is about to record may add one.
BurstRoom ==
    \E r \in Rates :
        Younger(entered.kept, Loose) + Cardinality(Adding)
            <= r.limit + Cardinality(Workers) - 1

GatewayInv ==
    GatewayTypeOK /\ Trimmed /\ Accounted /\ KeptInSet /\ KeyOutlives /\ BurstRoom

\* The shortest window is that of a rate, and no rate has a shorter one.
LEMMA ShortestWindow ==
    /\ Shortest \in Nat /\ Stall \in Nat /\ MaxAge \in Nat /\ Stall < Shortest
    /\ Shortest + Stall <= MaxAge
    /\ \A r \in Rates : r.window \in Nat /\ Shortest <= r.window /\ r.window + Stall <= MaxAge
                        /\ r.limit \in Nat /\ r.limit >= 1
    /\ Loose \in Nat /\ Loose <= Shortest /\ Loose + Stall = Shortest
    /\ \A n \in 0 .. Loose : n \in Nat /\ n + Stall \in 0 .. MaxAge
<1> DEFINE W == {r.window : r \in Rates}
<1>1. W \subseteq Nat /\ Default \in Rates
  BY RateAssumption DEF Rates
<1>2. W # {}
  BY <1>1
<1> DEFINE Less == {p \in Nat \X Nat : p[1] < p[2]}
<1>3. IsWellFoundedOn(Less, Nat)
  BY NatLessThanWellFounded DEF OpToRel
<1>4. PICK x \in W : \A y \in W : x <= y
  <2>1. PICK x \in W : \A y \in W : <<y, x>> \notin Less
    BY <1>1, <1>2, <1>3, WFMin
  <2> SUFFICES ASSUME NEW y \in W PROVE x <= y
    BY <2>1
  <2>2. x \in Nat /\ y \in Nat
    BY <1>1
  <2>3. <<y, x>> \notin Less
    BY <2>1
  <2>4. ~(y < x)
    BY <2>2, <2>3
  <2> QED
    BY <2>2, <2>4
<1>5. Shortest \in W /\ \A y \in W : Shortest <= y
  BY <1>4 DEF Shortest, Min
<1>6. \A r \in Rates : r.window \in Nat /\ r.window + Stall <= MaxAge
                       /\ r.limit \in Nat /\ r.limit >= 1 /\ Stall < r.window
  BY RateAssumption
<1>7. Stall \in Nat /\ MaxAge \in Nat
  BY RateAssumption
<1>8. Shortest \in Nat /\ Stall < Shortest /\ Shortest + Stall <= MaxAge
  BY <1>5, <1>6
<1> HIDE DEF W
<1>9. \A r \in Rates : Shortest <= r.window
  BY <1>5 DEF W
<1>10. Loose \in Nat /\ Loose <= Shortest /\ Loose + Stall = Shortest
  BY <1>7, <1>8 DEF Loose
<1>11. \A n \in 0 .. Loose : n \in Nat /\ n + Stall \in 0 .. MaxAge
  BY <1>7, <1>8, <1>10
<1> QED
  BY <1>6, <1>7, <1>8, <1>9, <1>10, <1>11

LEMMA CountsOfState ==
    ASSUME GatewayTypeOK
    PROVE  /\ zset \in Counts /\ entered.kept \in Counts /\ entered.bare \in Counts
           /\ \A w \in Workers : rate[w] \in Rates /\ lag[w] \in Nat /\ lag[w] <= Stall
                                 /\ lag[w] \in Ages
BY ShortestWindow DEF GatewayTypeOK, Counts, Ages

LEMMA GatewayStart == GatewayInit => GatewayInv
<1> SUFFICES ASSUME GatewayInit PROVE GatewayInv
  OBVIOUS
<1> USE DEF GatewayInit
<1>1. NoMember \in Counts /\ \A a \in Ages : NoMember[a] = 0
  BY DEF NoMember, Counts
<1>2. \A n : Younger(NoMember, n) = 0
  BY <1>1, YoungerNone
<1>3. GatewayTypeOK
  BY <1>1, ShortestWindow DEF GatewayTypeOK, Counts, Never, Rates
<1>4. Trimmed
  BY DEF Trimmed
<1>5. Accounted
  BY <1>2 DEF Accounted
<1>6. KeptInSet
  BY <1>2 DEF KeptInSet
<1>7. KeyOutlives
  BY <1>1 DEF KeyOutlives
<1>8. BurstRoom
  <2>1. Adding = {}
    BY DEF Adding
  <2>2. Cardinality(Adding) = 0
    BY <2>1, FS_EmptySet
  <2>3. Cardinality(Workers) \in Nat
    BY RateAssumption, FS_CardinalityType
  <2>4. Default \in Rates
    BY DEF Rates
  <2>5. Default.limit \in Nat /\ Default.limit >= 1
    BY <2>4, ShortestWindow
  <2>6. Younger(entered.kept, Loose) = 0
    BY <1>2
  <2>7. Younger(entered.kept, Loose) + Cardinality(Adding)
            <= Default.limit + Cardinality(Workers) - 1
    BY <2>2, <2>3, <2>5, <2>6
  <2> QED
    BY <2>4, <2>7 DEF BurstRoom
<1> QED
  BY <1>3, <1>4, <1>5, <1>6, <1>7, <1>8 DEF GatewayInv

\* One worker moves, and the others do not.
LEMMA GotoMoves ==
    ASSUME GatewayTypeOK, NEW w \in Workers, NEW where, Goto(w, where)
    PROVE  \A v \in Workers : stage'[v] = IF v = w THEN where ELSE stage[v]
BY DEF Goto, GatewayTypeOK

LEMMA AnswerMoves ==
    ASSUME GatewayTypeOK, NEW w \in Workers, Answer(w)
    PROVE  /\ \A v \in Workers : stage'[v] = IF v = w THEN "idle" ELSE stage[v]
           /\ \A v \in Workers : rate'[v] = IF v = w THEN Default ELSE rate[v]
           /\ \A v \in Workers : lag'[v] = IF v = w THEN 0 ELSE lag[v]
BY DEF Answer, Goto, GatewayTypeOK

\* The number of workers about to record, when one moves.
LEMMA AddingMoves ==
    ASSUME NEW w \in Workers, NEW where,
           \A v \in Workers : stage'[v] = IF v = w THEN where ELSE stage[v]
    PROVE  /\ Cardinality(Adding) \in Nat /\ Cardinality(Adding)' \in Nat
           /\ Cardinality(Workers) \in Nat /\ Cardinality(Adding) <= Cardinality(Workers)
           /\ Cardinality(Adding)' <= Cardinality(Workers)
           /\ where # "add" => Cardinality(Adding)' <= Cardinality(Adding)
           /\ where # "add" /\ stage[w] = "add" => Cardinality(Adding)' = Cardinality(Adding) - 1
<1>1. IsFiniteSet(Workers) /\ Cardinality(Workers) \in Nat
  BY RateAssumption, FS_CardinalityType
<1>2. Adding \subseteq Workers /\ Adding' \subseteq Workers
  BY DEF Adding
<1>3. /\ IsFiniteSet(Adding) /\ Cardinality(Adding) <= Cardinality(Workers)
      /\ IsFiniteSet(Adding') /\ Cardinality(Adding') <= Cardinality(Workers)
  BY <1>1, <1>2, FS_Subset
<1>4. Cardinality(Adding) \in Nat /\ Cardinality(Adding') \in Nat
  BY <1>3, FS_CardinalityType
<1>5. where # "add" => Adding' = Adding \ {w}
  BY DEF Adding
<1>6. where # "add" => Cardinality(Adding')
          = IF w \in Adding THEN Cardinality(Adding) - 1 ELSE Cardinality(Adding)
  BY <1>3, <1>5, FS_RemoveElement
<1>7. stage[w] = "add" => w \in Adding
  BY DEF Adding
<1> QED
  BY <1>1, <1>3, <1>4, <1>6, <1>7

\* A step of a worker that leaves the counts alone and records nothing.
LEMMA WorkerMoves ==
    ASSUME GatewayInv, NEW w \in Workers, NEW where, where # "add",
           \A v \in Workers : stage'[v] = IF v = w THEN where ELSE stage[v],
           UNCHANGED entered
    PROVE  BurstRoom'
<1>1. PICK r \in Rates : Younger(entered.kept, Loose) + Cardinality(Adding)
                             <= r.limit + Cardinality(Workers) - 1
  BY DEF GatewayInv, BurstRoom
<1>2. Younger(entered.kept, Loose) \in Nat /\ r.limit \in Nat
  BY CountsOfState, YoungerType, ShortestWindow DEF GatewayInv
<1>3. /\ Cardinality(Adding) \in Nat /\ Cardinality(Adding)' \in Nat
      /\ Cardinality(Workers) \in Nat /\ Cardinality(Adding)' <= Cardinality(Adding)
  BY AddingMoves
<1>4. Younger(entered'.kept, Loose) + Cardinality(Adding)'
          <= r.limit + Cardinality(Workers) - 1
  BY <1>1, <1>2, <1>3
<1> QED
  BY <1>4 DEF BurstRoom
-----------------------------------------------------------------------------
(* The steps.                                                              *)

LEMMA ToggleKeeps ==
    ASSUME GatewayInv, ToggleRule PROVE GatewayInv'
<1>1. PICK r \in Rules : active' = SymDiff(active, {r})
  BY DEF ToggleRule
<1>2. active' \subseteq Rules
  BY <1>1 DEF SymDiff, GatewayInv, GatewayTypeOK
<1>3. UNCHANGED <<zset, ttl, stage, rate, lag, entered>>
  BY DEF ToggleRule, request
<1> QED
  BY <1>2, <1>3 DEF GatewayInv, GatewayTypeOK, Trimmed, Accounted, KeptInSet, KeyOutlives,
                    BurstRoom, Adding

\* The counts stay, one worker moves, and it counts only after it has trimmed.
LEMMA StaysKeeps ==
    ASSUME GatewayInv, NEW w \in Workers, NEW where \in {"idle", "trim", "count"},
           \A v \in Workers : stage'[v] = IF v = w THEN where ELSE stage[v],
           stage' \in [Workers -> {"idle", "trim", "count", "add"}],
           rate' \in [Workers -> Rates], lag' \in [Workers -> 0 .. Stall],
           \A v \in Workers \ {w} : rate'[v] = rate[v] /\ lag'[v] = lag[v],
           where # "count",
           UNCHANGED <<zset, ttl, active, entered>>
    PROVE  GatewayInv'
<1>1. GatewayTypeOK'
  BY DEF GatewayInv, GatewayTypeOK
<1>2. Trimmed'
  BY DEF GatewayInv, Trimmed
<1>3. Accounted' /\ KeptInSet' /\ KeyOutlives'
  BY DEF GatewayInv, Accounted, KeptInSet, KeyOutlives
<1>4. BurstRoom'
  BY WorkerMoves
<1> QED
  BY <1>1, <1>2, <1>3, <1>4 DEF GatewayInv

LEMMA AskKeeps ==
    ASSUME GatewayInv, NEW w \in Workers, Ask(w) PROVE GatewayInv'
<1>0. GatewayTypeOK
  BY DEF GatewayInv
<1>1. PICK p \in Paths : \E r \in RatesFor(p) : rate' = [rate EXCEPT ![w] = r]
  BY DEF Ask
<1>2. PICK r \in RatesFor(p) : rate' = [rate EXCEPT ![w] = r]
  BY <1>1
<1>3. r \in Rates
  BY <1>0 DEF RatesFor, Rates, GatewayTypeOK
<1>4. rate' \in [Workers -> Rates] /\ \A v \in Workers \ {w} : rate'[v] = rate[v]
  BY <1>0, <1>2, <1>3 DEF GatewayTypeOK
<1>5. \A v \in Workers : stage'[v] = IF v = w THEN "trim" ELSE stage[v]
  BY <1>0, GotoMoves DEF Ask
<1>6. stage' \in [Workers -> {"idle", "trim", "count", "add"}]
  BY <1>0 DEF Ask, Goto, GatewayTypeOK
<1>7. lag' \in [Workers -> 0 .. Stall] /\ UNCHANGED <<zset, ttl, active, entered, lag>>
  BY <1>0 DEF Ask, GatewayTypeOK
<1> QED
  BY <1>4, <1>5, <1>6, <1>7, StaysKeeps

\* What an answer leaves of the types.
LEMMA AnswerTypes ==
    ASSUME GatewayTypeOK, NEW w \in Workers, Answer(w)
    PROVE  /\ stage' \in [Workers -> {"idle", "trim", "count", "add"}]
           /\ rate' \in [Workers -> Rates] /\ lag' \in [Workers -> 0 .. Stall]
<1>1. 0 \in 0 .. Stall /\ Default \in Rates
  BY ShortestWindow DEF Rates
<1> QED
  BY <1>1 DEF Answer, Goto, GatewayTypeOK

LEMMA AnswerKeeps ==
    ASSUME GatewayInv, NEW w \in Workers, Refuse(w) \/ Degrade(w) PROVE GatewayInv'
<1>0. GatewayTypeOK
  BY DEF GatewayInv
<1>1. Answer(w) /\ UNCHANGED <<zset, ttl, active, entered>>
  BY DEF Refuse, Degrade
<1> QED
  BY <1>0, <1>1, AnswerMoves, AnswerTypes, StaysKeeps

LEMMA TrimKeeps ==
    ASSUME GatewayInv, NEW w \in Workers, Trim(w) PROVE GatewayInv'
<1> DEFINE bound == rate[w].window + lag[w]
<1>0. GatewayTypeOK
  BY DEF GatewayInv
<1>1. bound \in Nat /\ Shortest <= bound
  BY <1>0, CountsOfState, ShortestWindow
<1> HIDE DEF bound
<1>2. /\ zset' \in Counts
      /\ \A a \in Ages : zset'[a] = IF a >= bound THEN 0 ELSE zset[a]
  BY <1>0 DEF Trim, GatewayTypeOK, Counts, bound
<1>3. /\ \A v \in Workers : stage'[v] = IF v = w THEN "count" ELSE stage[v]
      /\ UNCHANGED <<ttl, active, rate, lag, entered>>
  BY <1>0, GotoMoves DEF Trim
<1>4. GatewayTypeOK'
  BY <1>0, <1>2, <1>3 DEF Trim, Goto, GatewayTypeOK, Counts
<1>5. Trimmed'
  <2> SUFFICES ASSUME NEW v \in Workers, stage'[v] = "count",
                      NEW a \in Ages, a >= rate[v].window + lag[v]
               PROVE  zset'[a] = 0
    BY <1>3 DEF Trimmed
  <2>1. CASE v = w
    BY <1>2, <2>1 DEF bound
  <2>2. CASE v # w
    BY <1>2, <1>3, <2>2 DEF GatewayInv, Trimmed
  <2> QED
    BY <2>1, <2>2
<1>6. zset \in Counts /\ entered.kept \in Counts /\ entered.bare \in Counts
  BY <1>0, CountsOfState
<1>7. \A n : Younger(zset', n) <= Younger(zset, n)
  BY <1>2, <1>6, YoungerGrows DEF Counts
<1>8. Accounted'
  <2> SUFFICES ASSUME NEW n \in 0 .. MaxAge
               PROVE  Younger(zset', n) <= Younger(entered.kept, n) + Younger(entered.bare, n)
    BY <1>3 DEF Accounted
  <2>1. Younger(zset, n) <= Younger(entered.kept, n) + Younger(entered.bare, n)
    BY DEF GatewayInv, Accounted
  <2>2. /\ Younger(zset, n) \in Nat /\ Younger(zset', n) \in Nat
        /\ Younger(entered.kept, n) \in Nat /\ Younger(entered.bare, n) \in Nat
    BY <1>2, <1>6, YoungerType
  <2> QED
    BY <1>7, <2>1, <2>2
<1>9. KeptInSet'
  <2> SUFFICES ASSUME NEW n \in 0 .. Loose
               PROVE  Younger(entered.kept, n) <= Younger(zset', n + Stall)
    BY <1>3 DEF KeptInSet
  <2>1. n \in Nat /\ n + Stall <= bound /\ n + Stall \in Nat
    BY <1>1, ShortestWindow
  <2>2. \A a \in Ages : a < n + Stall => zset'[a] = zset[a]
    BY <1>1, <1>2, <2>1 DEF Ages
  <2>3. Younger(zset, n + Stall) <= Younger(zset', n + Stall)
    BY <1>2, <1>6, <2>2, YoungerGrows DEF Counts
  <2>4. Younger(entered.kept, n) <= Younger(zset, n + Stall)
    BY DEF GatewayInv, KeptInSet
  <2>5. /\ Younger(zset, n + Stall) \in Nat /\ Younger(zset', n + Stall) \in Nat
        /\ Younger(entered.kept, n) \in Nat
    BY <1>2, <1>6, YoungerType
  <2> QED
    BY <2>3, <2>4, <2>5
<1>10. KeyOutlives'
  BY <1>3 DEF GatewayInv, KeyOutlives
<1>11. BurstRoom'
  BY <1>3, WorkerMoves
<1> QED
  BY <1>4, <1>5, <1>8, <1>9, <1>10, <1>11 DEF GatewayInv

\* Whoever is let through has seen every request that every window reaches.
LEMMA LetThroughKeeps ==
    ASSUME GatewayInv, NEW w \in Workers, LetThrough(w) PROVE GatewayInv'
<1>0. GatewayTypeOK
  BY DEF GatewayInv
<1>1. /\ \A v \in Workers : stage'[v] = IF v = w THEN "add" ELSE stage[v]
      /\ UNCHANGED <<zset, ttl, active, rate, lag, entered>>
      /\ Card < rate[w].limit
  BY <1>0, GotoMoves DEF LetThrough
<1>2. GatewayTypeOK'
  BY <1>0, <1>1 DEF LetThrough, Goto, GatewayTypeOK
<1>3. Trimmed'
  BY <1>1 DEF GatewayInv, Trimmed
<1>4. Accounted' /\ KeptInSet' /\ KeyOutlives'
  BY <1>1 DEF GatewayInv, Accounted, KeptInSet, KeyOutlives
<1>5. BurstRoom'
  <2>1. rate[w] \in Rates /\ rate[w].limit \in Nat
    BY <1>0, CountsOfState, ShortestWindow
  <2>2. Loose \in 0 .. Loose /\ Loose + Stall \in Nat
    BY ShortestWindow
  <2>3. Younger(entered.kept, Loose) <= Younger(zset, Loose + Stall)
    BY <2>2 DEF GatewayInv, KeptInSet
  <2>4. Loose + Stall < MaxAge + 1
    BY ShortestWindow
  <2>5. Younger(zset, Loose + Stall) <= Card
    <3>1. \A a \in Ages : a < MaxAge + 1 /\ zset[a] <= zset[a]
      BY <1>0, ShortestWindow, CountsOfState DEF Ages, Counts
    <3> QED
      BY <1>0, <3>1, CountsOfState, YoungerGrows DEF Card
  <2>6. /\ Younger(entered.kept, Loose) \in Nat /\ Younger(zset, Loose + Stall) \in Nat
        /\ Card \in Nat
    BY <1>0, CountsOfState, YoungerType DEF Card
  <2>7. /\ Cardinality(Adding)' \in Nat /\ Cardinality(Workers) \in Nat
        /\ Cardinality(Adding)' <= Cardinality(Workers)
    BY <1>1, AddingMoves
  <2>8. Younger(entered.kept, Loose) + Cardinality(Adding)'
            <= rate[w].limit + Cardinality(Workers) - 1
    BY <1>1, <2>1, <2>3, <2>5, <2>6, <2>7
  <2> QED
    BY <1>1, <2>1, <2>8 DEF BurstRoom
<1> QED
  BY <1>2, <1>3, <1>4, <1>5 DEF GatewayInv
\* A recorded request counts in the sorted set and among those let in.
LEMMA AddKeeps ==
    ASSUME GatewayInv, NEW w \in Workers, Add(w) PROVE GatewayInv'
<1> DEFINE kept == entered.kept
           bare == entered.bare
<1>0. GatewayTypeOK
  BY DEF GatewayInv
<1>1. /\ \A v \in Workers : stage'[v] = IF v = w THEN "idle" ELSE stage[v]
      /\ \A v \in Workers : rate'[v] = IF v = w THEN Default ELSE rate[v]
      /\ \A v \in Workers : lag'[v] = IF v = w THEN 0 ELSE lag[v]
      /\ stage[w] = "add" /\ UNCHANGED active
  BY <1>0, AnswerMoves DEF Add
<1>2. /\ stage' \in [Workers -> {"idle", "trim", "count", "add"}]
      /\ rate' \in [Workers -> Rates] /\ lag' \in [Workers -> 0 .. Stall]
  BY <1>0, AnswerTypes DEF Add
<1>3. /\ kept \in Counts /\ bare \in Counts /\ zset \in Counts
      /\ lag[w] \in Nat /\ lag[w] <= Stall /\ lag[w] \in Ages /\ rate[w] \in Rates
      /\ 0 \in Ages
  BY <1>0, CountsOfState, ShortestWindow DEF Ages
<1>4. /\ zset' = Record(zset, lag[w])
      /\ zset' \in Counts
      /\ \A n : Younger(zset', n) = Younger(zset, n) + (IF lag[w] < n THEN 1 ELSE 0)
  BY <1>3, YoungerRecord DEF Add
<1>5. Record(kept, 0) \in Counts /\ Record(bare, 0) \in Counts
  BY <1>3, YoungerRecord
<1>6. \/ /\ kept' = Record(kept, 0) /\ bare' = bare /\ ttl' = 2 * rate[w].window
      \/ /\ kept' = kept /\ bare' = Record(bare, 0) /\ ttl' = ttl
  BY <1>0 DEF Add, GatewayTypeOK
<1>7. kept' \in Counts /\ bare' \in Counts /\ entered' \in [kept : Counts, bare : Counts]
  BY <1>0, <1>3, <1>5 DEF Add, GatewayTypeOK, Counts
<1> HIDE DEF kept, bare
<1>8. /\ 2 * rate[w].window \in 0 .. 2 * MaxAge
      /\ 2 * Shortest <= 2 * rate[w].window
  BY <1>3, ShortestWindow
<1>9. GatewayTypeOK'
  <2>1. ttl' \in 0 .. 2 * MaxAge
    BY <1>0, <1>6, <1>8 DEF GatewayTypeOK
  <2> QED
    BY <1>0, <1>1, <1>2, <1>4, <1>7, <2>1 DEF GatewayTypeOK, Counts
<1>10. Trimmed'
  <2> SUFFICES ASSUME NEW v \in Workers, stage'[v] = "count",
                      NEW a \in Ages, a >= rate'[v].window + lag'[v]
               PROVE  zset'[a] = 0
    BY DEF Trimmed
  <2>1. v # w /\ stage[v] = "count" /\ rate'[v] = rate[v] /\ lag'[v] = lag[v]
    BY <1>1
  <2>2. zset[a] = 0
    BY <2>1 DEF GatewayInv, Trimmed
  <2>3. rate[v].window \in Nat /\ Shortest <= rate[v].window /\ lag[v] \in Nat
    BY <1>0, CountsOfState, ShortestWindow
  <2>4. a # lag[w]
    BY <1>3, <2>1, <2>3, ShortestWindow DEF Ages
  <2> QED
    BY <1>3, <1>4, <2>2, <2>4 DEF Record, Counts
<1>11. Accounted'
  <2> SUFFICES ASSUME NEW n \in 0 .. MaxAge
               PROVE  Younger(zset', n) <= Younger(kept', n) + Younger(bare', n)
    BY DEF Accounted, kept, bare
  <2>1. Younger(zset, n) <= Younger(kept, n) + Younger(bare, n)
    BY DEF GatewayInv, Accounted, kept, bare
  <2>2. /\ Younger(zset, n) \in Nat /\ Younger(kept, n) \in Nat /\ Younger(bare, n) \in Nat
    BY <1>3, YoungerType
  <2>3. /\ Younger(Record(kept, 0), n) = Younger(kept, n) + (IF 0 < n THEN 1 ELSE 0)
        /\ Younger(Record(bare, 0), n) = Younger(bare, n) + (IF 0 < n THEN 1 ELSE 0)
    BY <1>3, YoungerRecord
  <2>4. Younger(zset', n) = Younger(zset, n) + (IF lag[w] < n THEN 1 ELSE 0)
    BY <1>4
  <2>5. n \in Nat /\ (lag[w] < n => 0 < n)
    BY <1>3
  <2>6. Younger(kept', n) + Younger(bare', n)
            = Younger(kept, n) + Younger(bare, n) + (IF 0 < n THEN 1 ELSE 0)
    BY <1>6, <2>2, <2>3
  <2> QED
    BY <2>1, <2>2, <2>4, <2>5, <2>6
<1>12. KeptInSet'
  <2> SUFFICES ASSUME NEW n \in 0 .. Loose
               PROVE  Younger(kept', n) <= Younger(zset', n + Stall)
    BY DEF KeptInSet, kept
  <2>1. Younger(kept, n) <= Younger(zset, n + Stall)
    BY DEF GatewayInv, KeptInSet, kept
  <2>2. Younger(kept, n) \in Nat /\ Younger(zset, n + Stall) \in Nat
    BY <1>3, YoungerType
  <2>3. Younger(Record(kept, 0), n) = Younger(kept, n) + (IF 0 < n THEN 1 ELSE 0)
    BY <1>3, YoungerRecord
  <2>4. Younger(zset', n + Stall)
            = Younger(zset, n + Stall) + (IF lag[w] < n + Stall THEN 1 ELSE 0)
    BY <1>4
  <2>5. n \in Nat /\ Stall \in Nat /\ (0 < n => lag[w] < n + Stall)
    BY <1>3, ShortestWindow
  <2>6. Younger(kept', n) <= Younger(kept, n) + (IF 0 < n THEN 1 ELSE 0)
    BY <1>6, <2>2, <2>3
  <2>7. Younger(kept', n) \in Nat
    BY <1>7, YoungerType
  <2> QED
    BY <2>1, <2>2, <2>4, <2>5, <2>6, <2>7
<1>13. KeyOutlives'
  <2> SUFFICES ASSUME NEW a \in Ages, a < Loose, kept'[a] > 0
               PROVE  ttl' + a >= 2 * Shortest
    BY DEF KeyOutlives, kept
  <2>1. a \in Nat /\ Shortest \in Nat
    BY ShortestWindow DEF Ages
  <2>2. CASE kept' = Record(kept, 0) /\ ttl' = 2 * rate[w].window
    BY <1>3, <1>8, <2>1, <2>2, ShortestWindow
  <2>3. CASE kept' = kept /\ ttl' = ttl
    BY <2>3 DEF GatewayInv, KeyOutlives, kept
  <2> QED
    BY <1>6, <2>2, <2>3
<1>14. BurstRoom'
  <2>1. PICK r \in Rates : Younger(kept, Loose) + Cardinality(Adding)
                               <= r.limit + Cardinality(Workers) - 1
    BY DEF GatewayInv, BurstRoom, kept
  <2>2. Younger(kept, Loose) \in Nat /\ r.limit \in Nat /\ Younger(kept', Loose) \in Nat
    BY <1>3, <1>7, YoungerType, ShortestWindow
  <2>3. /\ Cardinality(Adding) \in Nat /\ Cardinality(Adding)' = Cardinality(Adding) - 1
        /\ Cardinality(Workers) \in Nat
    BY <1>1, AddingMoves
  <2>4. Younger(kept', Loose) <= Younger(kept, Loose) + 1
    <3>1. Younger(Record(kept, 0), Loose) = Younger(kept, Loose) + (IF 0 < Loose THEN 1 ELSE 0)
      BY <1>3, YoungerRecord
    <3>2. Younger(Record(kept, 0), Loose) <= Younger(kept, Loose) + 1
      BY <2>2, <3>1
    <3> QED
      BY <1>6, <2>2, <3>2
  <2>5. Younger(kept', Loose) + Cardinality(Adding)' <= r.limit + Cardinality(Workers) - 1
    BY <2>1, <2>2, <2>3, <2>4
  <2> QED
    BY <2>5 DEF BurstRoom, kept
<1> QED
  BY <1>9, <1>10, <1>11, <1>12, <1>13, <1>14 DEF GatewayInv

\* What a tick makes of counts by age.
LEMMA OlderCounts ==
    ASSUME NEW f \in Counts
    PROVE  /\ Older(f) \in Counts /\ Fresh(f) \in Counts
           /\ Older(f)[0] = 0 /\ Fresh(f)[0] = 0
           /\ \A a \in Ages \ {0} :
                 a < MaxAge => /\ a - 1 \in Ages
                               /\ Older(f)[a] = f[a - 1] /\ Fresh(f)[a] = f[a - 1]
           /\ Older(f)[MaxAge] = f[MaxAge] + f[MaxAge - 1]
           /\ MaxAge - 1 \in Ages /\ MaxAge \in Ages /\ MaxAge # 0
           /\ Fresh(f)[MaxAge] = 0
           /\ \A n \in 1 .. MaxAge : /\ Younger(Older(f), n) = Younger(f, n - 1)
                                     /\ Younger(Fresh(f), n) = Younger(f, n - 1)
<1>1. MaxAge \in Nat /\ MaxAge >= 1
  BY ShortestWindow
<1>2. 0 \in Ages /\ MaxAge \in Ages /\ MaxAge - 1 \in Ages /\ MaxAge # 0
  BY <1>1 DEF Ages
<1>3. \A a \in Ages : a # 0 => a - 1 \in Ages
  BY <1>1 DEF Ages
<1>4. \A a \in Ages : f[a] \in Nat
  BY DEF Counts
<1>5. Older(f) \in Counts
  <2>1. ASSUME NEW a \in Ages PROVE Older(f)[a] \in Nat
    BY <1>2, <1>3, <1>4 DEF Older
  <2> QED
    BY <2>1 DEF Older, Counts
<1>6. Fresh(f) \in Counts
  <2>1. ASSUME NEW a \in Ages PROVE Fresh(f)[a] \in Nat
    BY <1>3, <1>4 DEF Fresh
  <2> QED
    BY <2>1 DEF Fresh, Counts
<1>7. Older(f)[0] = 0 /\ Fresh(f)[0] = 0 /\ Fresh(f)[MaxAge] = 0
  BY <1>2 DEF Older, Fresh
<1>8. ASSUME NEW a \in Ages \ {0}, a < MaxAge
      PROVE  /\ a - 1 \in Ages
             /\ Older(f)[a] = f[a - 1] /\ Fresh(f)[a] = f[a - 1]
  BY <1>1, <1>3, <1>8 DEF Older, Fresh
<1>9. Older(f)[MaxAge] = f[MaxAge] + f[MaxAge - 1]
  BY <1>2 DEF Older
<1>10. ASSUME NEW n \in 1 .. MaxAge
       PROVE  /\ Younger(Older(f), n) = Younger(f, n - 1)
              /\ Younger(Fresh(f), n) = Younger(f, n - 1)
  <2>1. \A a \in 1 .. MaxAge : a < n => a \in Ages \ {0} /\ a < MaxAge
    BY <1>1 DEF Ages
  <2>2. \A a \in 1 .. MaxAge : a < n => Older(f)[a] = f[a - 1] /\ Fresh(f)[a] = f[a - 1]
    BY <1>8, <2>1
  <2> QED
    BY <1>5, <1>6, <1>7, <2>2, YoungerShift
<1> QED
  BY <1>2, <1>5, <1>6, <1>7, <1>8, <1>9, <1>10

\* Time passes: every bound moves along with what it bounds.
LEMMA ElapseKeeps ==
    ASSUME GatewayInv, Elapse PROVE GatewayInv'
<1> DEFINE kept == entered.kept
           bare == entered.bare
<1>0. GatewayTypeOK
  BY DEF GatewayInv
<1>1. kept \in Counts /\ bare \in Counts /\ zset \in Counts
  BY <1>0, CountsOfState
<1>2. /\ entered' = [kept |-> Fresh(kept), bare |-> Fresh(bare)]
      /\ kept' = Fresh(kept) /\ bare' = Fresh(bare)
      /\ zset' = (IF ttl = 1 THEN NoMember ELSE Older(zset))
      /\ ttl' = (IF ttl = Never \/ zset = NoMember THEN Never ELSE ttl - 1)
      /\ UNCHANGED <<active, stage, rate>>
  BY DEF Elapse
<1>3. kept' \in Counts /\ bare' \in Counts
  BY <1>1, <1>2, OlderCounts
<1>4. NoMember \in Counts /\ (\A a \in Ages : NoMember[a] = 0) /\ \A n : Younger(NoMember, n) = 0
  <2>1. NoMember \in Counts /\ \A a \in Ages : NoMember[a] = 0
    BY DEF NoMember, Counts
  <2> QED
    BY <2>1, YoungerNone
<1>5. zset' \in Counts
  BY <1>1, <1>2, <1>4, OlderCounts
<1>6. \A v \in Workers : stage[v] # "idle" => lag'[v] = lag[v] + 1 /\ lag[v] < Stall
  BY DEF Elapse
<1>7. lag' \in [Workers -> 0 .. Stall]
  <2>1. ASSUME NEW v \in Workers
        PROVE  (IF stage[v] = "idle" THEN 0 ELSE lag[v] + 1) \in 0 .. Stall
    BY <1>0, <1>6, CountsOfState, ShortestWindow
  <2> QED
    BY <2>1 DEF Elapse
<1>8. ttl \in Nat /\ ttl <= 2 * MaxAge
  BY <1>0, ShortestWindow DEF GatewayTypeOK
<1>9. GatewayTypeOK'
  <2>1. ttl' \in 0 .. 2 * MaxAge
    BY <1>2, <1>8, ShortestWindow DEF Never
  <2>2. entered' \in [kept : [Ages -> Nat], bare : [Ages -> Nat]]
    BY <1>1, <1>2, OlderCounts DEF Counts
  <2> QED
    BY <1>0, <1>2, <1>5, <1>7, <2>1, <2>2 DEF GatewayTypeOK, Counts
<1> HIDE DEF kept, bare
<1>10. Trimmed'
  <2> SUFFICES ASSUME NEW v \in Workers, stage[v] = "count",
                      NEW a \in Ages, a >= rate[v].window + lag'[v]
               PROVE  zset'[a] = 0
    BY <1>2 DEF Trimmed
  <2> DEFINE bound == rate[v].window + lag[v]
  <2>1. lag'[v] = lag[v] + 1 /\ lag[v] + 1 <= Stall
    BY <1>0, <1>6, CountsOfState, ShortestWindow
  <2>2. bound \in Nat /\ bound + 1 <= MaxAge /\ a >= bound + 1
    BY <1>0, <2>1, CountsOfState, ShortestWindow
  <2>3. \A b \in Ages : b >= bound => zset[b] = 0
    BY DEF GatewayInv, Trimmed
  <2> HIDE DEF bound
  <2>4. CASE ttl = 1
    BY <1>2, <1>4, <2>4
  <2>5. CASE ttl # 1 /\ a < MaxAge
    <3>1. a \in Ages \ {0} /\ a - 1 >= bound
      BY <2>2 DEF Ages
    <3>2. a - 1 \in Ages /\ zset'[a] = zset[a - 1]
      BY <1>1, <1>2, <2>5, <3>1, OlderCounts
    <3> QED
      BY <2>3, <3>1, <3>2
  <2>6. CASE ttl # 1 /\ a = MaxAge
    <3>1. MaxAge - 1 >= bound /\ MaxAge >= bound
      BY <2>2, ShortestWindow
    <3>2. zset[MaxAge] = 0 /\ zset[MaxAge - 1] = 0
      BY <1>1, <2>3, <3>1, OlderCounts
    <3>3. zset'[MaxAge] = zset[MaxAge] + zset[MaxAge - 1]
      BY <1>1, <1>2, <2>6, OlderCounts
    <3> QED
      BY <2>6, <3>2, <3>3
  <2>7. a < MaxAge \/ a = MaxAge
    BY ShortestWindow DEF Ages
  <2> QED
    BY <2>4, <2>5, <2>6, <2>7
<1>11. Accounted'
  <2> SUFFICES ASSUME NEW n \in 0 .. MaxAge
               PROVE  Younger(zset', n) <= Younger(kept', n) + Younger(bare', n)
    BY DEF Accounted, kept, bare
  <2>1. Younger(zset', n) \in Nat /\ Younger(kept', n) \in Nat /\ Younger(bare', n) \in Nat
    BY <1>3, <1>5, YoungerType
  <2>2. CASE n = 0 \/ ttl = 1
    <3>1. Younger(zset', n) = 0
      <4>1. CASE ttl = 1
        BY <1>2, <1>4, <4>1
      <4>2. CASE n = 0
        BY <1>5, <4>2, YoungerNone DEF Ages
      <4> QED
        BY <2>2, <4>1, <4>2
    <3> QED
      BY <2>1, <3>1
  <2>3. CASE n # 0 /\ ttl # 1
    <3>1. n \in 1 .. MaxAge /\ n - 1 \in 0 .. MaxAge
      BY <2>3, ShortestWindow
    <3>2. /\ Younger(zset', n) = Younger(zset, n - 1)
          /\ Younger(kept', n) = Younger(kept, n - 1)
          /\ Younger(bare', n) = Younger(bare, n - 1)
      BY <1>1, <1>2, <2>3, <3>1, OlderCounts
    <3>3. Younger(zset, n - 1) <= Younger(kept, n - 1) + Younger(bare, n - 1)
      BY <3>1 DEF GatewayInv, Accounted, kept, bare
    <3> QED
      BY <3>2, <3>3
  <2> QED
    BY <2>2, <2>3
\* What is kept and young is in the set, and its key does not expire now.
<1>12. ASSUME NEW a \in Ages, a < Loose, kept'[a] > 0
       PROVE  /\ a \in Ages \ {0} /\ a - 1 \in Ages /\ kept[a - 1] > 0
              /\ ttl # 1 /\ ttl' = ttl - 1 /\ ttl + (a - 1) >= 2 * Shortest
  <2>0. Loose \in Nat /\ Stall \in Nat /\ Shortest \in Nat /\ Loose <= Shortest
        /\ Loose + Stall = Shortest /\ 0 < Shortest /\ MaxAge \in Nat /\ Shortest <= MaxAge
    BY ShortestWindow
  <2>1. a \in Nat /\ a < MaxAge
    BY <1>12, <2>0 DEF Ages
  <2>2. a # 0
    <3>1. kept'[0] = 0
      BY <1>1, <1>2, OlderCounts
    <3> QED
      BY <1>12, <3>1
  <2>3. a - 1 \in Ages /\ kept[a - 1] > 0
    BY <1>1, <1>2, <1>12, <2>1, <2>2, OlderCounts
  <2>4. a - 1 < Loose /\ a \in 0 .. Loose /\ a - 1 < a
    BY <1>12, <2>0, <2>1, <2>2
  <2>5. ttl + (a - 1) >= 2 * Shortest
    BY <2>3, <2>4 DEF GatewayInv, KeyOutlives, kept
  <2>6. ttl > 1
    BY <1>8, <1>12, <2>0, <2>1, <2>2, <2>5
  <2>7. Younger(kept, a) > 0
    BY <1>1, <2>3, <2>4, YoungerSome
  <2>8. Younger(kept, a) <= Younger(zset, a + Stall)
    BY <2>4 DEF GatewayInv, KeptInSet, kept
  <2>9. Younger(kept, a) \in Nat /\ Younger(zset, a + Stall) \in Nat
    BY <1>1, YoungerType
  <2>10. zset # NoMember
    BY <1>4, <2>7, <2>8, <2>9
  <2>11. ttl' = ttl - 1
    BY <1>2, <1>8, <2>6, <2>10 DEF Never
  <2> QED
    BY <2>2, <2>3, <2>5, <2>6, <2>11
<1>13. KeptInSet'
  <2> SUFFICES ASSUME NEW n \in 0 .. Loose
               PROVE  Younger(kept', n) <= Younger(zset', n + Stall)
    BY DEF KeptInSet, kept
  <2>0. n \in Nat /\ Stall \in Nat /\ n + Stall \in 0 .. MaxAge /\ Loose \in Nat
    BY ShortestWindow
  <2>1. Younger(zset', n + Stall) \in Nat
    BY <1>5, YoungerType
  <2>2. CASE \A a \in Ages : a < n => kept'[a] = 0
    <3>1. Younger(kept', n) = 0
      BY <1>3, <2>2, YoungerNone
    <3> QED
      BY <2>1, <3>1
  <2>3. CASE \E a \in Ages : a < n /\ kept'[a] # 0
    <3>1. PICK a \in Ages : a < n /\ kept'[a] # 0
      BY <2>3
    <3>2. kept'[a] > 0 /\ a < Loose
      <4>1. kept'[a] \in Nat
        BY <1>3 DEF Counts
      <4>2. a \in Nat
        BY DEF Ages
      <4> QED
        BY <2>0, <3>1, <4>1, <4>2
    <3>3. ttl # 1
      BY <1>12, <3>2
    <3>4. a \in Nat
      BY DEF Ages
    <3>5. n \in 1 .. MaxAge /\ n + Stall \in 1 .. MaxAge /\ n - 1 \in 0 .. Loose
          /\ (n + Stall) - 1 = (n - 1) + Stall
      <4>1. n >= 1 /\ n <= Loose
        BY <2>0, <3>1, <3>4
      <4>2. MaxAge \in Nat /\ n + Stall <= MaxAge
        BY <2>0, ShortestWindow
      <4> QED
        BY <2>0, <4>1, <4>2
    <3>6. Younger(kept', n) = Younger(kept, n - 1)
      BY <1>1, <1>2, <3>5, OlderCounts
    <3>7. Younger(zset', n + Stall) = Younger(zset, (n + Stall) - 1)
      BY <1>1, <1>2, <3>3, <3>5, OlderCounts
    <3>8. Younger(kept, n - 1) <= Younger(zset, (n - 1) + Stall)
      BY <3>5 DEF GatewayInv, KeptInSet, kept
    <3> QED
      BY <3>5, <3>6, <3>7, <3>8
  <2> QED
    BY <2>2, <2>3
<1>14. KeyOutlives'
  <2> SUFFICES ASSUME NEW a \in Ages, a < Loose, kept'[a] > 0
               PROVE  ttl' + a >= 2 * Shortest
    BY DEF KeyOutlives, kept
  <2>1. ttl' = ttl - 1 /\ ttl + (a - 1) >= 2 * Shortest
    BY <1>12
  <2>2. a \in Nat /\ Shortest \in Nat
    BY ShortestWindow DEF Ages
  <2> QED
    BY <1>8, <2>1, <2>2
<1>15. BurstRoom'
  <2>1. Younger(kept', Loose) <= Younger(kept, Loose)
    <3>0. Loose \in Nat /\ Loose <= MaxAge /\ MaxAge \in Nat
      BY ShortestWindow
    <3>1. CASE Loose = 0
      BY <1>1, <1>3, <3>1, YoungerNone DEF Ages
    <3>2. CASE Loose # 0
      <4>1. Loose \in 1 .. MaxAge
        BY <3>0, <3>2
      <4>2. Younger(kept', Loose) = Younger(kept, Loose - 1)
        BY <1>1, <1>2, <4>1, OlderCounts
      <4>3. \A a \in Ages : a < Loose - 1 => a < Loose /\ kept[a] <= kept[a]
        BY <1>1, <3>0 DEF Counts, Ages
      <4>4. Younger(kept, Loose - 1) <= Younger(kept, Loose)
        BY <1>1, <4>3, YoungerGrows
      <4> QED
        BY <4>2, <4>4
    <3> QED
      BY <3>1, <3>2
  <2>2. PICK r \in Rates : Younger(kept, Loose) + Cardinality(Adding)
                               <= r.limit + Cardinality(Workers) - 1
    BY DEF GatewayInv, BurstRoom, kept
  <2>3. Adding' = Adding
    BY <1>2 DEF Adding
  <2>4. /\ Younger(kept, Loose) \in Nat /\ Younger(kept', Loose) \in Nat
        /\ r.limit \in Nat
    BY <1>1, <1>3, YoungerType, ShortestWindow
  <2>5. Cardinality(Adding) \in Nat /\ Cardinality(Workers) \in Nat
    <3>1. IsFiniteSet(Workers) /\ Adding \subseteq Workers
      BY RateAssumption DEF Adding
    <3> QED
      BY <3>1, FS_Subset, FS_CardinalityType
  <2>6. Younger(kept', Loose) + Cardinality(Adding) <= r.limit + Cardinality(Workers) - 1
    BY <2>1, <2>2, <2>4, <2>5
  <2> QED
    BY <2>3, <2>6 DEF BurstRoom, kept
<1> QED
  BY <1>9, <1>10, <1>11, <1>13, <1>14, <1>15 DEF GatewayInv

LEMMA GatewayStep == GatewayInv /\ [GatewayNext]_gatewayVars => GatewayInv'
<1> SUFFICES ASSUME GatewayInv, [GatewayNext]_gatewayVars PROVE GatewayInv'
  OBVIOUS
<1>1. CASE Elapse
  BY <1>1, ElapseKeeps
<1>2. CASE ToggleRule
  BY <1>2, ToggleKeeps
<1>3. ASSUME NEW w \in Workers, Ask(w) PROVE GatewayInv'
  BY <1>3, AskKeeps
<1>4. ASSUME NEW w \in Workers, Serve(w) PROVE GatewayInv'
  BY <1>4, TrimKeeps, AnswerKeeps, LetThroughKeeps, AddKeeps DEF Serve
<1>5. CASE UNCHANGED gatewayVars
  BY <1>5 DEF gatewayVars, request, GatewayInv, GatewayTypeOK, Trimmed, Accounted, KeptInSet,
              KeyOutlives, BurstRoom, Adding
<1> QED
  BY <1>1, <1>2, <1>3, <1>4, <1>5 DEF GatewayNext

LEMMA GatewayAlways == GatewaySpec => []GatewayInv
BY GatewayStart, GatewayStep, PTL DEF GatewaySpec

\* A burst passes the limit of some rate by the other requests under way only.
THEOREM AlwaysBurstBounded == GatewaySpec => []BurstBounded
<1>1. GatewayInv => BurstBounded
  <2> SUFFICES ASSUME GatewayInv PROVE BurstBounded
    OBVIOUS
  <2>1. PICK r \in Rates : Younger(entered.kept, Loose) + Cardinality(Adding)
                               <= r.limit + Cardinality(Workers) - 1
    BY DEF GatewayInv, BurstRoom
  <2>2. IsFiniteSet(Workers) /\ Adding \subseteq Workers
    BY RateAssumption DEF Adding
  <2>3. Cardinality(Adding) \in Nat /\ Cardinality(Workers) \in Nat
    BY <2>2, FS_Subset, FS_CardinalityType
  <2>4. Younger(entered.kept, Loose) \in Nat /\ r.limit \in Nat
    BY CountsOfState, YoungerType, ShortestWindow DEF GatewayInv
  <2>5. Younger(entered.kept, Loose) <= r.limit + Cardinality(Workers) - 1
    BY <2>1, <2>3, <2>4
  <2> QED
    BY <2>5 DEF BurstBounded, Loose, GatewayInv
<1> QED
  BY <1>1, GatewayAlways, PTL

\* Nothing is refused but over requests that were let in and recorded, within
\* the window and the time two requests take.
THEOREM RefusalsAreDue == GatewaySpec => RefusedAtLimit
<1> DEFINE reach(w) == rate[w].window + lag[w]
           Due == \A w \in Workers : Refuse(w) =>
                      Younger(entered.kept, reach(w)) + Younger(entered.bare, reach(w))
                          >= rate[w].limit
<1>1. GatewayInv => Due
  <2> SUFFICES ASSUME GatewayInv, NEW w \in Workers, Refuse(w)
               PROVE  Younger(entered.kept, reach(w)) + Younger(entered.bare, reach(w))
                          >= rate[w].limit
    OBVIOUS
  <2> DEFINE n == reach(w)
  <2>1. /\ zset \in Counts /\ entered.kept \in Counts /\ entered.bare \in Counts
        /\ rate[w] \in Rates /\ lag[w] \in Nat /\ lag[w] <= Stall
    BY CountsOfState DEF GatewayInv
  <2>2. n \in 0 .. MaxAge /\ rate[w].limit \in Nat
    BY <2>1, ShortestWindow
  <2>3. \A a \in Ages : a >= n => zset[a] = 0
    BY DEF Refuse, GatewayInv, Trimmed
  <2> HIDE DEF n
  <2>4. \A a \in Ages : zset[a] > 0 => a < n
    BY <2>2, <2>3 DEF Ages
  <2>5. Card <= Younger(zset, n)
    BY <2>1, <2>4, YoungerGrows DEF Card, Counts
  <2>6. Younger(zset, n) <= Younger(entered.kept, n) + Younger(entered.bare, n)
    BY <2>2 DEF GatewayInv, Accounted
  <2>7. /\ Card \in Nat /\ Younger(zset, n) \in Nat
        /\ Younger(entered.kept, n) \in Nat /\ Younger(entered.bare, n) \in Nat
    BY <2>1, YoungerType DEF Card
  <2>8. Card >= rate[w].limit
    BY DEF Refuse
  <2> QED
    BY <2>2, <2>5, <2>6, <2>7, <2>8 DEF n
<1>2. GatewaySpec => [][Due]_gatewayVars
  <2>1. GatewayInv /\ [GatewayNext]_gatewayVars => [Due]_gatewayVars
    BY <1>1
  <2> QED
    BY <2>1, GatewayAlways, PTL DEF GatewaySpec
<1>3. [Due]_gatewayVars <=> [\A w \in Workers : Refuse(w) =>
              LET n == rate[w].window + lag[w]
              IN  Younger(entered.kept, n) + Younger(entered.bare, n) >= rate[w].limit]_gatewayVars
  OBVIOUS
<1> QED
  BY <1>2, <1>3, PTL DEF RefusedAtLimit
===============================================================================
