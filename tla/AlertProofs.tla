----------------------------- MODULE AlertProofs -----------------------------
(***************************************************************************)
(* An alert, from the event to its channels.                               *)
(*                                                                         *)
(* The alert engine, however its parts overlap, never reopens an alert and *)
(* suppresses none but for one that was to be announced; it announces once *)
(* in a window and counts every event, but for events that were under way  *)
(* together; and a sweep escalates an alert only to a level it was not at, *)
(* unless sweeps were under way together.  For any number of events, users *)
(* and sweeps, any window and any rules.                                   *)
(*                                                                         *)
(* The notification service sends a content once in the life of its key,   *)
(* and behind a row that says sent there is at any moment a message, a     *)
(* worker, or the deed.  For any number of alerts, contents, channels and  *)
(* workers.                                                                *)
(***************************************************************************)
EXTENDS AlertEngine, Notice, FiniteSetTheorems, SequenceTheorems, TLAPS

\* An event that has not made its row, and one that has made it and is not
\* done with it or has failed to announce it.
Early == {"idle", "lookup", "record", "create", "bump"}
Made == {"announce", "hushed", "mute", "lost"}

\* Rows are made by their own events only; every other step works on a row
\* that exists.
Recorded ==
    /\ \A e \in Events : /\ pc[e] \in Early => ~Exists(e)
                         /\ pc[e] \in Made => Exists(e)
                         /\ pc[e] = "bump" => into[e] \in Rows
    /\ \A s \in Sweeps : sweep[s].todo \subseteq Rows
    /\ told \subseteq Rows /\ pending \subseteq Rows

Announced == \A r \in Rows : r \in told \/ pc[r] \in Made

Base == TypeOK /\ Recorded /\ Announced

-----------------------------------------------------------------------------
(* What the writes of a row do to it.                                      *)

LEMMA NewRow ==
    ASSUME NEW status \in Statuses
    PROVE  /\ Row(status) \in Histories
           /\ Row(status).status = status /\ Row(status).seen = 1
           /\ Row(status).target = 0
BY DEF Row, Histories

LEMMA NoRow == Absent \in Histories /\ Absent.status = "none"
BY DEF Absent, Row, Histories, Statuses

LEMMA SentRow ==
    ASSUME NEW h \in Histories
    PROVE  LET n == [h EXCEPT !.status = "DISPATCHED"] IN
           /\ n \in Histories /\ n.status # "none"
           /\ n.seen = h.seen /\ n.target = h.target
           /\ n.acked = h.acked /\ n.resolved = h.resolved
BY DEF Histories, Statuses

LEMMA BumpedRow ==
    ASSUME NEW h \in Histories, NEW k \in Nat
    PROVE  LET n == [h EXCEPT !.seen = k + 1, !.status = "SUPPRESSED"] IN
           /\ n \in Histories /\ n.status # "none"
           /\ n.seen = k + 1 /\ n.target = h.target
           /\ n.acked = h.acked /\ n.resolved = h.resolved
<1>1. k + 1 \in Nat
  OBVIOUS
<1> DEFINE m == k + 1
<1> HIDE DEF m
<1>2. m \in Nat
  BY <1>1 DEF m
<1>3. [h EXCEPT !.seen = m, !.status = "SUPPRESSED"] \in Histories
  BY <1>2 DEF Histories, Statuses
<1>4. LET n == [h EXCEPT !.seen = m, !.status = "SUPPRESSED"] IN
      /\ n.status # "none" /\ n.seen = m /\ n.target = h.target
      /\ n.acked = h.acked /\ n.resolved = h.resolved
  BY DEF Histories
<1> QED
  BY <1>3, <1>4 DEF m

\* What Bump writes over the row r.
LEMMA BumpedIs ==
    ASSUME NEW r, hist[r] \in Histories, NEW k \in Nat
    PROVE  /\ Bumped(r, k) \in Histories /\ Bumped(r, k).status # "none"
           /\ Bumped(r, k).seen = k + 1 /\ Bumped(r, k).target = hist[r].target
           /\ Bumped(r, k).acked = hist[r].acked
           /\ Bumped(r, k).resolved = hist[r].resolved
<1> DEFINE h == hist[r]
           n == [h EXCEPT !.seen = k + 1, !.status = "SUPPRESSED"]
<1>1. h \in Histories
  OBVIOUS
<1>2. Bumped(r, k) = n
  BY DEF Bumped
<1> HIDE DEF h
<1>3. /\ n \in Histories /\ n.status # "none"
      /\ n.seen = k + 1 /\ n.target = h.target
      /\ n.acked = h.acked /\ n.resolved = h.resolved
  BY <1>1, BumpedRow
<1>4. h = hist[r]
  BY DEF h
<1> HIDE DEF n
<1> QED
  BY <1>2, <1>3, <1>4

LEMMA AckedRow ==
    ASSUME NEW h \in Histories
    PROVE  LET n == [h EXCEPT !.acked = TRUE] IN
           /\ n \in Histories /\ n.status = h.status
           /\ n.seen = h.seen /\ n.target = h.target
           /\ n.acked /\ n.resolved = h.resolved
BY DEF Histories

LEMMA ResolvedRow ==
    ASSUME NEW h \in Histories
    PROVE  LET n == [h EXCEPT !.resolved = TRUE, !.acked = TRUE] IN
           /\ n \in Histories /\ n.status = h.status
           /\ n.seen = h.seen /\ n.target = h.target
           /\ n.acked /\ n.resolved
BY DEF Histories

LEMMA RaisedRow ==
    ASSUME NEW h \in Histories, NEW level \in Nat
    PROVE  LET n == [h EXCEPT !.target = level] IN
           /\ n \in Histories /\ n.status = h.status
           /\ n.seen = h.seen /\ n.target = level
           /\ n.acked = h.acked /\ n.resolved = h.resolved
BY DEF Histories

LEMMA RuleTypes ==
    /\ Len(Escalations) \in Nat /\ 1 \in Rules
    /\ \A k \in Rules : Escalations[k].delay \in Nat /\ Escalations[k].level \in Nat
<1>1. Escalations \in Seq([delay : Nat, level : Nat \ {0}]) /\ Escalations # <<>>
  BY ParameterAssumption
<1>2. Len(Escalations) \in Nat /\ Len(Escalations) > 0
  BY <1>1
<1>3. \A k \in Rules : Escalations[k] \in [delay : Nat, level : Nat \ {0}]
  <2> SUFFICES ASSUME NEW k \in 1 .. Len(Escalations)
               PROVE  Escalations[k] \in [delay : Nat, level : Nat \ {0}]
    BY DEF Rules
  <2> QED
    BY <1>1, ElementOfSeq
<1> QED
  BY <1>2, <1>3 DEF Rules

-----------------------------------------------------------------------------
(* How a sweep goes on.                                                    *)

\* The sweep leaves the row, or turns to its next rule.
LEMMA Advanced ==
    ASSUME TypeOK, NEW s \in Sweeps, NEW r \in Events, NEW level \in Nat,
           Advance(s, r, level)
    PROVE  /\ sweep' \in [Sweeps -> Visits]
           /\ \A o \in Sweeps \ {s} : sweep'[o] = sweep[o]
           /\ sweep'[s].at = sweep[s].at
           /\ \/ /\ sweep[s].rule < Len(Escalations)
                 /\ sweep'[s].todo = sweep[s].todo /\ sweep'[s].reached[r] = level
              \/ /\ sweep[s].rule >= Len(Escalations)
                 /\ sweep'[s].todo = sweep[s].todo \ {r}
           /\ \A q \in Events \ {r} : sweep'[s].reached[q] = sweep[s].reached[q]
<1> DEFINE w == sweep[s]
           on == [w EXCEPT !.row = r, !.rule = w.rule + 1, !.reached[r] = level]
           off == [w EXCEPT !.row = None, !.rule = 1, !.todo = w.todo \ {r},
                            !.due[r] = {}, !.reached[r] = 0]
<1>1. w \in Visits
  BY DEF TypeOK
<1>2. sweep' = [sweep EXCEPT ![s] = IF w.rule < Len(Escalations) THEN on ELSE off]
  BY DEF Advance
<1>3. w.rule \in Rules /\ Len(Escalations) \in Nat
  BY <1>1, RuleTypes DEF Visits
<1>4. ASSUME w.rule < Len(Escalations)
      PROVE  /\ on \in Visits /\ on.at = w.at /\ on.todo = w.todo /\ on.reached[r] = level
             /\ \A q \in Events \ {r} : on.reached[q] = w.reached[q]
  <2>1. w.rule + 1 \in Rules
    BY <1>3, <1>4 DEF Rules
  <2> QED
    BY <1>1, <2>1 DEF Visits
<1>5. /\ off \in Visits /\ off.at = w.at /\ off.todo = w.todo \ {r}
      /\ \A q \in Events \ {r} : off.reached[q] = w.reached[q]
  BY <1>1, RuleTypes DEF Visits
<1> HIDE DEF on, off
<1>6. sweep'[s] = IF w.rule < Len(Escalations) THEN on ELSE off
  BY <1>2 DEF TypeOK
<1>7. \A o \in Sweeps \ {s} : sweep'[o] = sweep[o]
  BY <1>2 DEF TypeOK
<1>8. sweep' \in [Sweeps -> Visits]
  BY <1>2, <1>4, <1>5 DEF TypeOK
<1> QED
  BY <1>3, <1>4, <1>5, <1>6, <1>7, <1>8 DEF Rules

-----------------------------------------------------------------------------
(* The types.                                                              *)

LEMMA Went ==
    ASSUME TypeOK, NEW e \in Events, NEW from,
           NEW to \in {"lookup", "record", "bump", "create", "announce", "done",
                       "hushed", "mute", "lost"},
           Go(e, from, to)
    PROVE  /\ pc[e] = from
           /\ \A f \in Events : pc'[f] = IF f = e THEN to ELSE pc[f]
           /\ pc' \in [Events -> {"idle", "lookup", "record", "bump", "create",
                                  "announce", "done", "hushed", "mute", "lost"}]
BY DEF Go, TypeOK

LEMMA Inserted ==
    ASSUME TypeOK, NEW e \in Events, NEW status \in Statuses, Insert(e, status)
    PROVE  /\ hist' \in [Events -> Histories]
           /\ last' \in [Events -> 0 .. Window + 1] /\ first' \in [Events -> 0 .. Horizon]
           /\ into' \in [Events -> Events \cup {None}]
           /\ \A r \in Events : /\ hist'[r] = IF r = e THEN Row(status) ELSE hist[r]
                                /\ last'[r] = IF r = e THEN 0 ELSE last[r]
                                /\ into'[r] = IF r = e THEN e ELSE into[r]
<1>1. Row(status) \in Histories
  BY NewRow
<1>2. 0 \in 0 .. Window + 1 /\ 0 \in 0 .. Horizon
  BY ParameterAssumption
<1> QED
  BY <1>1, <1>2 DEF Insert, TypeOK

\* Everybody under way and the newcomer see each other from then on.
LEMMA Joined ==
    ASSUME TypeOK, NEW e \in Events, Joins(e)
    PROVE  /\ beside' \in [Events -> SUBSET Events]
           /\ \A f \in Events : beside[f] \subseteq beside'[f]
           /\ \A f \in InFlight : e \in beside'[f] \/ f = e
           /\ InFlight \subseteq beside'[e]
BY DEF Joins, TypeOK, InFlight

LEMMA Rewritten ==
    ASSUME TypeOK, NEW r, NEW n \in Histories, hist' = [hist EXCEPT ![r] = n]
    PROVE  /\ hist' \in [Events -> Histories]
           /\ \A q \in Events : hist'[q] = IF q = r THEN n ELSE hist[q]
BY DEF TypeOK

LEMMA Ticked ==
    ASSUME TypeOK, Tick
    PROVE  /\ last' \in [Events -> 0 .. Window + 1] /\ first' \in [Events -> 0 .. Horizon]
           /\ \A r \in Events : last'[r] >= last[r]
<1>1. Window \in Nat /\ Horizon \in Nat
  BY ParameterAssumption
<1>2. \A r \in Events : last[r] \in 0 .. Window + 1 /\ first[r] \in 0 .. Horizon
  BY DEF TypeOK
<1>3. ASSUME NEW r \in Events
      PROVE  /\ last'[r] \in 0 .. Window + 1 /\ last'[r] >= last[r]
             /\ first'[r] \in 0 .. Horizon
  BY <1>1, <1>2 DEF Tick
<1> QED
  BY <1>3 DEF Tick

\* Evaluations and triggers.
LEMMA TypeEvent ==
    ASSUME Base, NEW e \in Events, Event(e) PROVE TypeOK'
<1> USE DEF alerts, events, sweeps
<1>0. TypeOK
  BY DEF Base
<1>1. CASE Evaluate(e)
  <2>1. pc' \in [Events -> {"idle", "lookup", "record", "bump", "create",
                            "announce", "done", "hushed", "mute", "lost"}]
    BY <1>0, <1>1, Went DEF Evaluate
  <2>2. beside' \in [Events -> SUBSET Events]
    BY <1>0, <1>1, Joined DEF Evaluate
  <2> QED
    BY <1>0, <1>1, <2>1, <2>2 DEF Evaluate, TypeOK
<1>2. ASSUME NEW status \in {"PENDING", "SILENCED"}, Insert(e, status),
             NEW from, NEW to \in {"announce", "hushed", "mute"}, Go(e, from, to),
             Joins(e) \/ UNCHANGED beside,
             UNCHANGED <<count, told, pending, user, sweep, abreast>>
      PROVE  TypeOK'
  <2>1. status \in Statuses
    BY DEF Statuses
  <2>2. beside' \in [Events -> SUBSET Events]
    BY <1>0, <1>2, Joined DEF TypeOK
  <2> QED
    BY <1>0, <1>2, <2>1, <2>2, Inserted, Went DEF TypeOK
<1>3. CASE Lookup(e)
  <2>1. UNCHANGED <<hist, last, first, told, beside, pending, user, sweep, abreast>>
    BY <1>3 DEF Lookup
  <2>2. CASE Go(e, "lookup", "create") /\ UNCHANGED <<into, count>>
    BY <1>0, <2>1, <2>2, Went DEF TypeOK
  <2>3. ASSUME NEW r \in Recent, Go(e, "lookup", "bump"),
               into' = [into EXCEPT ![e] = r], count' = [count EXCEPT ![e] = hist[r].seen]
        PROVE  TypeOK'
    <3>1. r \in Events /\ hist[r].seen \in Nat
      BY <1>0 DEF Recent, Rows, TypeOK, Histories
    <3>2. into' \in [Events -> Events \cup {None}] /\ count' \in [Events -> Nat]
      BY <1>0, <2>3, <3>1 DEF TypeOK
    <3> QED
      BY <1>0, <2>1, <2>3, <3>2, Went DEF TypeOK
  <2> QED
    BY <1>3, <2>2, <2>3 DEF Lookup
<1>4. CASE Bump(e)
  <2>1. hist[into[e]] \in Histories /\ count[e] \in Nat
    BY <1>4 DEF Bump, Go, Base, Recorded, Rows, TypeOK
  <2>2. Bumped(into[e], count[e]) \in Histories
    BY <2>1, BumpedIs
  <2>3. hist' \in [Events -> Histories]
    BY <1>0, <1>4, <2>2, Rewritten DEF Bump
  <2>4. last' \in [Events -> 0 .. Window + 1] /\ count' \in [Events -> Nat]
    <3>1. 0 \in 0 .. Window + 1
      BY ParameterAssumption
    <3>2. last' = [last EXCEPT ![into[e]] = 0] /\ count' = [count EXCEPT ![e] = 0]
      BY <1>4 DEF Bump
    <3> QED
      BY <1>0, <3>1, <3>2 DEF TypeOK
  <2> QED
    BY <1>0, <1>4, <2>3, <2>4, Went DEF Bump, TypeOK
<1>5. CASE Announce(e)
  <2>1. told' \subseteq Events /\ pending' \subseteq Events
    BY <1>0, <1>5 DEF Announce, TypeOK
  <2> QED
    BY <1>0, <1>5, <2>1, Went DEF Announce, TypeOK
<1>6. CASE CrashBeforeAnnounce(e)
  BY <1>0, <1>6, Went DEF CrashBeforeAnnounce, TypeOK
<1> QED
  BY <1>1, <1>2, <1>3, <1>4, <1>5, <1>6
     DEF Event, RecordSilenced, Create, Trigger

\* Workers, users and sweeps.
LEMMA TypeOthers ==
    ASSUME Base,
           \/ \E r \in Events : Dispatch(r) \/ DispatchFails(r)
           \/ \E u \in Users : Call(u)
           \/ \E s \in Sweeps : Sweep(s)
    PROVE  TypeOK'
<1> USE DEF alerts, events, sweeps
<1>0. TypeOK
  BY DEF Base
<1>1. ASSUME NEW r \in Events, Dispatch(r) \/ DispatchFails(r) PROVE TypeOK'
  <2>1. pending' \subseteq Events
    BY <1>0, <1>1 DEF Dispatch, DispatchFails, TypeOK
  <2>2. hist' \in [Events -> Histories]
    <3>1. [hist[r] EXCEPT !.status = "DISPATCHED"] \in Histories
      BY <1>0, SentRow DEF TypeOK
    <3> QED
      BY <1>0, <1>1, <3>1 DEF Dispatch, DispatchFails, TypeOK
  <2> QED
    BY <1>0, <1>1, <2>1, <2>2 DEF Dispatch, DispatchFails, TypeOK
<1>2. ASSUME NEW u \in Users, Call(u) PROVE TypeOK'
  <2>1. CASE ReadRow(u, "ack") \/ ReadRow(u, "resolve")
    <3>1. user' \in [Users -> [kind : {"idle", "ack", "resolve", "done"},
                               row : Events \cup {None}]]
      <4> DEFINE Calls == [kind : {"idle", "ack", "resolve", "done"},
                           row : Events \cup {None}]
      <4>1. PICK call \in Calls : user' = [user EXCEPT ![u] = call]
        <5>1. Finished \in Calls
          BY DEF Finished
        <5>2. \A r \in Rows, kind \in {"ack", "resolve"} : [kind |-> kind, row |-> r] \in Calls
          BY DEF Rows
        <5> QED
          BY <2>1, <5>1, <5>2 DEF ReadRow
      <4> QED
        BY <1>0, <4>1 DEF TypeOK
    <3> QED
      BY <1>0, <2>1, <3>1 DEF ReadRow, TypeOK
  <2>2. CASE Acknowledge(u) \/ Resolve(u)
    <3>1. user' \in [Users -> [kind : {"idle", "ack", "resolve", "done"},
                               row : Events \cup {None}]]
      BY <1>0, <2>2 DEF Acknowledge, Resolve, SaveRow, Finished, TypeOK
    <3>2. hist' \in [Events -> Histories]
      <4> DEFINE r == user[u].row
      <4>1. CASE r \in Events
        <5>1. /\ [hist[r] EXCEPT !.acked = TRUE] \in Histories
              /\ [hist[r] EXCEPT !.resolved = TRUE, !.acked = TRUE] \in Histories
          BY <1>0, <4>1, AckedRow, ResolvedRow DEF TypeOK
        <5> QED
          BY <1>0, <2>2, <5>1, Rewritten DEF Acknowledge, Resolve, SaveRow
      <4>2. CASE r \notin Events
        BY <1>0, <2>2, <4>2 DEF Acknowledge, Resolve, SaveRow, TypeOK
      <4> QED
        BY <4>1, <4>2
    <3> QED
      BY <1>0, <2>2, <3>1, <3>2 DEF Acknowledge, Resolve, SaveRow, TypeOK
  <2> QED
    BY <1>2, <2>1, <2>2 DEF Call
<1>3. ASSUME NEW s \in Sweeps, StartSweep(s) PROVE TypeOK'
  <2> DEFINE open == {r \in Rows : ~hist[r].resolved}
             read == [at |-> "rows", todo |-> open, row |-> None, rule |-> 1,
                      due |-> [r \in Events |-> IF r \in open THEN Due(r) ELSE {}],
                      reached |-> [r \in Events |-> IF r \in open THEN hist[r].target ELSE 0]]
  <2>1. open \subseteq Events
    BY DEF Rows
  <2>2. \A r \in Events : hist[r].target \in Nat /\ Due(r) \subseteq Rules
    BY <1>0 DEF TypeOK, Histories, Due
  <2>3. read \in Visits
    <3> HIDE DEF open
    <3> QED
      BY <2>1, <2>2, RuleTypes DEF Visits
  <2>4. sweep' = [sweep EXCEPT ![s] = read]
    BY <1>3 DEF StartSweep
  <2> HIDE DEF read
  <2>5. sweep' \in [Sweeps -> Visits]
    BY <1>0, <2>3, <2>4 DEF TypeOK
  <2> QED
    BY <1>0, <1>3, <2>5 DEF StartSweep, TypeOK
<1>4. ASSUME NEW s \in Sweeps, NEW r \in Events, Escalate(s, r) PROVE TypeOK'
  <2>1. sweep[s].rule \in Rules
    BY <1>0 DEF TypeOK, Visits
  <2> DEFINE k == sweep[s].rule
             level == Escalations[k].level
  <2>2. level \in Nat
    BY <2>1, RuleTypes
  <2>3. sweep' \in [Sweeps -> Visits]
    BY <1>0, <1>4, <2>2, Advanced DEF Escalate
  <2>4. hist' \in [Events -> Histories]
    <3>1. [hist[r] EXCEPT !.target = level] \in Histories
      BY <1>0, <2>2, RaisedRow DEF TypeOK
    <3>2. hist' = [hist EXCEPT ![r] = [hist[r] EXCEPT !.target = level]]
      BY <1>4 DEF Escalate
    <3> QED
      BY <1>0, <3>1, <3>2, Rewritten
  <2>5. pending' \subseteq Events
    BY <1>0, <1>4 DEF Escalate, TypeOK
  <2> QED
    BY <1>0, <1>4, <2>3, <2>4, <2>5 DEF Escalate, TypeOK
<1>5. ASSUME NEW s \in Sweeps, NEW r \in Events, Skip(s, r) PROVE TypeOK'
  <2>1. sweep[s].reached[r] \in Nat
    BY <1>0 DEF TypeOK, Visits
  <2>2. sweep' \in [Sweeps -> Visits]
    BY <1>0, <1>5, <2>1, Advanced DEF Skip
  <2> QED
    BY <1>0, <1>5, <2>2 DEF Skip, TypeOK
<1>6. ASSUME NEW s \in Sweeps, EndSweep(s) PROVE TypeOK'
  <2>1. NotStarted \in Visits
    BY RuleTypes DEF NotStarted, Visits
  <2>2. sweep' \in [Sweeps -> Visits]
    BY <1>0, <1>6, <2>1 DEF EndSweep, TypeOK
  <2> QED
    BY <1>0, <1>6, <2>2 DEF EndSweep, TypeOK
<1> QED
  BY <1>1, <1>2, <1>3, <1>4, <1>5, <1>6 DEF Sweep

LEMMA TypeStep == Base /\ [Next]_vars => TypeOK'
<1> SUFFICES ASSUME Base, [Next]_vars PROVE TypeOK'
  OBVIOUS
<1>1. CASE Tick
  <2>1. TypeOK
    BY DEF Base
  <2> QED
    BY <1>1, <2>1, Ticked DEF Tick, TypeOK, events, sweeps
<1>2. CASE UNCHANGED vars
  BY <1>2 DEF Base, TypeOK, vars, alerts, events, sweeps
<1> QED
  BY <1>1, <1>2, TypeEvent, TypeOthers DEF Next

-----------------------------------------------------------------------------
(* Which rows exist.                                                       *)

LEMMA InitBase == Init => Base
<1> SUFFICES ASSUME Init PROVE Base
  OBVIOUS
<1> USE ParameterAssumption
<1>1. hist \in [Events -> Histories] /\ \A r \in Events : ~Exists(r)
  BY NoRow DEF Init, Exists
<1>2. sweep \in [Sweeps -> Visits] /\ \A s \in Sweeps : sweep[s].todo = {}
  <2>1. NotStarted \in Visits /\ NotStarted.todo = {}
    BY RuleTypes DEF NotStarted, Visits
  <2> QED
    BY <2>1 DEF Init
<1>3. TypeOK
  BY <1>1, <1>2 DEF Init, TypeOK
<1>4. Recorded /\ Announced
  BY <1>1, <1>2 DEF Init, Recorded, Announced, Made, Rows
<1> QED
  BY <1>3, <1>4 DEF Base

\* A step that makes no row and moves no event.
LEMMA KeepsEvents ==
    ASSUME Base, \A r \in Events : Exists(r)' <=> Exists(r),
           UNCHANGED <<pc, into, told>>, pending' \subseteq Rows,
           \A s \in Sweeps : sweep'[s].todo \subseteq Rows
    PROVE  Recorded' /\ Announced'
<1>1. Rows' = Rows
  BY DEF Rows
<1> QED
  BY <1>1 DEF Base, Recorded, Announced

\* A step of an event that makes no row.
LEMMA KeepsRows ==
    ASSUME Base, \A r \in Events : Exists(r)' <=> Exists(r),
           UNCHANGED <<sweep, told, pending>>,
           NEW e \in Events, NEW from \in Early,
           NEW to \in {"lookup", "record", "create", "bump", "done"}, Go(e, from, to),
           \A f \in Events \ {e} : into'[f] = into[f],
           to = "bump" => into'[e] \in Rows
    PROVE  Recorded' /\ Announced'
<1>1. Rows' = Rows
  BY DEF Rows
<1>0. pc[e] = from /\ \A f \in Events : pc'[f] = IF f = e THEN to ELSE pc[f]
  BY Went DEF Base
<1>2. Recorded'
  BY <1>0, <1>1 DEF Base, Recorded, Early, Made
<1>3. Announced'
  BY <1>0, <1>1 DEF Base, Announced, Recorded, Early, Made, Rows
<1> QED
  BY <1>2, <1>3

\* An event makes its row.
LEMMA MakesRow ==
    ASSUME Base, NEW e \in Events, NEW status \in Statuses \ {"none"}, Insert(e, status),
           NEW from \in Early, NEW to \in {"announce", "hushed", "mute"}, Go(e, from, to),
           UNCHANGED <<sweep, told, pending>>
    PROVE  Recorded' /\ Announced'
<1>1. /\ \A f \in Events : pc'[f] = IF f = e THEN to ELSE pc[f]
      /\ \A r \in Events : hist'[r] = IF r = e THEN Row(status) ELSE hist[r]
      /\ \A f \in Events \ {e} : into'[f] = into[f]
  BY Went, Inserted DEF Base
<1>2. Rows' = Rows \cup {e}
  BY <1>1, NewRow DEF Rows, Exists
<1>3. \A r \in Events : Exists(r)' <=> Exists(r) \/ r = e
  BY <1>1, NewRow DEF Exists
<1>4. Recorded'
  BY <1>1, <1>2, <1>3 DEF Base, Recorded, Early, Made
<1>5. Announced'
  BY <1>1, <1>2 DEF Base, Announced, Rows, Made
<1> QED
  BY <1>4, <1>5

LEMMA BaseEvent ==
    ASSUME Base, NEW e \in Events, Event(e) PROVE Recorded' /\ Announced'
<1> USE DEF alerts, events, sweeps
<1>0. TypeOK
  BY DEF Base
<1>1. CASE Evaluate(e)
  <2>1. PICK to \in {"record", "lookup"} : Go(e, "idle", to)
    BY <1>1 DEF Evaluate
  <2>2. "idle" \in Early /\ to # "bump"
    BY DEF Early
  <2>3. \A r \in Events : Exists(r)' <=> Exists(r)
    BY <1>1 DEF Evaluate, Exists
  <2>4. UNCHANGED <<sweep, told, pending, into>>
    BY <1>1 DEF Evaluate
  <2> QED
    BY <2>1, <2>2, <2>3, <2>4, KeepsRows
<1>2. CASE RecordSilenced(e)
  BY <1>2, MakesRow DEF RecordSilenced, Statuses, Early
<1>3. CASE Create(e) \/ Trigger(e)
  BY <1>3, MakesRow DEF Create, Trigger, Statuses, Early
<1>4. CASE Lookup(e)
  <2>1. PICK to \in {"create", "bump"} :
            Go(e, "lookup", to) /\ (to = "bump" => into'[e] \in Rows)
            /\ \A f \in Events \ {e} : into'[f] = into[f]
    BY <1>0, <1>4 DEF Lookup, Recent, TypeOK
  <2>2. "lookup" \in Early
    BY DEF Early
  <2>3. \A r \in Events : Exists(r)' <=> Exists(r)
    BY <1>4 DEF Lookup, Exists
  <2>4. UNCHANGED <<sweep, told, pending>>
    BY <1>4 DEF Lookup
  <2> QED
    BY <2>1, <2>2, <2>3, <2>4, KeepsRows
<1>5. CASE Bump(e)
  <2>1. pc[e] = "bump" /\ Go(e, "bump", "done")
    BY <1>5 DEF Bump, Go
  <2>2. into[e] \in Events /\ Exists(into[e]) /\ count[e] \in Nat
    BY <1>0, <2>1 DEF Base, Recorded, Rows, TypeOK
  <2>3. Bumped(into[e], count[e]) \in Histories /\ Bumped(into[e], count[e]).status # "none"
    <3>1. hist[into[e]] \in Histories
      BY <1>0, <2>2 DEF TypeOK
    <3> QED
      BY <2>2, <3>1, BumpedIs
  <2>4. \A r \in Events : Exists(r)' <=> Exists(r)
    BY <1>0, <1>5, <2>2, <2>3, Rewritten DEF Bump, Exists
  <2>5. UNCHANGED <<sweep, told, pending, into>>
    BY <1>5 DEF Bump
  <2>6. "bump" \in Early
    BY DEF Early
  <2> QED
    BY <2>1, <2>4, <2>5, <2>6, KeepsRows
<1>6. CASE Announce(e)
  <2>1. pc[e] = "announce" /\ \A f \in Events : pc'[f] = IF f = e THEN "done" ELSE pc[f]
    BY <1>0, <1>6, Went DEF Announce
  <2>2. Rows' = Rows /\ \A r \in Events : Exists(r)' <=> Exists(r)
    BY <1>6 DEF Announce, Rows, Exists
  <2>3. pending' = pending \cup {e}
    BY <1>6 DEF Announce
  <2>4. told' = told \cup {e} /\ e \in Rows /\ UNCHANGED <<into, sweep>>
    BY <1>6, <2>1 DEF Announce, Base, Recorded, Made, Rows
  <2>5. Recorded'
    BY <2>1, <2>2, <2>3, <2>4 DEF Base, Recorded, Early, Made, Rows
  <2>6. Announced'
    BY <2>1, <2>2, <2>4 DEF Base, Announced, Made, Rows
  <2> QED
    BY <2>5, <2>6
<1>7. CASE CrashBeforeAnnounce(e)
  <2>1. pc[e] = "announce" /\ \A f \in Events : pc'[f] = IF f = e THEN "lost" ELSE pc[f]
    BY <1>0, <1>7, Went DEF CrashBeforeAnnounce
  <2>2. Rows' = Rows /\ \A r \in Events : Exists(r)' <=> Exists(r)
    BY <1>7 DEF CrashBeforeAnnounce, Rows, Exists
  <2>3. UNCHANGED <<sweep, told, pending, into>>
    BY <1>7 DEF CrashBeforeAnnounce
  <2>4. Recorded'
    BY <2>1, <2>2, <2>3 DEF Base, Recorded, Early, Made, Rows
  <2>5. Announced'
    BY <2>1, <2>2, <2>3 DEF Base, Announced, Made, Rows
  <2> QED
    BY <2>4, <2>5
<1> QED
  BY <1>1, <1>2, <1>3, <1>4, <1>5, <1>6, <1>7 DEF Event

-----------------------------------------------------------------------------
(* What a step writes.                                                     *)

\* Rows stay, are counted as before, and nothing is taken back.
Forward ==
    \A r \in Events : /\ Exists(r)' <=> Exists(r)
                      /\ hist'[r].seen = hist[r].seen
                      /\ hist[r].acked => hist'[r].acked
                      /\ hist[r].resolved => hist'[r].resolved

LEMMA ForwardRow ==
    ASSUME TypeOK, NEW r \in Events, NEW n \in Histories,
           hist' = [hist EXCEPT ![r] = n],
           n.status # "none" <=> Exists(r), n.seen = hist[r].seen,
           hist[r].acked => n.acked, hist[r].resolved => n.resolved
    PROVE  Forward
<1>1. \A q \in Events : hist'[q] = IF q = r THEN n ELSE hist[q]
  BY Rewritten
<1> QED
  BY <1>1 DEF Forward, Exists

\* Workers, users and sweeps touch neither the events nor the times.
Background ==
    \/ \E r \in Events : Dispatch(r) \/ DispatchFails(r)
    \/ \E u \in Users : Call(u)
    \/ \E s \in Sweeps : Sweep(s)

LEMMA BackgroundKeeps ==
    Background => UNCHANGED <<pc, into, count, told, beside, last, first>>
BY DEF Background, Call, Sweep, Dispatch, DispatchFails, ReadRow, Acknowledge,
       Resolve, SaveRow, StartSweep, EndSweep, Escalate, Skip, events, alerts

LEMMA BackgroundForward ==
    ASSUME Base, Background PROVE Forward
<1> USE DEF alerts
<1>0. TypeOK /\ \A r \in Events : hist[r] \in Histories
  BY DEF Base, TypeOK
<1>1. ASSUME NEW r \in Events, Dispatch(r) PROVE Forward
  <2>1. Exists(r)
    BY <1>1 DEF Dispatch, Base, Recorded, Rows
  <2> DEFINE n == [hist[r] EXCEPT !.status = "DISPATCHED"]
  <2>2. /\ n \in Histories /\ n.status # "none" /\ n.seen = hist[r].seen
        /\ n.acked = hist[r].acked /\ n.resolved = hist[r].resolved
    BY <1>0, SentRow
  <2>3. hist' = [hist EXCEPT ![r] = n]
    BY <1>1 DEF Dispatch
  <2> HIDE DEF n
  <2> QED
    BY <1>0, <2>1, <2>2, <2>3, ForwardRow
<1>2. ASSUME UNCHANGED hist PROVE Forward
  BY <1>2 DEF Forward, Exists
<1>3. ASSUME NEW u \in Users, Acknowledge(u) \/ Resolve(u) PROVE Forward
  <2> DEFINE r == user[u].row
  <2>1. CASE r \in Events
    <3>1. PICK n \in Histories :
              /\ n.status = hist[r].status /\ n.seen = hist[r].seen
              /\ n.acked /\ (hist[r].resolved => n.resolved)
              /\ hist' = [hist EXCEPT ![r] = n]
      <4>1. CASE Acknowledge(u)
        BY <1>0, <2>1, <4>1, AckedRow DEF Acknowledge, SaveRow
      <4>2. CASE Resolve(u)
        BY <1>0, <2>1, <4>2, ResolvedRow DEF Resolve, SaveRow
      <4> QED
        BY <1>3, <4>1, <4>2
    <3> HIDE DEF r
    <3> QED
      BY <1>0, <2>1, <3>1, ForwardRow DEF Exists
  <2>2. CASE r \notin Events
    <3>1. \A q \in Events : hist'[q] = hist[q]
      BY <1>0, <1>3, <2>2 DEF Acknowledge, Resolve, SaveRow, TypeOK
    <3> QED
      BY <3>1 DEF Forward, Exists
  <2> QED
    BY <2>1, <2>2
<1>4. ASSUME NEW s \in Sweeps, NEW r \in Events, Escalate(s, r) PROVE Forward
  <2> DEFINE level == Escalations[sweep[s].rule].level
             n == [hist[r] EXCEPT !.target = level]
  <2>1. level \in Nat
    BY <1>0, RuleTypes DEF TypeOK, Visits
  <2>2. /\ n \in Histories /\ n.status = hist[r].status /\ n.seen = hist[r].seen
        /\ n.acked = hist[r].acked /\ n.resolved = hist[r].resolved
    BY <1>0, <2>1, RaisedRow
  <2>3. hist' = [hist EXCEPT ![r] = n]
    BY <1>4 DEF Escalate
  <2> HIDE DEF n
  <2> QED
    BY <1>0, <2>2, <2>3, ForwardRow DEF Exists
<1>5. \A r \in Events : DispatchFails(r) => UNCHANGED hist
  BY DEF DispatchFails
<1>6. \A u \in Users : ReadRow(u, "ack") \/ ReadRow(u, "resolve") => UNCHANGED hist
  BY DEF ReadRow
<1>7. \A s \in Sweeps : /\ StartSweep(s) \/ EndSweep(s) => UNCHANGED hist
                        /\ \A r \in Events : Skip(s, r) => UNCHANGED hist
  BY DEF StartSweep, EndSweep, Skip
<1> QED
  BY <1>1, <1>2, <1>3, <1>4, <1>5, <1>6, <1>7 DEF Background, Call, Sweep

\* An event inserts its row or raises the count of one, and leaves the other
\* rows alone.
LEMMA EventWrites ==
    ASSUME Base, NEW e \in Events, Event(e)
    PROVE  \A r \in Rows : /\ Exists(r)' /\ hist'[r].target = hist[r].target
                           /\ hist[r].acked => hist'[r].acked
                           /\ hist[r].resolved => hist'[r].resolved
<1> USE DEF alerts
<1>0. TypeOK /\ \A r \in Events : hist[r] \in Histories
  BY DEF Base, TypeOK
<1>1. ASSUME NEW status \in Statuses, Insert(e, status), pc[e] \in Early
      PROVE  \A r \in Rows : hist'[r] = hist[r]
  <2>1. \A r \in Events : r # e => hist'[r] = hist[r]
    BY <1>0, <1>1, Inserted
  <2>2. e \notin Rows
    BY <1>1 DEF Base, Recorded, Rows
  <2> QED
    BY <2>1, <2>2 DEF Rows
<1>2. CASE RecordSilenced(e) \/ Create(e) \/ Trigger(e)
  <2>1. \A r \in Rows : hist'[r] = hist[r]
    BY <1>1, <1>2 DEF RecordSilenced, Create, Trigger, Go, Early, Statuses
  <2> QED
    BY <2>1 DEF Rows, Exists
<1>3. CASE Bump(e)
  <2>1. into[e] \in Events /\ count[e] \in Nat
    BY <1>3 DEF Base, Recorded, Rows, TypeOK, Bump, Go
  <2> DEFINE n == Bumped(into[e], count[e])
  <2>2. /\ n \in Histories /\ n.status # "none" /\ n.target = hist[into[e]].target
        /\ n.acked = hist[into[e]].acked /\ n.resolved = hist[into[e]].resolved
    <3>1. hist[into[e]] \in Histories
      BY <1>0, <2>1 DEF TypeOK
    <3> QED
      BY <2>1, <3>1, BumpedIs
  <2>3. hist' = [hist EXCEPT ![into[e]] = n]
    BY <1>3 DEF Bump
  <2> HIDE DEF n
  <2>4. \A q \in Events : hist'[q] = IF q = into[e] THEN n ELSE hist[q]
    BY <1>0, <2>2, <2>3, Rewritten
  <2> QED
    BY <2>2, <2>4 DEF Rows, Exists
<1>4. CASE Evaluate(e) \/ Lookup(e) \/ Announce(e) \/ CrashBeforeAnnounce(e)
  BY <1>4 DEF Evaluate, Lookup, Announce, CrashBeforeAnnounce, Rows, Exists
<1> QED
  BY <1>2, <1>3, <1>4 DEF Event

\* The rows a sweep has still to visit exist.
LEMMA SweepStep ==
    ASSUME Base, Background
    PROVE  \A s \in Sweeps : sweep'[s].todo \subseteq Rows
<1>0. TypeOK /\ \A s \in Sweeps : sweep[s].todo \subseteq Rows
  BY DEF Base, Recorded
<1>1. ASSUME NEW s \in Sweeps, StartSweep(s)
      PROVE  \A o \in Sweeps : sweep'[o].todo \subseteq Rows
  <2>1. \A o \in Sweeps : o # s => sweep'[o] = sweep[o]
    BY <1>0, <1>1 DEF StartSweep, TypeOK
  <2>2. sweep'[s].todo = {r \in Rows : ~hist[r].resolved}
    BY <1>0, <1>1 DEF StartSweep, TypeOK
  <2> QED
    BY <1>0, <2>1, <2>2
<1>2. ASSUME NEW s \in Sweeps, EndSweep(s)
      PROVE  \A o \in Sweeps : sweep'[o].todo \subseteq Rows
  <2>1. \A o \in Sweeps : o # s => sweep'[o] = sweep[o]
    BY <1>0, <1>2 DEF EndSweep, TypeOK
  <2>2. sweep'[s].todo = {}
    BY <1>0, <1>2 DEF EndSweep, NotStarted, TypeOK
  <2> QED
    BY <1>0, <2>1, <2>2
<1>3. ASSUME NEW s \in Sweeps, NEW r \in Events, NEW level \in Nat, Advance(s, r, level)
      PROVE  \A o \in Sweeps : sweep'[o].todo \subseteq Rows
  BY <1>0, <1>3, Advanced
<1>4. ASSUME NEW s \in Sweeps, NEW r \in Events, Escalate(s, r) \/ Skip(s, r)
      PROVE  \E level \in Nat : Advance(s, r, level)
  <2>1. Escalations[sweep[s].rule].level \in Nat /\ sweep[s].reached[r] \in Nat
    BY <1>0, RuleTypes DEF TypeOK, Visits
  <2> QED
    BY <1>4, <2>1 DEF Escalate, Skip
<1>5. CASE \E s \in Sweeps : Sweep(s)
  BY <1>1, <1>2, <1>3, <1>4, <1>5 DEF Sweep
<1>6. CASE \/ \E r \in Events : Dispatch(r) \/ DispatchFails(r)
           \/ \E u \in Users : Call(u)
  <2>1. sweep' = sweep
    BY <1>6 DEF Dispatch, DispatchFails, Call, ReadRow, Acknowledge, Resolve, SaveRow, sweeps
  <2> QED
    BY <1>0, <2>1
<1> QED
  BY <1>5, <1>6 DEF Background

LEMMA BaseStep == Base /\ [Next]_vars => Base'
<1> SUFFICES ASSUME Base, [Next]_vars PROVE Base'
  OBVIOUS
<1>0. TypeOK'
  BY TypeStep
<1>1. CASE \E e \in Events : Event(e)
  BY <1>0, <1>1, BaseEvent DEF Base
<1>2. CASE Background
  <2>1. UNCHANGED <<pc, into, told>> /\ \A r \in Events : Exists(r)' <=> Exists(r)
    BY <1>2, BackgroundKeeps, BackgroundForward DEF Forward
  <2>2. pending' \subseteq Rows
    <3>1. CASE \E r \in Events : Dispatch(r) \/ DispatchFails(r)
      BY <3>1 DEF Dispatch, DispatchFails, Base, Recorded
    <3>2. CASE \E s \in Sweeps, r \in Events : Escalate(s, r)
      <4>1. PICK s \in Sweeps, r \in Events : Escalate(s, r)
        BY <3>2
      <4>2. r \in Rows
        BY <4>1 DEF Escalate, Turn, Base, Recorded
      <4> QED
        BY <4>1, <4>2 DEF Escalate, Base, Recorded
    <3>3. CASE \/ \E u \in Users : Call(u)
               \/ \E s \in Sweeps : StartSweep(s) \/ EndSweep(s)
               \/ \E s \in Sweeps, r \in Events : Skip(s, r)
      BY <3>3 DEF Call, ReadRow, Acknowledge, Resolve, SaveRow, StartSweep, EndSweep, Skip,
                  Base, Recorded
    <3> QED
      BY <1>2, <3>1, <3>2, <3>3 DEF Background, Sweep
  <2> QED
    BY <1>0, <1>2, <2>1, <2>2, SweepStep, KeepsEvents DEF Base
<1>3. CASE Tick
  <2>1. UNCHANGED <<hist, pc, into, told, pending, sweep>>
    BY <1>3 DEF Tick, events, sweeps
  <2>2. \A r \in Events : Exists(r)' <=> Exists(r)
    BY <2>1 DEF Exists
  <2>3. pending' \subseteq Rows /\ \A s \in Sweeps : sweep'[s].todo \subseteq Rows
    BY <2>1 DEF Base, Recorded
  <2> QED
    BY <1>0, <2>1, <2>2, <2>3, KeepsEvents DEF Base
<1>4. CASE UNCHANGED vars
  BY <1>0, <1>4 DEF Base, Recorded, Announced, Rows, Exists, vars, alerts, events, sweeps
<1> QED
  BY <1>1, <1>2, <1>3, <1>4 DEF Next, Background

LEMMA AlwaysBase == Spec => []Base
BY InitBase, BaseStep, PTL DEF Spec

-----------------------------------------------------------------------------
\* However calls, evaluations, workers and sweeps overlap, no step takes an
\* acknowledgement or a resolution back: every handler writes its own columns.
THEOREM NothingReopens == Spec => NeverReopened
<1>1. ASSUME Base, [Next]_vars
      PROVE  [\A r \in Rows : /\ hist[r].acked => hist'[r].acked
                              /\ hist[r].resolved => hist'[r].resolved]_vars
  <2>1. CASE \E e \in Events : Event(e)
    BY <1>1, <2>1, EventWrites
  <2>2. CASE Background
    BY <1>1, <2>2, BackgroundForward DEF Forward, Rows
  <2>3. CASE Tick
    BY <2>3 DEF Tick
  <2> QED
    BY <1>1, <2>1, <2>2, <2>3 DEF Next, Background
<1> QED
  BY <1>1, AlwaysBase, PTL DEF Spec, NeverReopened

\* A suppressed alert is one that somebody was told of, that is about to be
\* announced, or that a silence, a trigger without channels or a crash has kept
\* back, however evaluations overlap.
THEOREM NoneSwallowed == Spec => []SuppressedWasAnnounced
<1>1. Base => SuppressedWasAnnounced
  BY DEF Base, Announced, Made, SuppressedWasAnnounced
<1> QED
  BY <1>1, AlwaysBase, PTL

-----------------------------------------------------------------------------
(* Evaluations, whether they overlap or not.                               *)

\* Events that are under way together know of each other.
Met == \A e, f \in InFlight : e # f => f \in beside[e]

\* What an event knows still holds, but for what events beside it have done.
Placed(e) ==
    /\ pc[e] \in {"idle", "lookup", "record", "create"} => into[e] = None
    /\ into[e] # None => into[e] \in Rows
    /\ pc[e] = "bump" => /\ Cardinality(Solo(into[e])) <= count[e]
                         /\ count[e] <= Cardinality(Into(into[e]))
    /\ pc[e] = "create" \/ (pc[e] = "announce" /\ e \notin Manual) =>
          \A r \in Rows \ {e} : last[r] > Window \/ \E f \in beside[e] : into[f] = r

Counted == \A r \in Rows : /\ Cardinality(Solo(r)) <= hist[r].seen
                           /\ hist[r].seen <= Cardinality(Into(r))

Known == Met /\ (\A e \in Events : Placed(e)) /\ Counted

LEMMA InitKnown == Init => Known
<1> SUFFICES ASSUME Init PROVE Known
  OBVIOUS
<1>1. Rows = {} /\ InFlight = {}
  BY NoRow DEF Init, Rows, Exists, InFlight
<1>2. \A e \in Events : pc[e] = "idle" /\ into[e] = None
  BY DEF Init
<1> QED
  BY <1>1, <1>2 DEF Known, Met, Placed, Counted

LEMMA Sizes ==
    ASSUME NEW r
    PROVE  /\ IsFiniteSet(Into(r)) /\ IsFiniteSet(Solo(r))
           /\ Cardinality(Into(r)) \in Nat /\ Cardinality(Solo(r)) \in Nat
<1>1. IsFiniteSet(Into(r)) /\ IsFiniteSet(Solo(r))
  BY FS_Subset, ParameterAssumption DEF Into, Solo
<1> QED
  BY <1>1, FS_CardinalityType

\* An event stays beside those it met, and in the row it is recorded in.
LEMMA Stays ==
    ASSUME Base, Known, NEW e \in Events, Event(e)
    PROVE  /\ Met'
           /\ \A f \in Events : beside[f] \subseteq beside'[f]
           /\ \A f \in Events : into[f] # None => into'[f] = into[f]
           /\ \A f \in InFlight \ {e} : e \in beside'[f]
           /\ \A f \in Events \ {e} : pc'[f] = pc[f] /\ into'[f] = into[f]
                                      /\ count'[f] = count[f]
<1> DEFINE Stages == {"idle", "lookup", "record", "bump", "create", "announce"}
           Arrivals == {"lookup", "record", "bump", "create", "announce", "done",
                        "hushed", "mute", "lost"}
<1>0. TypeOK
  BY DEF Base
<1>1. PICK from \in Stages, to \in Arrivals :
          Go(e, from, to) /\ IF from = "idle" THEN Joins(e) ELSE UNCHANGED beside
  BY DEF Event, Evaluate, RecordSilenced, Lookup, Bump, Create, Trigger, Announce,
         CrashBeforeAnnounce
<1>2. pc[e] = from /\ \A f \in Events : pc'[f] = IF f = e THEN to ELSE pc[f]
  BY <1>0, <1>1, Went
<1>3. InFlight' \subseteq InFlight \cup {e}
  BY <1>2 DEF InFlight
<1>4. ASSUME from = "idle"
      PROVE  /\ Met' /\ \A f \in Events : beside[f] \subseteq beside'[f]
             /\ \A f \in InFlight \ {e} : e \in beside'[f]
  <2>1. /\ \A f \in Events : beside[f] \subseteq beside'[f]
        /\ \A f \in InFlight : e \in beside'[f] \/ f = e
        /\ InFlight \subseteq beside'[e]
    BY <1>0, <1>1, <1>4, Joined
  <2>2. Met'
    BY <1>3, <2>1 DEF Known, Met, InFlight
  <2>3. \A f \in InFlight \ {e} : e \in beside'[f]
    BY <2>1
  <2> QED
    BY <2>1, <2>2, <2>3
<1>5. ASSUME from # "idle"
      PROVE  /\ Met' /\ \A f \in Events : beside[f] \subseteq beside'[f]
             /\ \A f \in InFlight \ {e} : e \in beside'[f]
  <2>1. beside' = beside /\ e \in InFlight
    BY <1>1, <1>2, <1>5 DEF InFlight
  <2> QED
    BY <1>3, <2>1 DEF Known, Met
<1>6. /\ \A f \in Events \ {e} : into'[f] = into[f] /\ count'[f] = count[f]
      /\ into'[e] = into[e] \/ pc[e] \in {"idle", "record", "create", "lookup"}
  <2>1. CASE RecordSilenced(e) \/ Create(e) \/ Trigger(e)
    <3>1. pc[e] \in {"idle", "record", "create"} /\ UNCHANGED count
      BY <2>1 DEF RecordSilenced, Create, Trigger, Go
    <3>2. \A f \in Events \ {e} : into'[f] = into[f]
      BY <1>0, <2>1 DEF RecordSilenced, Create, Trigger, Insert, TypeOK
    <3> QED
      BY <3>1, <3>2
  <2>2. CASE Lookup(e)
    BY <1>0, <2>2 DEF Lookup, Go, TypeOK
  <2>3. CASE Bump(e)
    BY <1>0, <2>3 DEF Bump, TypeOK
  <2>4. CASE Evaluate(e) \/ Announce(e) \/ CrashBeforeAnnounce(e)
    BY <2>4 DEF Evaluate, Announce, CrashBeforeAnnounce
  <2> QED
    BY <2>1, <2>2, <2>3, <2>4 DEF Event
<1>7. pc[e] \in {"idle", "record", "create", "lookup"} => into[e] = None
  BY DEF Known, Placed
<1>8. \A f \in Events : into[f] # None => into'[f] = into[f]
  BY <1>6, <1>7
<1>9. \A f \in Events \ {e} : pc'[f] = pc[f]
  BY <1>2
<1>10. /\ Met' /\ \A f \in Events : beside[f] \subseteq beside'[f]
       /\ \A f \in InFlight \ {e} : e \in beside'[f]
  BY <1>4, <1>5
<1> QED
  BY <1>6, <1>8, <1>9, <1>10

\* The events recorded in a row that nobody joins; those by themselves there
\* can only become fewer.
LEMMA Narrows ==
    ASSUME Base, Known, NEW e \in Events, Event(e), NEW r \in Events,
           e \in Into(r)' <=> e \in Into(r)
    PROVE  /\ Into(r)' = Into(r) /\ Solo(r)' \subseteq Solo(r)
           /\ Cardinality(Solo(r)') \in Nat /\ Cardinality(Solo(r)') <= Cardinality(Solo(r))
<1>1. /\ \A f \in Events : beside[f] \subseteq beside'[f]
      /\ \A f \in Events : into[f] # None => into'[f] = into[f]
      /\ \A f \in Events \ {e} : pc'[f] = pc[f] /\ into'[f] = into[f]
  BY Stays
<1>2. r # None
  BY ParameterAssumption
<1>3. Into(r)' = Into(r)
  BY <1>1 DEF Into
<1>4. ASSUME NEW f \in Solo(r)' PROVE f \in Solo(r)
  <2>1. f \in Into(r) /\ \A g \in beside'[f] : into'[g] # r
    BY <1>3, <1>4 DEF Solo
  <2>2. f \in Events /\ beside[f] \subseteq beside'[f] /\ beside[f] \subseteq Events
    BY <1>1, <2>1 DEF Into, Base, TypeOK
  <2>3. \A g \in beside[f] : into[g] # r
    BY <1>1, <1>2, <2>1, <2>2
  <2> QED
    BY <2>1, <2>3 DEF Solo
<1>5. Solo(r)' \subseteq Solo(r)
  BY <1>4
<1>6. IsFiniteSet(Solo(r))
  BY Sizes
<1>7. Cardinality(Solo(r)') <= Cardinality(Solo(r)) /\ IsFiniteSet(Solo(r)')
  BY <1>5, <1>6, FS_Subset
<1> QED
  BY <1>3, <1>5, <1>7, FS_CardinalityType

\* An event that does not move knows what it knew, if the rows it has found
\* old still are, or else the one that moves is recorded in them.
LEMMA KeepsPlaced ==
    ASSUME Base, Known, NEW e \in Events, Event(e), NEW f \in Events, f # e,
           Rows \subseteq Rows', TypeOK',
           \A r \in Rows' : (r \in Rows /\ last'[r] >= last[r]) \/ into'[e] = r,
           \A r \in Rows : pc[f] = "bump" /\ into[f] = r =>
               /\ Cardinality(Solo(r)') <= count[f] /\ count[f] <= Cardinality(Into(r)')
    PROVE  Placed(f)'
<1>1. /\ beside[f] \subseteq beside'[f] /\ (f \in InFlight => e \in beside'[f])
      /\ \A g \in Events : into[g] # None => into'[g] = into[g]
      /\ pc'[f] = pc[f] /\ into'[f] = into[f] /\ count'[f] = count[f]
  BY Stays
<1>2. Placed(f)
  BY DEF Known
<1>3. /\ pc[f] \in {"idle", "lookup", "record", "create"} => into'[f] = None
      /\ into'[f] # None => into'[f] \in Rows'
  BY <1>1, <1>2 DEF Placed
<1>4. ASSUME pc[f] = "bump"
      PROVE  /\ Cardinality(Solo(into[f])') <= count'[f]
             /\ count'[f] <= Cardinality(Into(into[f])')
  <2>1. into[f] \in Rows
    BY <1>4 DEF Base, Recorded
  <2>2. PICK r \in Rows : into[f] = r
    BY <2>1
  <2>3. Cardinality(Solo(r)') <= count[f] /\ count[f] <= Cardinality(Into(r)')
    BY <1>4, <2>2
  <2>4. Solo(into[f])' = Solo(r)' /\ Into(into[f])' = Into(r)'
    BY <1>1, <2>2 DEF Solo, Into
  <2> QED
    BY <1>1, <2>3, <2>4
<1>5. ASSUME pc[f] = "create" \/ (pc[f] = "announce" /\ f \notin Manual),
             NEW r \in Rows' \ {f}
      PROVE  last'[r] > Window \/ \E g \in beside'[f] : into'[g] = r
  <2>1. f \in InFlight
    BY <1>5 DEF InFlight
  <2>2. CASE into'[e] = r
    BY <1>1, <2>1, <2>2
  <2>3. CASE r \in Rows /\ last'[r] >= last[r]
    <3>1. r \in Events /\ r # None
      BY <2>3, ParameterAssumption DEF Rows
    <3>2. CASE last[r] > Window
      <4>1. last[r] \in Int /\ last'[r] \in Int /\ Window \in Int
        BY <3>1, ParameterAssumption DEF Base, TypeOK
      <4> QED
        BY <2>3, <3>2, <4>1
    <3>3. ASSUME NEW g \in beside[f], into[g] = r
          PROVE  \E h \in beside'[f] : into'[h] = r
      <4>1. g \in Events
        BY DEF Base, TypeOK
      <4> QED
        BY <1>1, <3>1, <3>3, <4>1
    <3>4. last[r] > Window \/ \E g \in beside[f] : into[g] = r
      BY <1>2, <1>5, <2>3 DEF Placed
    <3> QED
      BY <3>2, <3>3, <3>4
  <2> QED
    BY <1>5, <2>2, <2>3
<1>6. into'[f] = into[f] /\ pc'[f] = pc[f]
  BY <1>1
<1> QED
  BY <1>3, <1>4, <1>5, <1>6 DEF Placed

\* No row is made or counted in: what the events know stays, and the counts.
LEMMA KeepsCounts ==
    ASSUME Base, Known, NEW e \in Events, Event(e), TypeOK',
           Rows' = Rows, \A r \in Rows : last'[r] >= last[r],
           \A r \in Rows : hist'[r].seen = hist[r].seen,
           \A r \in Rows : e \in Into(r)' <=> e \in Into(r)
    PROVE  /\ Counted' /\ \A f \in Events \ {e} : Placed(f)'
           /\ \A r \in Rows : /\ Cardinality(Solo(r)') <= hist[r].seen
                              /\ hist[r].seen <= Cardinality(Into(r)')
<1>1. ASSUME NEW r \in Rows, NEW n \in Nat,
             Cardinality(Solo(r)) <= n, n <= Cardinality(Into(r))
      PROVE  Cardinality(Solo(r)') <= n /\ n <= Cardinality(Into(r)')
  <2>1. r \in Events
    BY DEF Rows
  <2>2. /\ Into(r)' = Into(r)
        /\ Cardinality(Solo(r)') \in Nat /\ Cardinality(Solo(r)') <= Cardinality(Solo(r))
    BY <2>1, Narrows
  <2>3. Cardinality(Solo(r)) \in Nat
    BY Sizes
  <2> QED
    BY <1>1, <2>2, <2>3
<1>2. ASSUME NEW r \in Rows
      PROVE  Cardinality(Solo(r)') <= hist[r].seen /\ hist[r].seen <= Cardinality(Into(r)')
  <2>1. hist[r].seen \in Nat
    BY DEF Base, TypeOK, Rows, Histories
  <2>2. Cardinality(Solo(r)) <= hist[r].seen /\ hist[r].seen <= Cardinality(Into(r))
    BY DEF Known, Counted
  <2> QED
    BY <1>1, <2>1, <2>2
<1>3. Counted'
  BY <1>2 DEF Counted
<1>4. ASSUME NEW f \in Events \ {e} PROVE Placed(f)'
  <2>1. ASSUME NEW r \in Rows, pc[f] = "bump", into[f] = r
        PROVE  Cardinality(Solo(r)') <= count[f] /\ count[f] <= Cardinality(Into(r)')
    <3>1. Cardinality(Solo(r)) <= count[f] /\ count[f] <= Cardinality(Into(r))
      BY <2>1 DEF Known, Placed
    <3>2. count[f] \in Nat
      BY DEF Base, TypeOK
    <3> QED
      BY <1>1, <3>1, <3>2
  <2> QED
    BY <2>1, KeepsPlaced
<1> QED
  BY <1>2, <1>3, <1>4

\* An event that makes its row is the only one recorded in it.
LEMMA MakesCounts ==
    ASSUME Base, Known, NEW e \in Events, Event(e), TypeOK',
           NEW status \in Statuses \ {"none"}, Insert(e, status),
           pc[e] \in {"idle", "record", "create"}, pc'[e] # "bump"
    PROVE  /\ Counted' /\ \A f \in Events \ {e} : Placed(f)'
           /\ Rows' = Rows \cup {e} /\ e \notin Rows /\ into'[e] = e
           /\ \A r \in Rows : last'[r] = last[r]
<1>1. /\ \A r \in Events : /\ hist'[r] = IF r = e THEN Row(status) ELSE hist[r]
                           /\ last'[r] = IF r = e THEN 0 ELSE last[r]
      /\ \A f \in Events : into'[f] = IF f = e THEN e ELSE into[f]
  BY Inserted DEF Base
<1>2. Rows' = Rows \cup {e} /\ e \notin Rows
  <2>1. e \notin Rows
    BY DEF Base, Recorded, Early, Rows
  <2> QED
    BY <1>1, <2>1, NewRow DEF Rows, Exists
<1>3. into[e] = None /\ None \notin Events /\ \A f \in Events : into[f] # e
  BY <1>2, ParameterAssumption DEF Known, Placed, Rows
<1>4. ASSUME NEW r \in Rows, NEW n \in Nat,
             Cardinality(Solo(r)) <= n, n <= Cardinality(Into(r))
      PROVE  Cardinality(Solo(r)') <= n /\ n <= Cardinality(Into(r)')
  <2>1. r \in Events /\ r # e
    BY <1>2 DEF Rows
  <2>2. e \in Into(r)' <=> e \in Into(r)
    BY <1>1, <1>3, <2>1 DEF Into
  <2>3. /\ Into(r)' = Into(r)
        /\ Cardinality(Solo(r)') \in Nat /\ Cardinality(Solo(r)') <= Cardinality(Solo(r))
    BY <2>1, <2>2, Narrows
  <2>4. Cardinality(Solo(r)) \in Nat
    BY Sizes
  <2> QED
    BY <1>4, <2>3, <2>4
<1>5. hist'[e].seen = 1 /\ Into(e)' = {e}
  <2>1. \A f \in Events : into'[f] = e => f = e
    BY <1>1, <1>3
  <2>2. hist'[e].seen = 1
    BY <1>1, NewRow
  <2> QED
    BY <1>1, <2>1, <2>2 DEF Into
<1>6. Cardinality(Into(e)') = 1 /\ Cardinality(Solo(e)') <= 1
  <2>1. Cardinality({e}) = 1 /\ IsFiniteSet({e})
    BY FS_Singleton
  <2>2. Solo(e)' \subseteq {e}
    BY <1>5 DEF Solo
  <2>3. Cardinality(Solo(e)') <= Cardinality({e})
    BY <2>1, <2>2, FS_Subset
  <2> QED
    BY <1>5, <2>1, <2>3
<1>7. ASSUME NEW r \in Rows'
      PROVE  Cardinality(Solo(r)') <= hist'[r].seen /\ hist'[r].seen <= Cardinality(Into(r)')
  <2>1. CASE r = e
    <3>1. 1 <= 1
      OBVIOUS
    <3>2. Solo(r)' = Solo(e)' /\ Into(r)' = Into(e)'
      BY <2>1 DEF Solo, Into
    <3> QED
      BY <1>5, <1>6, <2>1, <3>1, <3>2
  <2>2. CASE r # e
    <3>1. r \in Rows /\ r \in Events
      BY <1>2, <1>7, <2>2 DEF Rows
    <3>2. hist[r].seen \in Nat
      BY <3>1 DEF Base, TypeOK, Histories
    <3>3. Cardinality(Solo(r)) <= hist[r].seen /\ hist[r].seen <= Cardinality(Into(r))
      BY <3>1 DEF Known, Counted
    <3>4. hist'[r] = hist[r]
      BY <1>1, <2>2, <3>1
    <3> QED
      BY <1>4, <3>1, <3>2, <3>3, <3>4
  <2> QED
    BY <2>1, <2>2
<1>8. \A r \in Rows : last'[r] = last[r]
  BY <1>1, <1>2 DEF Rows
<1>9. ASSUME NEW f \in Events \ {e} PROVE Placed(f)'
  <2>1. ASSUME NEW r \in Rows, pc[f] = "bump", into[f] = r
        PROVE  Cardinality(Solo(r)') <= count[f] /\ count[f] <= Cardinality(Into(r)')
    <3>1. Cardinality(Solo(r)) <= count[f] /\ count[f] <= Cardinality(Into(r))
      BY <2>1 DEF Known, Placed
    <3>2. count[f] \in Nat
      BY DEF Base, TypeOK
    <3> QED
      BY <1>4, <3>1, <3>2
  <2>2. ASSUME NEW r \in Rows' PROVE (r \in Rows /\ last'[r] >= last[r]) \/ into'[e] = r
    <3>1. CASE r = e
      BY <1>1, <3>1
    <3>2. CASE r \in Rows
      <4>1. last[r] \in Int
        BY <3>2 DEF Base, TypeOK, Rows
      <4> QED
        BY <1>8, <3>2, <4>1
    <3> QED
      BY <1>2, <2>2, <3>1, <3>2
  <2>3. Rows \subseteq Rows'
    BY <1>2
  <2> QED
    BY <2>1, <2>2, <2>3, KeepsPlaced
<1>10. Counted'
  BY <1>7 DEF Counted
<1> QED
  BY <1>1, <1>2, <1>8, <1>9, <1>10

\* An event counts in a row: those that counted along with it know of it, so
\* that it is not by itself there.
LEMMA BumpCounts ==
    ASSUME Base, Known, NEW e \in Events, Bump(e), TypeOK'
    PROVE  Counted' /\ (\A f \in Events \ {e} : Placed(f)') /\ into[e] \in Rows'
<1> DEFINE r == into[e]
           n == Bumped(r, count[e])
<1>0. TypeOK /\ Event(e)
  BY DEF Base, Event
<1>1. pc[e] = "bump" /\ pc'[e] = "done"
  BY <1>0, Went DEF Bump
<1>2. r \in Events /\ r \in Rows /\ count[e] \in Nat
  BY <1>0, <1>1 DEF Base, Recorded, Rows, TypeOK
<1>3. n \in Histories /\ n.status # "none" /\ n.seen = count[e] + 1
  <2>1. hist[r] \in Histories
    BY <1>0, <1>2 DEF TypeOK
  <2> QED
    BY <1>2, <2>1, BumpedIs
<1>4. hist' = [hist EXCEPT ![r] = n] /\ UNCHANGED <<into, beside>>
  BY DEF Bump
<1> HIDE DEF n
<1>5. \A q \in Events : hist'[q] = IF q = r THEN n ELSE hist[q]
  BY <1>0, <1>3, <1>4, Rewritten
<1>6. Rows' = Rows
  BY <1>2, <1>3, <1>5 DEF Rows, Exists
<1>7. \A f \in Events : f # e => pc'[f] = pc[f] /\ count'[f] = count[f]
  BY <1>0, Stays
<1>8. ASSUME NEW q \in Rows, q # r
      PROVE  Into(q)' = Into(q) /\ Solo(q)' = Solo(q)
  <2>1. Into(q)' = Into(q)
    BY <1>1, <1>4, <1>7, <1>8 DEF Into
  <2> QED
    BY <1>4, <2>1 DEF Solo
<1>9. Into(r)' = Into(r) \cup {e} /\ e \notin Into(r)
  BY <1>1, <1>4, <1>7 DEF Into
<1>10. Solo(r)' \subseteq Solo(r) \cup {e}
  BY <1>4, <1>9 DEF Solo
<1>11. /\ Cardinality(Into(r)) \in Nat /\ Cardinality(Solo(r)) \in Nat
       /\ Cardinality(Into(r)') = Cardinality(Into(r)) + 1
       /\ Cardinality(Solo(r)') \in Nat /\ Cardinality(Solo(r)') <= Cardinality(Solo(r)) + 1
  <2>1. /\ IsFiniteSet(Into(r)) /\ IsFiniteSet(Solo(r))
        /\ Cardinality(Into(r)) \in Nat /\ Cardinality(Solo(r)) \in Nat
    BY Sizes
  <2>2. Cardinality(Into(r) \cup {e}) = Cardinality(Into(r)) + 1
    BY <1>9, <2>1, FS_AddElement
  <2>3. e \notin Solo(r)
    BY <1>9 DEF Solo
  <2>4. /\ IsFiniteSet(Solo(r) \cup {e})
        /\ Cardinality(Solo(r) \cup {e}) = Cardinality(Solo(r)) + 1
    BY <2>1, <2>3, FS_AddElement
  <2>5. IsFiniteSet(Solo(r)') /\ Cardinality(Solo(r)') <= Cardinality(Solo(r) \cup {e})
    BY <1>10, <2>4, FS_Subset
  <2>6. Cardinality(Solo(r)') \in Nat
    BY <2>5, FS_CardinalityType
  <2> QED
    BY <1>9, <2>1, <2>2, <2>4, <2>5, <2>6
<1>12. Cardinality(Solo(r)) <= count[e] /\ count[e] <= Cardinality(Into(r))
  BY <1>1 DEF Known, Placed
<1>13. ASSUME NEW q \in Rows
       PROVE  Cardinality(Solo(q)') <= hist'[q].seen /\ hist'[q].seen <= Cardinality(Into(q)')
  <2>0. q \in Events
    BY DEF Rows
  <2>1. CASE q = r
    <3>1. hist'[q].seen = count[e] + 1
      BY <1>2, <1>3, <1>5, <2>1
    <3>2. Solo(q)' = Solo(r)' /\ Into(q)' = Into(r)'
      BY <1>4, <2>1 DEF Solo, Into
    <3> HIDE DEF r
    <3> QED
      BY <1>2, <1>11, <1>12, <3>1, <3>2
  <2>2. CASE q # r
    <3>1. hist'[q] = hist[q]
      BY <1>5, <2>0, <2>2
    <3>2. Cardinality(Solo(q)) <= hist[q].seen /\ hist[q].seen <= Cardinality(Into(q))
      BY DEF Known, Counted
    <3> QED
      BY <1>8, <2>2, <3>1, <3>2
  <2> QED
    BY <2>1, <2>2
<1>14. Counted'
  BY <1>6, <1>13 DEF Counted
<1>15. ASSUME NEW f \in Events, f # e PROVE Placed(f)'
  <2>1. ASSUME NEW q \in Rows, pc[f] = "bump", into[f] = q
        PROVE  Cardinality(Solo(q)') <= count[f] /\ count[f] <= Cardinality(Into(q)')
    <3>1. Cardinality(Solo(q)) <= count[f] /\ count[f] <= Cardinality(Into(q))
      BY <2>1 DEF Known, Placed
    <3>2. CASE q = r
      <4>1. f \in beside[e]
        BY <1>1, <1>15, <2>1 DEF Known, Met, InFlight
      <4>2. e \notin Solo(r)'
        BY <1>4, <2>1, <3>2, <4>1 DEF Solo
      <4>3. Solo(r)' \subseteq Solo(r)
        BY <1>10, <4>2
      <4>4. Cardinality(Solo(r)') <= Cardinality(Solo(r))
        BY <4>3, Sizes, FS_Subset
      <4>5. Solo(q)' = Solo(r)' /\ Into(q)' = Into(r)' /\ Solo(q) = Solo(r) /\ Into(q) = Into(r)
        BY <1>4, <3>2 DEF Solo, Into
      <4>6. count[f] \in Nat
        BY <1>0 DEF TypeOK
      <4> HIDE DEF r
      <4> QED
        BY <1>11, <3>1, <4>4, <4>5, <4>6
    <3>3. CASE q # r
      BY <1>8, <3>1, <3>3
    <3> QED
      BY <3>2, <3>3
  <2>2. ASSUME NEW q \in Rows' PROVE (q \in Rows /\ last'[q] >= last[q]) \/ into'[e] = q
    <3>1. CASE q = r
      BY <1>4, <3>1
    <3>2. CASE q # r
      <4>1. q \in Rows /\ q \in Events
        BY <1>6, <2>2 DEF Rows
      <4>2. last'[q] = last[q] /\ last[q] \in Int
        BY <1>0, <3>2, <4>1 DEF Bump, TypeOK
      <4> QED
        BY <4>1, <4>2
    <3> QED
      BY <3>1, <3>2
  <2>3. Rows \subseteq Rows'
    BY <1>6
  <2> QED
    BY <1>0, <1>15, <2>1, <2>2, <2>3, KeepsPlaced
<1> QED
  BY <1>2, <1>6, <1>14, <1>15

LEMMA KnownEvent ==
    ASSUME Base, Known, NEW e \in Events, Event(e), TypeOK' PROVE Known'
<1> USE DEF alerts
<1>0. TypeOK
  BY DEF Base
<1>1. /\ Met' /\ beside[e] \subseteq beside'[e]
      /\ \A f \in Events : into[f] # None => into'[f] = into[f]
  BY Stays
<1>2. ASSUME Counted', \A f \in Events \ {e} : Placed(f)', Placed(e)' PROVE Known'
  BY <1>1, <1>2 DEF Known
<1>3. ASSUME Rows' = Rows, UNCHANGED <<hist, last>>,
             \A r \in Rows : e \in Into(r)' <=> e \in Into(r)
      PROVE  /\ Counted' /\ \A f \in Events \ {e} : Placed(f)'
             /\ \A r \in Rows : /\ Cardinality(Solo(r)') <= hist[r].seen
                                /\ hist[r].seen <= Cardinality(Into(r)')
  <2>1. \A r \in Rows : last[r] \in Int
    BY <1>0 DEF TypeOK, Rows
  <2>2. \A r \in Rows : last'[r] >= last[r] /\ hist'[r].seen = hist[r].seen
    BY <1>3, <2>1
  <2> QED
    BY <1>3, <2>2, KeepsCounts
<1>4. CASE Evaluate(e)
  <2>1. PICK to \in {"record", "lookup"} : Go(e, "idle", to)
    BY <1>4 DEF Evaluate
  <2>2. pc[e] = "idle" /\ pc'[e] = to
    BY <1>0, <2>1, Went
  <2>3. UNCHANGED <<hist, last, into>> /\ Rows' = Rows
    BY <1>4 DEF Evaluate, Rows, Exists
  <2>4. Placed(e)'
    BY <2>2, <2>3 DEF Known, Placed
  <2>5. \A r \in Rows : e \in Into(r)' <=> e \in Into(r)
    BY <2>2, <2>3 DEF Into
  <2> QED
    BY <1>2, <1>3, <2>3, <2>4, <2>5
<1>5. ASSUME NEW status \in {"PENDING", "SILENCED"}, Insert(e, status),
             NEW from \in {"idle", "record", "create"},
             NEW to \in {"announce", "hushed", "mute"}, Go(e, from, to),
             to = "announce" => from = "create" \/ e \in Manual
      PROVE  Known'
  <2>1. status \in Statuses \ {"none"}
    BY DEF Statuses
  <2>2. pc[e] = from /\ pc'[e] = to
    BY <1>0, <1>5, Went
  <2>3. /\ Counted' /\ \A f \in Events \ {e} : Placed(f)'
        /\ Rows' = Rows \cup {e} /\ e \notin Rows /\ into'[e] = e
        /\ \A r \in Rows : last'[r] = last[r]
    BY <1>5, <2>1, <2>2, MakesCounts
  <2>4. ASSUME to = "announce", e \notin Manual, NEW r \in Rows' \ {e}
        PROVE  last'[r] > Window \/ \E f \in beside'[e] : into'[f] = r
    <3>1. r \in Rows /\ r # None /\ last'[r] = last[r]
      BY <2>3, <2>4, ParameterAssumption DEF Rows
    <3>2. last[r] > Window \/ \E f \in beside[e] : into[f] = r
      BY <1>5, <2>2, <2>3, <2>4, <3>1 DEF Known, Placed
    <3>3. ASSUME NEW f \in beside[e], into[f] = r
          PROVE  \E g \in beside'[e] : into'[g] = r
      <4>1. f \in Events
        BY <1>0 DEF TypeOK
      <4> QED
        BY <1>1, <3>1, <3>3, <4>1
    <3> QED
      BY <3>1, <3>2, <3>3
  <2>5. Placed(e)'
    BY <2>2, <2>3, <2>4 DEF Placed
  <2> QED
    BY <1>2, <2>3, <2>5
<1>6. CASE RecordSilenced(e)
  BY <1>5, <1>6 DEF RecordSilenced
<1>7. CASE Create(e)
  BY <1>5, <1>7 DEF Create
<1>8. CASE Trigger(e)
  BY <1>5, <1>8 DEF Trigger
<1>9. CASE Lookup(e)
  <2>1. UNCHANGED <<hist, last>> /\ Rows' = Rows
    BY <1>9 DEF Lookup, Rows, Exists
  <2>2. pc[e] = "lookup" /\ into[e] = None /\ None \notin Events
    BY <1>9, ParameterAssumption DEF Lookup, Go, Known, Placed
  <2>3. CASE Recent = {} /\ Go(e, "lookup", "create") /\ UNCHANGED into
    <3>1. pc'[e] = "create"
      BY <1>0, <2>3, Went
    <3>2. \A r \in Rows : last[r] > Window
      <4>1. \A r \in Rows : last[r] \in 0 .. Window + 1 /\ ~(last[r] <= Window)
        BY <1>0, <2>3 DEF Recent, Rows, TypeOK
      <4> QED
        BY <4>1, ParameterAssumption
    <3>3. Placed(e)'
      BY <2>1, <2>2, <2>3, <3>1, <3>2 DEF Placed
    <3>4. \A r \in Rows : e \in Into(r)' <=> e \in Into(r)
      BY <2>2, <2>3, <3>1 DEF Into
    <3> QED
      BY <1>2, <1>3, <2>1, <3>3, <3>4
  <2>4. ASSUME NEW r \in Recent, Go(e, "lookup", "bump"),
               into' = [into EXCEPT ![e] = r], count' = [count EXCEPT ![e] = hist[r].seen]
        PROVE  Known'
    <3>1. pc'[e] = "bump"
      BY <1>0, <2>4, Went
    <3>2. r \in Rows /\ into'[e] = r /\ count'[e] = hist[r].seen
      BY <1>0, <2>4 DEF Recent, TypeOK
    <3>3. \A q \in Rows : e \in Into(q)' <=> e \in Into(q)
      BY <2>2, <3>1 DEF Into, Rows
    <3>4. /\ Counted' /\ \A f \in Events \ {e} : Placed(f)'
          /\ Cardinality(Solo(r)') <= hist[r].seen /\ hist[r].seen <= Cardinality(Into(r)')
      BY <1>3, <2>1, <3>2, <3>3
    <3>5. Solo(into[e])' = Solo(r)' /\ Into(into[e])' = Into(r)'
      BY <3>2 DEF Solo, Into
    <3>6. Placed(e)'
      BY <2>1, <3>1, <3>2, <3>4, <3>5 DEF Placed
    <3> QED
      BY <1>2, <3>4, <3>6
  <2> QED
    BY <1>9, <2>3, <2>4 DEF Lookup
<1>10. CASE Bump(e)
  <2>1. Counted' /\ (\A f \in Events \ {e} : Placed(f)') /\ into[e] \in Rows'
    BY <1>10, BumpCounts
  <2>2. pc'[e] = "done" /\ into' = into
    BY <1>0, <1>10, Went DEF Bump
  <2>3. Placed(e)'
    BY <2>1, <2>2 DEF Placed
  <2> QED
    BY <1>2, <2>1, <2>3
<1>11. CASE Announce(e) \/ CrashBeforeAnnounce(e)
  <2>1. pc[e] = "announce" /\ pc'[e] \in {"done", "lost"}
    BY <1>0, <1>11, Went DEF Announce, CrashBeforeAnnounce
  <2>2. UNCHANGED <<hist, last, into>> /\ Rows' = Rows
    BY <1>11 DEF Announce, CrashBeforeAnnounce, Rows, Exists
  <2>3. Placed(e)'
    BY <2>1, <2>2 DEF Known, Placed
  <2>4. \A r \in Rows : e \in Into(r)' <=> e \in Into(r)
    BY <2>1, <2>2 DEF Into
  <2> QED
    BY <1>2, <1>3, <2>2, <2>3, <2>4
<1> QED
  BY <1>4, <1>6, <1>7, <1>8, <1>9, <1>10, <1>11 DEF Event

LEMMA KnownStep == Base /\ Known /\ [Next]_vars => Known'
<1> SUFFICES ASSUME Base, Known, [Next]_vars PROVE Known'
  OBVIOUS
<1>0. TypeOK'
  BY TypeStep
<1>1. CASE \E e \in Events : Event(e)
  BY <1>0, <1>1, KnownEvent
<1>2. ASSUME UNCHANGED <<pc, into, count, beside>>, \A r \in Events : last'[r] >= last[r],
             \A r \in Events : (Exists(r)' <=> Exists(r)) /\ hist'[r].seen = hist[r].seen
      PROVE  Known'
  <2>1. Rows' = Rows
    BY <1>2 DEF Rows
  <2>2. \A r : Into(r)' = Into(r) /\ Solo(r)' = Solo(r)
    BY <1>2 DEF Into, Solo
  <2>3. \A r \in Rows : hist'[r].seen = hist[r].seen
    BY <1>2 DEF Rows
  <2>4. Counted'
    BY <2>1, <2>2, <2>3 DEF Known, Counted
  <2>5. Met'
    BY <1>2 DEF Known, Met, InFlight
  <2>6. \A r \in Rows : last[r] > Window => last'[r] > Window
    <3>1. \A r \in Rows : last[r] \in Int /\ last'[r] \in Int
      BY <1>0 DEF Base, TypeOK, Rows
    <3> QED
      BY <1>2, <3>1, ParameterAssumption DEF Rows
  <2>7. ASSUME NEW e \in Events PROVE Placed(e)'
    <3>1. Placed(e)
      BY DEF Known
    <3>2. Into(into[e])' = Into(into[e]) /\ Solo(into[e])' = Solo(into[e])
      BY <1>2 DEF Into, Solo
    <3> QED
      BY <1>2, <2>1, <2>6, <3>1, <3>2 DEF Placed
  <2> QED
    BY <2>4, <2>5, <2>7 DEF Known
<1>3. CASE Background
  <2>1. \A r \in Events : last[r] >= last[r]
    BY DEF Base, TypeOK
  <2> QED
    BY <1>2, <1>3, <2>1, BackgroundKeeps, BackgroundForward DEF Forward
<1>4. CASE Tick
  <2>1. UNCHANGED <<hist, pc, into, count, beside>>
    BY <1>4 DEF Tick, events
  <2> QED
    BY <1>2, <1>4, <2>1, Ticked DEF Base, Exists
<1>5. CASE UNCHANGED vars
  <2>1. UNCHANGED <<hist, last, pc, into, count, beside>>
    BY <1>5 DEF vars, alerts, events
  <2>2. \A r \in Events : last[r] >= last[r]
    BY DEF Base, TypeOK
  <2> QED
    BY <1>2, <2>1, <2>2 DEF Exists
<1> QED
  BY <1>1, <1>3, <1>4, <1>5 DEF Next, Background

LEMMA AlwaysKnown == Spec => []Known
BY KnownStep, InitKnown, AlwaysBase, PTL DEF Spec

\* An evaluation announces its alert when every alert announced before is older
\* than the window, but for those that evaluations or triggers under way
\* together with it have stored or counted in between its query and its row.
THEOREM AnnouncedOncePerWindow == Spec => OncePerWindow
<1>1. ASSUME Base, Known, [Next]_vars
      PROVE  [\A e \in told' \ told : e \in Manual \/
                 \A r \in told : last[r] > Window \/ \E f \in beside[e] : into[f] = r]_vars
  <2>1. CASE \E e \in Events : Announce(e)
    <3>1. PICK e \in Events : Announce(e)
      BY <2>1
    <3>2. pc[e] = "announce" /\ told' = told \cup {e}
      BY <3>1 DEF Announce, Go
    <3>3. told \subseteq Rows
      BY <1>1 DEF Base, Recorded
    <3>4. ASSUME NEW d \in told' \ told, d \notin Manual, NEW r \in told
          PROVE  last[r] > Window \/ \E f \in beside[d] : into[f] = r
      <4>1. d = e /\ r \in Rows \ {e}
        BY <3>2, <3>3, <3>4
      <4> QED
        BY <1>1, <3>2, <3>4, <4>1 DEF Known, Placed
    <3> QED
      BY <3>4
  <2>2. CASE UNCHANGED told
    BY <2>2
  <2>3. CASE Background
    BY <2>2, <2>3, BackgroundKeeps
  <2>4. CASE Tick
    BY <2>2, <2>4 DEF Tick, events
  <2>5. CASE \E e \in Events : Event(e)
    BY <2>1, <2>2, <2>5
       DEF Event, Evaluate, RecordSilenced, Lookup, Bump, Create, Trigger,
           CrashBeforeAnnounce
  <2> QED
    BY <1>1, <2>2, <2>3, <2>4, <2>5 DEF Next, Background, vars, events
<1> QED
  BY <1>1, AlwaysBase, AlwaysKnown, PTL DEF Spec, OncePerWindow

\* occurrences misses no event that was alone with the row, and counts none
\* twice, however evaluations read it before others have written it.
THEOREM EveryEventCounted == Spec => []CountsEvents
<1>1. Base /\ Known => CountsEvents
  BY DEF Base, Known, Counted, CountsEvents
<1> QED
  BY <1>1, AlwaysBase, AlwaysKnown, PTL

-----------------------------------------------------------------------------
(* Sweeps.                                                                 *)

\* A sweep that has met no other knows the level each of its alerts is at.
Swept ==
    /\ \A s, o \in Sweeps :
          s # o /\ sweep[s].at = "rows" /\ sweep[o].at = "rows" => s \in abreast
    /\ \A s \in Sweeps : /\ sweep[s].at # "rows" => sweep[s].todo = {}
                         /\ s \notin abreast => \A r \in sweep[s].todo :
                                sweep[s].reached[r] = hist[r].target

LEMMA InitSwept == Init => Swept
BY DEF Init, NotStarted, Swept

\* Only an escalation writes the target.
LEMMA CallKeepsTargets ==
    ASSUME Base, \/ \E r \in Events : Dispatch(r) \/ DispatchFails(r)
                 \/ \E u \in Users : Call(u)
    PROVE  \A r \in Events : hist'[r].target = hist[r].target
<1> USE DEF alerts
<1>0. TypeOK /\ \A r \in Events : hist[r] \in Histories
  BY DEF Base, TypeOK
<1>1. ASSUME NEW r \in Events, NEW n \in Histories, hist' = [hist EXCEPT ![r] = n],
             n.target = hist[r].target
      PROVE  \A q \in Events : hist'[q].target = hist[q].target
  BY <1>0, <1>1, Rewritten
<1>2. ASSUME NEW r \in Events, Dispatch(r)
      PROVE  \A q \in Events : hist'[q].target = hist[q].target
  <2> DEFINE n == [hist[r] EXCEPT !.status = "DISPATCHED"]
  <2>1. n \in Histories /\ n.target = hist[r].target
    BY <1>0, SentRow
  <2>2. hist' = [hist EXCEPT ![r] = n]
    BY <1>2 DEF Dispatch
  <2> HIDE DEF n
  <2> QED
    BY <1>1, <2>1, <2>2
<1>3. ASSUME NEW u \in Users, Acknowledge(u) \/ Resolve(u)
      PROVE  \A q \in Events : hist'[q].target = hist[q].target
  <2> DEFINE r == user[u].row
  <2>1. CASE r \in Events
    <3>1. PICK n \in Histories : n.target = hist[r].target /\ hist' = [hist EXCEPT ![r] = n]
      <4>1. CASE Acknowledge(u)
        BY <1>0, <2>1, <4>1, AckedRow DEF Acknowledge, SaveRow
      <4>2. CASE Resolve(u)
        BY <1>0, <2>1, <4>2, ResolvedRow DEF Resolve, SaveRow
      <4> QED
        BY <1>3, <4>1, <4>2
    <3> HIDE DEF r
    <3> QED
      BY <1>1, <2>1, <3>1
  <2>2. CASE r \notin Events
    BY <1>0, <1>3, <2>2 DEF Acknowledge, Resolve, SaveRow, TypeOK
  <2> QED
    BY <2>1, <2>2
<1>4. ASSUME UNCHANGED hist PROVE \A q \in Events : hist'[q].target = hist[q].target
  BY <1>4
<1>5. \A r \in Events : DispatchFails(r) => UNCHANGED hist
  BY DEF DispatchFails
<1>6. \A u \in Users : ReadRow(u, "ack") \/ ReadRow(u, "resolve") => UNCHANGED hist
  BY DEF ReadRow
<1> QED
  BY <1>2, <1>3, <1>4, <1>5, <1>6 DEF Call

\* A sweep that has met no other is the only one under way.
LEMMA SoleSweep ==
    ASSUME Base, Swept, NEW s \in Sweeps, NEW r \in Events, NEW level \in Nat,
           Turn(s, r), Advance(s, r, level), abreast' = abreast,
           \A q \in Events \ {r} : hist'[q].target = hist[q].target,
           hist'[r].target = level \/ (sweep[s].reached[r] = level /\ hist' = hist)
    PROVE  Swept'
<1>0. TypeOK
  BY DEF Base
<1>1. /\ \A o \in Sweeps \ {s} : sweep'[o] = sweep[o]
      /\ sweep'[s].at = sweep[s].at
      /\ \/ sweep'[s].todo = sweep[s].todo /\ sweep'[s].reached[r] = level
         \/ sweep'[s].todo = sweep[s].todo \ {r}
      /\ \A q \in Events \ {r} : sweep'[s].reached[q] = sweep[s].reached[q]
  BY <1>0, Advanced
<1>2. sweep[s].at = "rows" /\ sweep[s].todo \subseteq Events /\ r \in sweep[s].todo
  BY <1>0 DEF Turn, TypeOK, Visits
<1>3. \A o \in Sweeps \ {s} : o \notin abreast => sweep[o].todo = {}
  BY <1>2 DEF Swept
<1>4. ASSUME s \notin abreast, NEW q \in sweep'[s].todo
      PROVE  sweep'[s].reached[q] = hist'[q].target
  <2>1. q \in Events /\ q \in sweep[s].todo
    BY <1>1, <1>2, <1>4
  <2>2. sweep[s].reached[q] = hist[q].target
    BY <1>4, <2>1 DEF Swept
  <2>3. CASE q = r
    BY <1>1, <1>4, <2>2, <2>3
  <2>4. CASE q # r
    BY <1>1, <2>1, <2>2, <2>4
  <2> QED
    BY <2>3, <2>4
<1>5. \A o \in Sweeps : sweep'[o].at = sweep[o].at
  BY <1>1
<1>6. \A t, o \in Sweeps :
          t # o /\ sweep'[t].at = "rows" /\ sweep'[o].at = "rows" => t \in abreast'
  BY <1>5 DEF Swept
<1>7. ASSUME NEW o \in Sweeps \ {s}
      PROVE  /\ sweep'[o].at # "rows" => sweep'[o].todo = {}
             /\ o \notin abreast' => sweep'[o].todo = {}
  BY <1>1, <1>3 DEF Swept
<1> QED
  BY <1>1, <1>2, <1>4, <1>6, <1>7 DEF Swept

LEMMA SweptStep == Base /\ Swept /\ [Next]_vars => Swept'
<1> SUFFICES ASSUME Base, Swept, [Next]_vars PROVE Swept'
  OBVIOUS
<1>0. TypeOK
  BY DEF Base
<1>1. ASSUME UNCHANGED <<sweep, abreast>>, \A r \in Rows : hist'[r].target = hist[r].target
      PROVE  Swept'
  <2>1. \A s \in Sweeps : sweep[s].todo \subseteq Rows
    BY DEF Base, Recorded
  <2> QED
    BY <1>1, <2>1 DEF Swept
<1>2. CASE \E e \in Events : Event(e)
  <2>1. UNCHANGED <<sweep, abreast>>
    BY <1>2 DEF Event, Evaluate, RecordSilenced, Lookup, Bump, Create, Trigger,
                Announce, CrashBeforeAnnounce, sweeps
  <2> QED
    BY <1>1, <1>2, <2>1, EventWrites
<1>3. CASE \/ \E r \in Events : Dispatch(r) \/ DispatchFails(r)
           \/ \E u \in Users : Call(u)
  <2>1. UNCHANGED <<sweep, abreast>>
    BY <1>3 DEF Dispatch, DispatchFails, Call, ReadRow, Acknowledge, Resolve,
                SaveRow, sweeps
  <2> QED
    BY <1>1, <1>3, <2>1, CallKeepsTargets DEF Rows
<1>4. CASE Tick \/ UNCHANGED vars
  BY <1>1, <1>4 DEF Tick, vars, alerts, sweeps
<1>5. ASSUME NEW s \in Sweeps, StartSweep(s) PROVE Swept'
  <2> DEFINE open == {r \in Rows : ~hist[r].resolved}
             running == {o \in Sweeps : sweep[o].at = "rows"}
  <2>1. /\ hist' = hist /\ sweep[s].at = "idle"
        /\ abreast' = abreast \cup (IF running = {} THEN {} ELSE running \cup {s})
    BY <1>5 DEF StartSweep, alerts
  <2>2. \A o \in Sweeps : o # s => sweep'[o] = sweep[o]
    BY <1>0, <1>5 DEF StartSweep, TypeOK
  <2>3. sweep'[s].todo = open /\ sweep'[s].at = "rows"
        /\ \A r \in open : sweep'[s].reached[r] = hist[r].target
    BY <1>0, <1>5 DEF StartSweep, TypeOK, Rows
  <2>4. \A o \in Sweeps \ {s} : o \in running => o \in abreast' /\ s \in abreast'
    BY <2>1
  <2>5. \A t, o \in Sweeps :
            t # o /\ sweep'[t].at = "rows" /\ sweep'[o].at = "rows" => t \in abreast'
    BY <2>1, <2>2, <2>4 DEF Swept
  <2>6. ASSUME NEW o \in Sweeps \ {s}
        PROVE  /\ sweep'[o].at # "rows" => sweep'[o].todo = {}
               /\ o \notin abreast' => sweep'[o].todo = {}
    BY <2>2, <2>4 DEF Swept
  <2> QED
    BY <2>1, <2>3, <2>5, <2>6 DEF Swept
<1>6. ASSUME NEW s \in Sweeps, EndSweep(s) PROVE Swept'
  <2>1. hist' = hist /\ abreast' = abreast \ {s}
    BY <1>6 DEF EndSweep, alerts
  <2>2. \A o \in Sweeps : o # s => sweep'[o] = sweep[o]
    BY <1>0, <1>6 DEF EndSweep, TypeOK
  <2>3. sweep'[s].at = "idle" /\ sweep'[s].todo = {}
    BY <1>0, <1>6 DEF EndSweep, NotStarted, TypeOK
  <2> QED
    BY <2>1, <2>2, <2>3 DEF Swept
<1>7. ASSUME NEW s \in Sweeps, NEW r \in Events, Escalate(s, r) PROVE Swept'
  <2> DEFINE level == Escalations[sweep[s].rule].level
             n == [hist[r] EXCEPT !.target = level]
  <2>1. level \in Nat
    BY <1>0, RuleTypes DEF TypeOK, Visits
  <2>2. /\ hist' = [hist EXCEPT ![r] = n] /\ Advance(s, r, level) /\ Turn(s, r)
        /\ abreast' = abreast
    BY <1>7 DEF Escalate
  <2>3. n \in Histories /\ n.target = level
    BY <1>0, <2>1, RaisedRow DEF TypeOK
  <2> HIDE DEF n, level
  <2>4. \A q \in Events : hist'[q] = IF q = r THEN n ELSE hist[q]
    BY <1>0, <2>2, <2>3, Rewritten
  <2> QED
    BY <2>1, <2>2, <2>3, <2>4, SoleSweep
<1>8. ASSUME NEW s \in Sweeps, NEW r \in Events, Skip(s, r) PROVE Swept'
  <2>1. /\ hist' = hist /\ abreast' = abreast /\ Turn(s, r)
        /\ Advance(s, r, sweep[s].reached[r])
    BY <1>8 DEF Skip, alerts
  <2>2. sweep[s].reached[r] \in Nat
    BY <1>0 DEF TypeOK, Visits
  <2> QED
    BY <2>1, <2>2, SoleSweep
<1> QED
  BY <1>2, <1>3, <1>4, <1>5, <1>6, <1>7, <1>8 DEF Next, Sweep

LEMMA AlwaysSwept == Spec => []Swept
BY SweptStep, InitSwept, AlwaysBase, PTL DEF Spec

\* A sweep escalates an alert only to a level that the alert is not at, whatever
\* the rules, unless it was under way together with another sweep.
THEOREM EscalationsRaise == Spec => EscalatedAnew
<1>1. ASSUME Base, Swept
      PROVE  \A s \in Sweeps, r \in Events : Escalate(s, r) =>
                 s \in abreast \/ hist'[r].target # hist[r].target
  <2> SUFFICES ASSUME NEW s \in Sweeps, NEW r \in Events, Escalate(s, r), s \notin abreast
               PROVE  hist'[r].target # hist[r].target
    OBVIOUS
  <2> DEFINE level == Escalations[sweep[s].rule].level
             n == [hist[r] EXCEPT !.target = level]
  <2>0. TypeOK
    BY <1>1 DEF Base
  <2>1. level \in Nat
    BY <2>0, RuleTypes DEF TypeOK, Visits
  <2>2. r \in sweep[s].todo /\ sweep[s].reached[r] # level
    BY DEF Escalate, Turn, Applies
  <2>3. hist[r].target # level
    BY <1>1, <2>2 DEF Swept
  <2>4. hist' = [hist EXCEPT ![r] = n]
    BY DEF Escalate
  <2>5. n \in Histories /\ n.target = level
    BY <2>0, <2>1, RaisedRow DEF TypeOK
  <2> HIDE DEF n, level
  <2>6. hist'[r] = n
    BY <2>0, <2>4, <2>5, Rewritten
  <2> QED
    BY <2>3, <2>5, <2>6
<1> QED
  BY <1>1, AlwaysBase, AlwaysSwept, PTL DEF EscalatedAnew

-----------------------------------------------------------------------------
(* Module Notice: the way of the alerts to their channels.                 *)

\* OncePerLife is not inductive: a worker under way, and a key that is free,
\* each stand for an attempt to come.
Pending(c, h) == {w \in Workers : job[w] = c /\ h \in todo[w]}
Free(c) == IF key[c] = "none" THEN 1 ELSE 0

Budget(c, h) == tried[c][h] + Cardinality(Pending(c, h)) + Free(c) <= 1 + lapses[c]

Lives == NoticeTypeOK /\ \A c \in Contents, h \in Channels : Budget(c, h)

-----------------------------------------------------------------------------
LEMMA TypeInit == ASSUME NoticeInit PROVE NoticeTypeOK
  BY NoticeAssumption DEF NoticeInit, NoticeTypeOK, Count

\* Every dispatch step keeps the types.
LEMMA TypeRaise ==
    ASSUME NoticeTypeOK, NEW a \in Alerts, Raise(a) PROVE NoticeTypeOK'
<1> USE DEF platform, service, ghosts
<1>1. PICK task \in {"queued", "none"}, inline \in {"none", "send"} : Launch(a, task, inline)
  BY DEF Raise, Enqueue, EnqueueUnsure, RunInline
<1>2. /\ stage' = [stage EXCEPT ![Task(a)] = task, ![Inline(a)] = inline]
      /\ attempt' = [attempt EXCEPT ![Inline(a)] = IF inline = "send" THEN MaxAttempts ELSE 0]
      /\ UNCHANGED <<row, queue, service, ghosts>>
  BY <1>1 DEF Launch
<1>3. attempt' \in [Dispatches -> 0 .. MaxAttempts]
  <2>1. (IF inline = "send" THEN MaxAttempts ELSE 0) \in 0 .. MaxAttempts
    BY NoticeAssumption
  <2> QED
    BY <1>2, <2>1 DEF NoticeTypeOK
<1>4. stage' \in [Dispatches -> {"none", "raised", "queued", "send", "mark", "local",
                                "localSent", "localFailed", "fail", "raise", "done",
                                "gaveup", "dead"}]
  BY <1>2 DEF NoticeTypeOK
<1> QED
  BY <1>2, <1>3, <1>4 DEF NoticeTypeOK

LEMMA TypePlatform ==
    ASSUME NoticeTypeOK, NEW d \in Dispatches, Proceed(d) \/ PlatformDies(d) PROVE NoticeTypeOK'
<1> USE NoticeAssumption DEF NoticeTypeOK, Count, Move, Plus, Save,
            platform, service, ghosts, Sends
<1>0. d[1] \in Alerts /\ Content[d[1]] \in Contents
  BY DEF Dispatches
<1>3. CASE Start(d) BY <1>3 DEF Start
<1>4. CASE Publish(d) BY <1>0, <1>4 DEF Publish
<1>5. CASE PublishUnsure(d) BY <1>0, <1>5 DEF PublishUnsure
<1>6. CASE PublishFails(d) BY <1>0, <1>6 DEF PublishFails
<1>7. CASE SendLocally(d) BY <1>0, <1>7 DEF SendLocally
<1>8. CASE MarkSent(d) BY <1>0, <1>8 DEF MarkSent
<1>9. CASE MarkFailed(d) BY <1>0, <1>9 DEF MarkFailed
<1>10. CASE SaveFails(d) BY <1>0, <1>10 DEF SaveFails
<1>11. CASE Retry(d)
  <2>1. stage' \in [Dispatches -> {"send", "gaveup"} \cup {stage[e] : e \in Dispatches}]
    BY <1>11 DEF Retry
  <2>2. attempt' \in [Dispatches -> 0 .. MaxAttempts]
    <3>1. CASE attempt[d] < MaxAttempts
      <4>1. attempt[d] + 1 \in 0 .. MaxAttempts BY <3>1
      <4>2. attempt' = [attempt EXCEPT ![d] = attempt[d] + 1] BY <1>11, <3>1 DEF Retry
      <4> QED BY <4>1, <4>2
    <3>2. CASE ~(attempt[d] < MaxAttempts) BY <1>11, <3>2 DEF Retry
    <3> QED BY <3>1, <3>2
  <2> QED BY <1>11, <2>1, <2>2 DEF Retry
<1>12. CASE PlatformDies(d) BY <1>12 DEF PlatformDies
<1> QED BY <1>3, <1>4, <1>5, <1>6, <1>7, <1>8, <1>9, <1>10, <1>11, <1>12
       DEF Proceed

\* So does every step of the service and of its keys.
LEMMA TypeService ==
    ASSUME NoticeTypeOK, NEW w \in Workers,
           Receive(w) \/ Carry(w) \/ WorkerDies(w)
    PROVE  NoticeTypeOK'
<1> USE NoticeAssumption DEF NoticeTypeOK, Count, Plus, Take, Work,
            platform, service, ghosts
<1>1. ASSUME NEW c \in Contents, Reserve(w, c) PROVE NoticeTypeOK' BY <1>1 DEF Reserve
<1>2. ASSUME NEW c \in Contents, SkipKnown(w, c) PROVE NoticeTypeOK' BY <1>2 DEF SkipKnown
<1>3. ASSUME NEW c \in Contents, SendUnguarded(w, c) PROVE NoticeTypeOK'
  <2>1. lapses' \in [Contents -> Nat]
    BY <1>3 DEF SendUnguarded
  <2>2. /\ queue' \in [Contents -> Nat] /\ job' \in [Workers -> Contents \cup {NoJob}]
        /\ todo' \in [Workers -> SUBSET Channels]
    BY <1>3 DEF SendUnguarded
  <2> QED
    BY <1>3, <2>1, <2>2 DEF SendUnguarded
<1>4. ASSUME NEW c \in Contents, TaskFails(w, c) PROVE NoticeTypeOK'
  <2>1. key' \in [Contents -> {"none", "busy", "done"}]
    BY <1>4 DEF TaskFails
  <2>2. queue' \in [Contents -> Nat] /\ lost' \subseteq Contents
    BY <1>4 DEF TaskFails
  <2> QED
    BY <1>4, <2>1, <2>2 DEF TaskFails
<1>5. ASSUME NEW h \in Channels, Try(w, h) PROVE NoticeTypeOK'
  <2>1. CASE job[w] = NoJob BY <1>5, <2>1 DEF Try
  <2>2. CASE job[w] \in Contents
    <3>1. Plus(tried[job[w]], h) \in [Channels -> Nat] BY <2>2
    <3> QED BY <1>5, <2>2, <3>1 DEF Try
  <2> QED BY <2>1, <2>2
<1>6. CASE Finish(w) BY <1>6 DEF Finish
<1>7. CASE WorkerDies(w) BY <1>7 DEF WorkerDies
<1> QED BY <1>1, <1>2, <1>3, <1>4, <1>5, <1>6, <1>7 DEF Receive, Carry

LEMMA TypeLapse ==
    ASSUME NoticeTypeOK, NEW c \in Contents, Lapse(c)
    PROVE  NoticeTypeOK'
  BY DEF NoticeTypeOK, Count, Plus, Lapse, platform

-----------------------------------------------------------------------------
\* The workers that have an attempt to make are counted: the set is finite.
LEMMA PendingFinite ==
    ASSUME NEW c, NEW h
    PROVE  IsFiniteSet(Pending(c, h)) /\ Cardinality(Pending(c, h)) \in Nat
  BY FS_Subset, FS_CardinalityType, NoticeAssumption DEF Pending

LEMMA PendingFiniteNext ==
    ASSUME NEW c, NEW h
    PROVE  IsFiniteSet(Pending(c, h)') /\ Cardinality(Pending(c, h)') \in Nat
  BY FS_Subset, FS_CardinalityType, NoticeAssumption DEF Pending

\* One worker more has at most one attempt more to make, one without channels
\* left has one less.
LEMMA OneMore ==
    ASSUME NEW c, NEW h, NEW w \in Workers,
           Pending(c, h)' \subseteq Pending(c, h) \cup {w}
    PROVE  Cardinality(Pending(c, h)') <= Cardinality(Pending(c, h)) + 1
<1>1. IsFiniteSet(Pending(c, h) \cup {w})
      /\ Cardinality(Pending(c, h) \cup {w}) <= Cardinality(Pending(c, h)) + 1
  <2>1. CASE w \in Pending(c, h)
    <3>1. Pending(c, h) \cup {w} = Pending(c, h) BY <2>1
    <3>2. Cardinality(Pending(c, h)) <= Cardinality(Pending(c, h)) + 1 BY PendingFinite
    <3> QED BY <3>1, <3>2, PendingFinite
  <2>2. CASE w \notin Pending(c, h) BY <2>2, PendingFinite, FS_AddElement
  <2> QED BY <2>1, <2>2
<1>2. Cardinality(Pending(c, h)') <= Cardinality(Pending(c, h) \cup {w})
      BY <1>1, FS_Subset
<1> QED BY <1>1, <1>2, PendingFinite, PendingFiniteNext, FS_CardinalityType

LEMMA NoMore ==
    ASSUME NEW c, NEW h, Pending(c, h)' \subseteq Pending(c, h)
    PROVE  Cardinality(Pending(c, h)') <= Cardinality(Pending(c, h))
  BY PendingFinite, FS_Subset

LEMMA OneLess ==
    ASSUME NEW c, NEW h, NEW w \in Pending(c, h),
           Pending(c, h)' \subseteq Pending(c, h) \ {w}
    PROVE  Cardinality(Pending(c, h)') + 1 <= Cardinality(Pending(c, h))
<1>1. IsFiniteSet(Pending(c, h) \ {w})
      /\ Cardinality(Pending(c, h) \ {w}) = Cardinality(Pending(c, h)) - 1
      BY PendingFinite, FS_RemoveElement
<1>2. Cardinality(Pending(c, h)') <= Cardinality(Pending(c, h) \ {w})
      BY <1>1, FS_Subset
<1> QED BY <1>1, <1>2, PendingFinite, PendingFiniteNext

-----------------------------------------------------------------------------
LEMMA InvInit == ASSUME NoticeInit PROVE Lives
<1>1. NoticeTypeOK BY TypeInit
<1>2. ASSUME NEW c \in Contents, NEW h \in Channels PROVE Budget(c, h)
  <2>1. Pending(c, h) = {} BY DEF Pending, NoticeInit
  <2> QED BY <1>2, <2>1, FS_EmptySet DEF Budget, Free, NoticeInit
<1> QED BY <1>1, <1>2 DEF Lives

\* What the dispatch of an alert does leaves the service alone.
LEMMA InvPlatform ==
    ASSUME Lives,
           \/ \E a \in Alerts : Raise(a)
           \/ \E d \in Dispatches : Proceed(d) \/ PlatformDies(d)
    PROVE  Lives'
<1>1. NoticeTypeOK' BY TypeRaise, TypePlatform DEF Lives
<1>2. UNCHANGED <<service, lapses>>
  BY DEF Raise, Launch, Proceed, Enqueue, EnqueueUnsure, RunInline, Start, Publish,
         PublishUnsure, PublishFails,
         SendLocally, MarkSent, MarkFailed, Save, SaveFails,
         Retry, PlatformDies, ghosts
<1>3. ASSUME NEW c \in Contents, NEW h \in Channels PROVE Budget(c, h)'
  <2>1. Pending(c, h)' = Pending(c, h) BY <1>2 DEF Pending, service
  <2> QED BY <1>2, <2>1 DEF Lives, Budget, Free, service
<1> QED BY <1>1, <1>3 DEF Lives

\* A worker that takes up a content uses the free key, or a lapse.
LEMMA InvReceive ==
    ASSUME Lives, NEW w \in Workers, Receive(w) PROVE Lives'
<1>1. NoticeTypeOK' BY TypeService DEF Lives
<1>2. PICK d \in Contents :
          Reserve(w, d) \/ SkipKnown(w, d) \/ SendUnguarded(w, d) \/
          TaskFails(w, d)
  BY DEF Receive
<1> USE DEF Take, Work, platform, service, ghosts
<1>4. ASSUME NEW c \in Contents, NEW h \in Channels PROVE Budget(c, h)'
  <2> /\ Budget(c, h) /\ tried[c][h] \in Nat /\ lapses[c] \in Nat
      /\ Cardinality(Pending(c, h)) \in Nat /\ Cardinality(Pending(c, h)') \in Nat
    BY <1>4, PendingFinite, PendingFiniteNext DEF Lives, NoticeTypeOK, Count
  <2>1. CASE Reserve(w, d)
    <3>1. CASE c = d
      <4>1. Pending(c, h)' \subseteq Pending(c, h) \cup {w}
        BY <2>1 DEF Pending, Reserve, Lives, NoticeTypeOK
      <4>2. Free(c) = 1 /\ Free(c)' = 0 BY <2>1, <3>1 DEF Free, Reserve, Lives, NoticeTypeOK
      <4>3. tried' = tried /\ lapses' = lapses BY <2>1 DEF Reserve
      <4> QED BY <4>1, <4>2, <4>3, OneMore DEF Budget
    <3>2. CASE c # d
      <4>1. Pending(c, h)' \subseteq Pending(c, h)
        BY <2>1, <3>2 DEF Pending, Reserve, Lives, NoticeTypeOK
      <4>2. Free(c)' = Free(c) /\ Free(c) \in Nat
        BY <2>1, <3>2 DEF Free, Reserve, Lives, NoticeTypeOK
      <4>3. tried' = tried /\ lapses' = lapses BY <2>1 DEF Reserve
      <4> QED BY <4>1, <4>2, <4>3, NoMore DEF Budget
    <3> QED BY <3>1, <3>2
  <2>2. CASE SendUnguarded(w, d)
    <3>1. Free(c)' = Free(c) /\ Free(c) \in Nat /\ tried' = tried
      BY <2>2 DEF Free, SendUnguarded
    <3>2. CASE c = d
      <4>1. Pending(c, h)' \subseteq Pending(c, h) \cup {w}
        BY <2>2 DEF Pending, SendUnguarded, Lives, NoticeTypeOK
      <4>2. lapses'[c] = lapses[c] + 1
        BY <2>2, <3>2 DEF SendUnguarded, Lives, NoticeTypeOK, Count, Plus
      <4> QED BY <3>1, <4>1, <4>2, OneMore DEF Budget
    <3>3. CASE c # d
      <4>1. Pending(c, h)' \subseteq Pending(c, h)
        BY <2>2, <3>3 DEF Pending, SendUnguarded, Lives, NoticeTypeOK
      <4>2. lapses'[c] = lapses[c]
        BY <2>2, <3>3 DEF SendUnguarded, Lives, NoticeTypeOK, Count, Plus
      <4> QED BY <3>1, <4>1, <4>2, NoMore DEF Budget
    <3> QED BY <3>2, <3>3
  <2>3. CASE SkipKnown(w, d) \/ TaskFails(w, d)
    <3>1. UNCHANGED <<tried, lapses, job, todo>> BY <2>3 DEF SkipKnown, TaskFails
    <3>2. Pending(c, h)' = Pending(c, h) BY <3>1 DEF Pending
    <3>3. Free(c)' <= Free(c) /\ Free(c) \in Nat /\ Free(c)' \in Nat
      BY <2>3 DEF Free, SkipKnown, TaskFails, Lives, NoticeTypeOK
    <3> QED BY <3>1, <3>2, <3>3 DEF Budget
  <2> QED BY <1>2, <2>1, <2>2, <2>3
<1> QED BY <1>1, <1>4 DEF Lives

\* An attempt that is made is no longer to come.
LEMMA InvCarry ==
    ASSUME Lives, NEW w \in Workers, Carry(w) \/ WorkerDies(w)
    PROVE  Lives'
<1>1. NoticeTypeOK' BY TypeService DEF Lives
<1> USE DEF platform, service, ghosts
<1>3. ASSUME NEW c \in Contents, NEW h \in Channels PROVE Budget(c, h)'
  <2> /\ Budget(c, h) /\ tried[c][h] \in Nat /\ lapses[c] \in Nat
      /\ Cardinality(Pending(c, h)) \in Nat /\ Cardinality(Pending(c, h)') \in Nat
    BY <1>3, PendingFinite, PendingFiniteNext DEF Lives, NoticeTypeOK, Count
  <2>1. ASSUME NEW g \in Channels, Try(w, g) PROVE Budget(c, h)'
    <3>1. Free(c)' = Free(c) /\ Free(c) \in Nat /\ lapses' = lapses BY <2>1 DEF Free, Try
    <3>2. CASE job[w] = c /\ g = h
      <4>1. w \in Pending(c, h) BY <2>1, <3>2 DEF Pending, Try
      <4>2. Pending(c, h)' \subseteq Pending(c, h) \ {w}
        BY <2>1, <3>2 DEF Pending, Try, Lives, NoticeTypeOK
      <4>3. tried'[c][h] = tried[c][h] + 1
        BY <2>1, <3>2 DEF Try, Lives, NoticeTypeOK, Plus
      <4> QED BY <3>1, <4>1, <4>2, <4>3, OneLess DEF Budget
    <3>3. CASE ~(job[w] = c /\ g = h)
      <4>1. Pending(c, h)' \subseteq Pending(c, h)
        BY <2>1 DEF Pending, Try, Lives, NoticeTypeOK
      <4>2. tried'[c][h] = tried[c][h]
        BY <2>1, <3>3 DEF Try, Lives, NoticeTypeOK, Plus
      <4> QED BY <3>1, <4>1, <4>2, NoMore DEF Budget
    <3> QED BY <3>2, <3>3
  <2>2. CASE Finish(w) \/ WorkerDies(w)
    <3>1. tried' = tried /\ lapses' = lapses BY <2>2 DEF Finish, WorkerDies
    <3>2. Free(c)' <= Free(c) /\ Free(c) \in Nat /\ Free(c)' \in Nat
      BY <2>2 DEF Free, Finish, WorkerDies, Lives, NoticeTypeOK
    <3>3. Pending(c, h)' \subseteq Pending(c, h)
      BY <2>2 DEF Pending, Finish, WorkerDies, Lives, NoticeTypeOK
    <3> QED BY <3>1, <3>2, <3>3, NoMore DEF Budget
  <2> QED BY <2>1, <2>2 DEF Carry
<1> QED BY <1>1, <1>3 DEF Lives

\* A key that goes is free again, and that is counted.
LEMMA InvLapse ==
    ASSUME Lives, NEW d \in Contents, Lapse(d) PROVE Lives'
<1>1. NoticeTypeOK' BY TypeLapse DEF Lives
<1> USE DEF platform
<1>3. ASSUME NEW c \in Contents, NEW h \in Channels PROVE Budget(c, h)'
  <2>1. Pending(c, h)' = Pending(c, h) /\ tried' = tried BY DEF Pending, Lapse
  <2>2. Budget(c, h) /\ tried[c][h] \in Nat /\ lapses[c] \in Nat
        /\ Cardinality(Pending(c, h)) \in Nat
    BY <1>3, PendingFinite DEF Lives, NoticeTypeOK, Count
  <2>3. CASE c = d
    <3>1. Free(c) = 0 /\ Free(c)' = 1 /\ lapses'[c] = lapses[c] + 1
      BY <2>3 DEF Free, Lapse, Lives, NoticeTypeOK, Count, Plus
    <3> QED BY <2>1, <2>2, <3>1 DEF Budget
  <2>4. CASE c # d
    <3>1. Free(c)' = Free(c) /\ lapses'[c] = lapses[c]
      BY <2>4 DEF Free, Lapse, Lives, NoticeTypeOK, Count, Plus
    <3> QED BY <2>1, <2>2, <3>1 DEF Budget
  <2> QED BY <2>3, <2>4
<1> QED BY <1>1, <1>3 DEF Lives

LEMMA InvStutter == ASSUME Lives, UNCHANGED noticeVars PROVE Lives'
  BY DEF Lives, Budget, Pending, Free, NoticeTypeOK, Count, noticeVars, platform,
         service, ghosts

LEMMA InvOnce == ASSUME Lives PROVE OncePerLife
<1> SUFFICES ASSUME NEW c \in Contents, NEW h \in Channels
             PROVE  tried[c][h] <= 1 + lapses[c]
  BY DEF Lives, OncePerLife
<1>1. tried[c][h] \in Nat /\ lapses[c] \in Nat /\ Free(c) \in Nat
      /\ Cardinality(Pending(c, h)) \in Nat /\ Budget(c, h)
  BY PendingFinite DEF Lives, NoticeTypeOK, Count, Free
<1> QED BY <1>1 DEF Budget

\* The service tries a content on a channel once, and once more for each time
\* its key lapsed or Redis was found down, however many messages, alerts and
\* workers there are and wherever a worker dies.
THEOREM AlwaysOncePerLife == NoticeSpec => []OncePerLife
<1>1. Lives /\ [NoticeNext]_noticeVars => Lives'
  BY InvPlatform, InvReceive, InvCarry, InvLapse, InvStutter DEF NoticeNext
<1>2. NoticeInit => Lives
  BY InvInit
<1>3. Lives => OncePerLife
  BY InvOnce
<1> QED
  BY <1>1, <1>2, <1>3, PTL DEF NoticeSpec

-----------------------------------------------------------------------------
(* What backs a row that says sent.                                        *)

AllTried(c) == \A h \in Channels : tried[c][h] > 0

\* Somebody is at it, or has done it, or has died or failed over it.
InHand(c) == (\E w \in Workers : job[w] = c) \/ AllTried(c) \/ c \in lost

Backed(c) == queue[c] > 0 \/ InHand(c) \/ c \in locally

\* Skipping a message is safe because a key is there for a reason; finishing
\* is, because the channels off the list have been tried.
Reasons ==
    /\ \A w \in Workers : job[w] # NoJob =>
           \A h \in Channels \ todo[w] : tried[job[w]][h] > 0
    /\ \A c \in Contents : key[c] # "none" => InHand(c)
    /\ \A a \in Alerts : row[a] = "sent" => Backed(Content[a])
    /\ \A d \in Dispatches : /\ stage[d] = "mark" => Backed(Sends(d))
                             /\ stage[d] = "localSent" => Sends(d) \in locally

SentIsBacked == \A a \in Alerts : row[a] = "sent" => Backed(Content[a])

LEMMA ReasonsInit == ASSUME NoticeInit PROVE Reasons
  BY NoticeAssumption DEF NoticeInit, Reasons

LEMMA ContentOf ==
    /\ \A a \in Alerts : Content[a] \in Contents
    /\ \A d \in Dispatches : d[1] \in Alerts /\ Sends(d) \in Contents /\ Sends(d) = Content[d[1]]
<1>1. \A a \in Alerts : Content[a] \in Contents
  BY NoticeAssumption
<1>2. \A d \in Dispatches : d[1] \in Alerts
  BY DEF Dispatches
<1> QED
  BY <1>1, <1>2 DEF Sends

\* Who backs a content goes on doing so, or has done it: then the rows and
\* the stages that rely on it may stay.
LEMMA ReasonsKept ==
    ASSUME Reasons, UNCHANGED <<row, stage>>,
           \A w \in Workers : job'[w] # NoJob =>
               \A h \in Channels \ todo'[w] : tried'[job'[w]][h] > 0,
           \A c \in Contents : /\ InHand(c) => InHand(c)'
                               /\ Backed(c) => Backed(c)'
                               /\ key'[c] # "none" => InHand(c)',
           locally' = locally
    PROVE  Reasons'
  BY ContentOf DEF Reasons

LEMMA ReasonsRaise ==
    ASSUME NoticeTypeOK, Reasons, NEW a \in Alerts, Raise(a)
    PROVE  Reasons'
<1> USE DEF platform, service, ghosts
<1>1. PICK task \in {"queued", "none"}, inline \in {"none", "send"} : Launch(a, task, inline)
  BY DEF Raise, Enqueue, EnqueueUnsure, RunInline
<1>2. /\ stage' = [stage EXCEPT ![Task(a)] = task, ![Inline(a)] = inline]
      /\ UNCHANGED <<row, queue, service, ghosts>>
  BY <1>1 DEF Launch
<1>3. \A e \in Dispatches : stage'[e] = stage[e] \/ stage'[e] \in {"queued", "none", "send"}
  BY <1>2 DEF NoticeTypeOK
<1>4. \A c \in Contents : InHand(c)' = InHand(c) /\ Backed(c)' = Backed(c)
  BY <1>2 DEF InHand, Backed, AllTried
<1> QED
  BY <1>2, <1>3, <1>4, ContentOf DEF Reasons, Sends

LEMMA ReasonsPlatform ==
    ASSUME NoticeTypeOK, Reasons, NEW d \in Dispatches, Proceed(d) \/ PlatformDies(d)
    PROVE  Reasons'
<1> USE DEF Move, Save, platform, service, ghosts
<1>1. ASSUME UNCHANGED <<service, lost>>, locally \subseteq locally',
             \A c \in Contents : queue[c] > 0 => queue'[c] > 0
      PROVE  /\ \A c \in Contents : InHand(c) <=> InHand(c)'
             /\ \A c \in Contents : Backed(c) => Backed(c)'
  BY <1>1 DEF InHand, Backed, AllTried
<1>2. ASSUME UNCHANGED <<service, lost>>, locally \subseteq locally',
             \A c \in Contents : queue[c] > 0 => queue'[c] > 0,
             \A b \in Alerts \ {d[1]} : row'[b] = row[b],
             \A e \in Dispatches \ {d} : stage'[e] = stage[e],
             row'[d[1]] = "sent" => row[d[1]] = "sent" \/ stage[d] \in {"mark", "localSent"},
             stage'[d] = "mark" => queue'[Sends(d)] > 0,
             stage'[d] = "localSent" => Sends(d) \in locally'
      PROVE  Reasons'
  <2>1. \A c \in Contents : (InHand(c) <=> InHand(c)') /\ (Backed(c) => Backed(c)')
    BY <1>1, <1>2
  <2>2. Sends(d) \in Contents
    BY ContentOf
  <2>3. row'[d[1]] = "sent" => Backed(Sends(d))'
    BY <1>2, <2>1, <2>2, ContentOf DEF Reasons, Backed
  <2>4. stage'[d] = "mark" => Backed(Sends(d))'
    BY <1>2 DEF Backed
  <2> QED
    BY <1>2, <2>1, <2>3, <2>4, ContentOf DEF Reasons
<1>3. CASE \/ Start(d)
           \/ PublishFails(d) \/ SaveFails(d) \/ Retry(d) \/ PlatformDies(d)
  <2>1. UNCHANGED <<row, queue, service, ghosts>>
    BY <1>3 DEF Start, PublishFails, SaveFails,
                Retry, PlatformDies
  <2>2. /\ \A e \in Dispatches \ {d} : stage'[e] = stage[e]
        /\ stage'[d] \notin {"mark", "localSent"}
    BY <1>3 DEF Start, PublishFails, SaveFails,
                Retry, PlatformDies, NoticeTypeOK
  <2> QED
    BY <1>2, <2>1, <2>2
<1>4. CASE Publish(d) \/ PublishUnsure(d)
  <2>1. /\ UNCHANGED <<row, service, ghosts>>
        /\ \A e \in Dispatches \ {d} : stage'[e] = stage[e]
        /\ stage'[d] # "localSent"
    BY <1>4 DEF Publish, PublishUnsure, NoticeTypeOK
  <2>2. \A c \in Contents : queue'[c] = IF c = Sends(d) THEN queue[c] + 1 ELSE queue[c]
    BY <1>4 DEF Publish, PublishUnsure, Plus, NoticeTypeOK, Count
  <2>3. \A c \in Contents : queue[c] \in Nat
    BY DEF NoticeTypeOK, Count
  <2>4. queue'[Sends(d)] > 0 /\ \A c \in Contents : queue[c] > 0 => queue'[c] > 0
    BY <2>2, <2>3, ContentOf
  <2> QED
    BY <1>2, <2>1, <2>4
<1>5. CASE SendLocally(d)
  <2>1. /\ UNCHANGED <<row, queue, service, lost>>
        /\ locally' = locally \cup {Sends(d)}
        /\ \A e \in Dispatches \ {d} : stage'[e] = stage[e]
        /\ stage'[d] # "mark"
    BY <1>5 DEF SendLocally, NoticeTypeOK
  <2> QED
    BY <1>2, <2>1
<1>6. CASE MarkSent(d) \/ MarkFailed(d)
  <2>1. /\ UNCHANGED <<queue, service, ghosts>>
        /\ \A b \in Alerts \ {d[1]} : row'[b] = row[b]
        /\ \A e \in Dispatches \ {d} : stage'[e] = stage[e]
        /\ stage'[d] = "done"
        /\ row'[d[1]] = "sent" => stage[d] \in {"mark", "localSent"}
    BY <1>6, ContentOf DEF MarkSent, MarkFailed, NoticeTypeOK
  <2> QED
    BY <1>2, <2>1
<1> QED
  BY <1>3, <1>4, <1>5, <1>6 DEF Proceed

LEMMA ReasonsReceive ==
    ASSUME NoticeTypeOK, Reasons, NEW w \in Workers, Receive(w)
    PROVE  Reasons'
<1> USE DEF Take, Work, platform, service, ghosts
<1>1. PICK d \in Contents :
          Reserve(w, d) \/ SkipKnown(w, d) \/ SendUnguarded(w, d) \/
          TaskFails(w, d)
  BY DEF Receive
<1>2. /\ UNCHANGED <<row, stage, tried, locally>>
      /\ job[w] = NoJob /\ NoJob \notin Contents /\ lost \subseteq lost'
      /\ \A c \in Contents \ {d} : queue'[c] = queue[c] /\ key'[c] = key[c]
  BY <1>1, NoticeAssumption DEF Reserve, SkipKnown, SendUnguarded, TaskFails,
              NoticeTypeOK, Count
<1>3. \A v \in Workers \ {w} : job'[v] = job[v] /\ todo'[v] = todo[v]
  BY <1>1 DEF Reserve, SkipKnown, SendUnguarded, TaskFails, NoticeTypeOK
<1>4. \/ job'[w] = d /\ todo'[w] = Channels
      \/ job'[w] = job[w] /\ (key[d] # "none" \/ d \in lost')
  BY <1>1 DEF Reserve, SkipKnown, SendUnguarded, TaskFails, NoticeTypeOK
<1>5. \A c \in Contents : InHand(c) => InHand(c)'
  BY <1>2, <1>3 DEF InHand, AllTried
<1>6. InHand(d)'
  BY <1>2, <1>4, <1>5 DEF InHand, Reasons
<1>7. \A c \in Contents : Backed(c) => Backed(c)'
  BY <1>2, <1>5, <1>6 DEF Backed
<1>8. \A v \in Workers : job'[v] # NoJob =>
          \A h \in Channels \ todo'[v] : tried'[job'[v]][h] > 0
  BY <1>2, <1>3, <1>4 DEF Reasons
<1>9. \A c \in Contents : key'[c] # "none" => InHand(c)'
  BY <1>2, <1>5, <1>6 DEF Reasons
<1> QED
  BY <1>2, <1>5, <1>7, <1>8, <1>9, ReasonsKept

LEMMA ReasonsCarry ==
    ASSUME NoticeTypeOK, Reasons, NEW w \in Workers,
           Carry(w) \/ WorkerDies(w)
    PROVE  Reasons'
<1> USE DEF platform, service, ghosts
<1>1. ASSUME NEW g \in Channels, Try(w, g) PROVE Reasons'
  <2>1. UNCHANGED <<row, stage, queue, key, job, locally, lost>>
    BY <1>1 DEF Try
  <2>2. \A c \in Contents, h \in Channels :
            tried'[c][h] = IF job[w] = c /\ h = g THEN tried[c][h] + 1 ELSE tried[c][h]
    <3>1. CASE job[w] \in Contents
      BY <1>1, <3>1 DEF Try, Plus, NoticeTypeOK
    <3>2. CASE job[w] = NoJob
      BY <1>1, <3>2, NoticeAssumption DEF Try, Plus, NoticeTypeOK
    <3> QED
      BY <3>1, <3>2 DEF NoticeTypeOK
  <2>3. \A c \in Contents, h \in Channels : tried[c][h] \in Nat
    BY DEF NoticeTypeOK
  <2>4. \A c \in Contents, h \in Channels :
            /\ tried[c][h] > 0 => tried'[c][h] > 0
            /\ job[w] = c /\ h = g => tried'[c][h] > 0
    BY <2>2, <2>3
  <2>5. /\ todo'[w] = todo[w] \ {g}
        /\ \A v \in Workers \ {w} : todo'[v] = todo[v]
    BY <1>1 DEF Try, NoticeTypeOK
  <2>6. \A c \in Contents : (InHand(c) => InHand(c)') /\ (Backed(c) => Backed(c)')
    BY <2>1, <2>4 DEF InHand, Backed, AllTried
  <2>7. ASSUME NEW v \in Workers, job'[v] # NoJob, NEW h \in Channels \ todo'[v]
        PROVE  tried'[job'[v]][h] > 0
    <3>1. job[v] \in Contents /\ job'[v] = job[v]
      BY <2>1, <2>7 DEF NoticeTypeOK
    <3>2. h \notin todo[v] => tried[job[v]][h] > 0
      BY <3>1, <2>1, <2>7 DEF Reasons
    <3>3. h \in todo[v] => v = w /\ h = g
      BY <2>5, <2>7
    <3> QED
      BY <2>4, <2>7, <3>1, <3>2, <3>3
  <2>8. \A c \in Contents : key'[c] # "none" => InHand(c)'
    BY <2>1, <2>6 DEF Reasons
  <2> QED
    BY <2>1, <2>6, <2>7, <2>8, ReasonsKept
<1>2. ASSUME UNCHANGED <<row, stage, queue, tried, locally>>, job[w] \in Contents,
             job' = [job EXCEPT ![w] = NoJob], lost \subseteq lost',
             \A v \in Workers \ {w} : todo'[v] = todo[v],
             AllTried(job[w]) \/ job[w] \in lost',
             \A c \in Contents : key'[c] # "none" => key[c] # "none"
      PROVE  Reasons'
  <2>1. job'[w] = NoJob /\ \A v \in Workers \ {w} : job'[v] = job[v]
    BY <1>2 DEF NoticeTypeOK
  <2>2. \A c \in Contents : (InHand(c) => InHand(c)') /\ (Backed(c) => Backed(c)')
    BY <1>2, <2>1 DEF InHand, Backed, AllTried
  <2>3. \A v \in Workers : job'[v] # NoJob =>
            \A h \in Channels \ todo'[v] : tried'[job'[v]][h] > 0
    BY <1>2, <2>1 DEF Reasons
  <2>4. \A c \in Contents : key'[c] # "none" => InHand(c)'
    BY <1>2, <2>2 DEF Reasons
  <2> QED
    BY <1>2, <2>2, <2>3, <2>4, ReasonsKept
<1>3. CASE Finish(w)
  <2>1. job[w] \in Contents /\ todo[w] = {}
    BY <1>3 DEF Finish, NoticeTypeOK
  <2>2. AllTried(job[w])
    BY <2>1, NoticeAssumption DEF AllTried, Reasons
  <2>3. \A c \in Contents : key'[c] # "none" => key[c] # "none"
    BY <1>3 DEF Finish, NoticeTypeOK
  <2> QED
    BY <1>2, <1>3, <2>1, <2>2, <2>3 DEF Finish
<1>4. CASE WorkerDies(w)
  <2>1. job[w] \in Contents /\ \A v \in Workers \ {w} : todo'[v] = todo[v]
    BY <1>4 DEF WorkerDies, NoticeTypeOK
  <2> QED
    BY <1>2, <1>4, <2>1 DEF WorkerDies
<1> QED
  BY <1>1, <1>3, <1>4 DEF Carry

LEMMA ReasonsLapse ==
    ASSUME NoticeTypeOK, Reasons, NEW d \in Contents, Lapse(d)
    PROVE  Reasons'
<1>1. UNCHANGED <<row, stage, queue, job, todo, tried, locally, lost>>
  BY DEF Lapse, platform
<1>2. \A c \in Contents : key'[c] # "none" => key[c] # "none"
  BY DEF Lapse, NoticeTypeOK
<1>3. \A c \in Contents : (InHand(c) => InHand(c)') /\ (Backed(c) => Backed(c)')
  BY <1>1 DEF InHand, Backed, AllTried
<1>4. \A c \in Contents : key'[c] # "none" => InHand(c)'
  BY <1>2, <1>3 DEF Reasons
<1>5. \A w \in Workers : job'[w] # NoJob =>
          \A h \in Channels \ todo'[w] : tried'[job'[w]][h] > 0
  BY <1>1 DEF Reasons
<1> QED
  BY <1>1, <1>3, <1>4, <1>5, ReasonsKept

LEMMA ReasonsStutter == ASSUME Reasons, UNCHANGED noticeVars PROVE Reasons'
  BY DEF Reasons, Backed, InHand, AllTried, noticeVars, platform, service, ghosts

\* At no moment does a row say sent for nothing: a message of its content is
\* queued, a worker is at it, every channel has been tried, the platform has
\* sent it itself, or a message of it was lost with a worker or with Redis.
\* Fairness then makes SentIsTried of it.
THEOREM AlwaysSentIsBacked == NoticeSpec => []SentIsBacked
<1>1. Lives /\ Reasons /\ [NoticeNext]_noticeVars => Lives' /\ Reasons'
  <2> SUFFICES ASSUME Lives, Reasons, [NoticeNext]_noticeVars PROVE Lives' /\ Reasons'
    OBVIOUS
  <2>1. NoticeTypeOK
    BY DEF Lives
  <2>2. Lives'
    BY InvPlatform, InvReceive, InvCarry, InvLapse, InvStutter DEF NoticeNext
  <2>3. Reasons'
    BY <2>1, ReasonsRaise, ReasonsPlatform, ReasonsReceive, ReasonsCarry, ReasonsLapse,
       ReasonsStutter DEF NoticeNext
  <2> QED
    BY <2>2, <2>3
<1>2. Reasons => SentIsBacked
  BY DEF Reasons, SentIsBacked
<1>3. NoticeInit => Lives /\ Reasons
  BY InvInit, ReasonsInit
<1> QED
  BY <1>1, <1>2, <1>3, PTL DEF NoticeSpec
=============================================================================
