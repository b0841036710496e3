----------------------------- MODULE AlertEngine -----------------------------
(***************************************************************************)
(* The alert engine, seen from one rule and one title: evaluations that    *)
(* record and announce alerts, manual triggers, silences, acknowledgement  *)
(* and resolution, the workers that dispatch notifications, and the        *)
(* periodic check of escalations.  Time passes in minutes.                 *)
(*                                                                         *)
(* An event that creates an AlertHistory row gives the row its name.       *)
(***************************************************************************)
EXTENDS Integers, FiniteSets, Sequences

CONSTANTS
    Events,         \* log messages that match the rule
    Manual,         \* those that are calls of trigger instead
    Users,          \* calls of acknowledge and resolve
    Sweeps,         \* processes that run check_escalations, time and again
    Window,         \* suppression_window
    Escalations,    \* escalation_rules: a sequence of [delay, level]
    Horizon,        \* bound: the age up to which alerts are told apart
    None            \* no row

ASSUME ParameterAssumption ==
    /\ IsFiniteSet(Events) /\ Manual \subseteq Events /\ None \notin Events
    /\ Window \in Nat
    /\ Escalations \in Seq([delay : Nat, level : Nat \ {0}]) /\ Escalations # <<>>
    /\ Horizon \in Nat /\ \A k \in 1 .. Len(Escalations) : Escalations[k].delay <= Horizon

VARIABLES
    hist,       \* the AlertHistory rows
    last,       \* minutes since last_occurred_at, Window + 1 at most
    first,      \* minutes since first_occurred_at, Horizon at most
    pc,         \* where each event is
    into,       \* the row it is recorded in
    count,      \* the occurrences it has read
    pending,    \* rows with dispatch_alert messages waiting, one or more
    told,       \* rows announced when they were created
    beside,     \* the events each event has been under way together with
    user,       \* what each user call has read: its kind and its row
    sweep,      \* each sweep: the rows it has read, and how far it is
    abreast     \* the sweeps that were under way together with another

alerts == <<hist, last, first>>
events == <<pc, into, count, told, beside>>
sweeps == <<sweep, abreast>>
vars == <<alerts, events, pending, user, sweeps>>

Rules == 1 .. Len(Escalations)

\* target is context["_escalated_to"], and level and channels follow from it.
Row(status) == [status |-> status, seen |-> 1, acked |-> FALSE,
                resolved |-> FALSE, target |-> 0]
Absent == [Row("none") EXCEPT !.seen = 0]
Exists(r) == hist[r].status # "none"
Rows == {r \in Events : Exists(r)}

\* No property tells SENT from FAILED: both are DISPATCHED.
Statuses == {"none", "PENDING", "DISPATCHED", "SUPPRESSED", "SILENCED"}
Histories == [status : Statuses, seen : Nat,
              acked : BOOLEAN, resolved : BOOLEAN, target : Nat]

\* The rows still to visit and the one being visited, the rule looked at, and
\* what the query returned of the rows to visit: the rules due and the level
\* reached.
Visits == [at : {"idle", "rows"}, todo : SUBSET Events,
           row : Events \cup {None}, rule : Rules,
           due : [Events -> SUBSET Rules], reached : [Events -> Nat]]
NotStarted == [at |-> "idle", todo |-> {}, row |-> None, rule |-> 1,
               due |-> [r \in Events |-> {}], reached |-> [r \in Events |-> 0]]

TypeOK ==
    /\ hist \in [Events -> Histories]
    /\ last \in [Events -> 0 .. Window + 1] /\ first \in [Events -> 0 .. Horizon]
    /\ pc \in [Events -> {"idle", "lookup", "record", "bump", "create",
                          "announce", "done", "hushed", "mute", "lost"}]
    /\ into \in [Events -> Events \cup {None}]
    /\ count \in [Events -> Nat]
    /\ pending \subseteq Events
    /\ told \subseteq Events
    /\ beside \in [Events -> SUBSET Events]
    /\ user \in [Users -> [kind : {"idle", "ack", "resolve", "done"},
                           row : Events \cup {None}]]
    /\ sweep \in [Sweeps -> Visits]
    /\ abreast \subseteq Sweeps

Init ==
    /\ hist = [r \in Events |-> Absent]
    /\ last = [r \in Events |-> 0] /\ first = [r \in Events |-> 0]
    /\ pc = [e \in Events |-> "idle"]
    /\ into = [e \in Events |-> None]
    /\ count = [e \in Events |-> 0]
    /\ pending = {}
    /\ told = {}
    /\ beside = [e \in Events |-> {}]
    /\ user = [u \in Users |-> [kind |-> "idle", row |-> None]]
    /\ sweep = [s \in Sweeps |-> NotStarted]
    /\ abreast = {}

-----------------------------------------------------------------------------
(* evaluate, once the rule has matched.                                    *)

Go(e, from, to) == pc[e] = from /\ pc' = [pc EXCEPT ![e] = to]

InFlight ==
    {e \in Events : pc[e] \notin {"idle", "done", "hushed", "mute", "lost"}}

\* Nothing keeps an event from starting while others are under way.
Joins(e) ==
    beside' = [f \in Events |-> beside[f] \cup
        (IF f = e THEN InFlight ELSE IF f \in InFlight THEN {e} ELSE {})]

\* _check_silence; an administrator may start and end silences at any moment.
Evaluate(e) ==
    /\ e \notin Manual
    /\ Go(e, "idle", "record") \/ Go(e, "idle", "lookup")
    /\ Joins(e)
    /\ UNCHANGED <<alerts, into, count, told, pending, user, sweeps>>

\* A new row, named after its event.
Insert(e, status) ==
    /\ hist' = [hist EXCEPT ![e] = Row(status)]
    /\ last' = [last EXCEPT ![e] = 0]
    /\ first' = [first EXCEPT ![e] = 0]
    /\ into' = [into EXCEPT ![e] = e]

RecordSilenced(e) ==
    /\ Go(e, "record", "hushed")
    /\ Insert(e, "SILENCED")
    /\ UNCHANGED <<count, told, beside, pending, user, sweeps>>

\* Slip: a suppressed alert no longer suppresses.
RecentUnsuppressed ==
    {r \in Rows : last[r] <= Window /\ hist[r].status # "SUPPRESSED"}

\* The rows of the window, whatever their status.
Recent == {r \in Rows : last[r] <= Window}

\* _check_suppression: the row of the window that occurred last.
Lookup(e) ==
    /\ IF Recent = {}
       THEN Go(e, "lookup", "create") /\ UNCHANGED <<into, count>>
       ELSE \E r \in Recent :
              /\ \A q \in Recent : last[r] <= last[q]
              /\ Go(e, "lookup", "bump")
              /\ into' = [into EXCEPT ![e] = r]
              /\ count' = [count EXCEPT ![e] = hist[r].seen]
    /\ UNCHANGED <<alerts, told, beside, pending, user, sweeps>>

\* Slip: an event that occurs again reopens the alert.
BumpedReopens(r, n) ==
    [hist[r] EXCEPT !.seen = n + 1, !.status = "SUPPRESSED", !.resolved = FALSE]

\* Slip: the suppressed event is not counted.
BumpedNot(r, n) == [hist[r] EXCEPT !.status = "SUPPRESSED"]

Bumped(r, n) == [hist[r] EXCEPT !.seen = n + 1, !.status = "SUPPRESSED"]

Bump(e) ==
    /\ Go(e, "bump", "done")
    /\ hist' = [hist EXCEPT ![into[e]] = Bumped(into[e], count[e])]
    /\ last' = [last EXCEPT ![into[e]] = 0]
    /\ count' = [count EXCEPT ![e] = 0]
    /\ UNCHANGED <<first, into, told, beside, pending, user, sweeps>>

\* Slip: the new row is returned as one that needs no announcement.
CreateQuietly(e) ==
    /\ Go(e, "create", "done")
    /\ Insert(e, "PENDING")
    /\ UNCHANGED <<count, told, beside, pending, user, sweeps>>

Create(e) ==
    /\ Go(e, "create", "announce")
    /\ Insert(e, "PENDING")
    /\ UNCHANGED <<count, told, beside, pending, user, sweeps>>

\* trigger: no silence, no suppression, and no announcement of a row without
\* channels (the argument's, else the rule's, else none).
Trigger(e) ==
    /\ e \in Manual
    /\ Go(e, "idle", "announce") \/ Go(e, "idle", "mute")
    /\ Insert(e, "PENDING")
    /\ Joins(e)
    /\ UNCHANGED <<count, told, pending, user, sweeps>>

Announce(e) ==
    /\ Go(e, "announce", "done")
    /\ told' = told \cup {e}
    /\ pending' = pending \cup {e}
    /\ UNCHANGED <<alerts, into, count, beside, user, sweeps>>

CrashBeforeAnnounce(e) ==
    /\ Go(e, "announce", "lost")
    /\ UNCHANGED <<alerts, into, count, told, beside, pending, user, sweeps>>

\* dispatch_alert on a worker: the outcome is written over the status, once
\* for every message of the row.
Dispatch(r) ==
    /\ r \in pending
    /\ pending' \in {pending, pending \ {r}}
    /\ hist' = [hist EXCEPT ![r].status = "DISPATCHED"]
    /\ UNCHANGED <<last, first, events, user, sweeps>>

\* A worker that dies, or gives up after its three attempts.
DispatchFails(r) ==
    /\ r \in pending
    /\ pending' = pending \ {r}
    /\ UNCHANGED <<alerts, events, user, sweeps>>

-----------------------------------------------------------------------------
(* acknowledge and resolve: the row is read, then some columns are saved.  *)

Finished == [kind |-> "done", row |-> None]

ReadRow(u, kind) ==
    /\ user[u].kind = "idle"
    /\ \E r \in Rows :
          user' = [user EXCEPT ![u] =
              IF (kind = "ack" /\ hist[r].acked) \/ (kind = "resolve" /\ hist[r].resolved)
              THEN Finished ELSE [kind |-> kind, row |-> r]]
    /\ UNCHANGED <<alerts, events, pending, sweeps>>

SaveRow(u, row) ==
    /\ hist' = [hist EXCEPT ![user[u].row] = row]
    /\ user' = [user EXCEPT ![u] = Finished]
    /\ UNCHANGED <<last, first, events, pending, sweeps>>

Acknowledge(u) ==
    /\ user[u].kind = "ack"
    /\ SaveRow(u, [hist[user[u].row] EXCEPT !.acked = TRUE])

Resolve(u) ==
    /\ user[u].kind = "resolve"
    /\ SaveRow(u, [hist[user[u].row] EXCEPT !.resolved = TRUE, !.acked = TRUE])

-----------------------------------------------------------------------------
(* check_escalations: the unresolved rows are read once, then every rule   *)
(* of every row is looked at in turn.                                      *)

Due(r) == {k \in Rules : first[r] >= Escalations[k].delay}

\* Celery beat starts the next sweep whether or not the last one has ended.
StartSweep(s) ==
    /\ sweep[s].at = "idle"
    /\ LET running == {o \in Sweeps : sweep[o].at = "rows"} IN
       abreast' = abreast \cup (IF running = {} THEN {} ELSE running \cup {s})
    /\ LET open == {r \in Rows : ~hist[r].resolved} IN
       sweep' = [sweep EXCEPT ![s] =
           [at |-> "rows", todo |-> open, row |-> None, rule |-> 1,
            due |-> [r \in Events |-> IF r \in open THEN Due(r) ELSE {}],
            reached |-> [r \in Events |-> IF r \in open THEN hist[r].target ELSE 0]]]
    /\ UNCHANGED <<alerts, events, pending, user>>

\* Slip: the level already reached is not looked at.
AppliesAlways(s, r, k) == k \in sweep[s].due[r]

\* Is rule k due for the row as the sweep has read and raised it?
Applies(s, r, k) ==
    k \in sweep[s].due[r] /\ sweep[s].reached[r] # Escalations[k].level

\* A sweep stays with one row until the rules are used up.
Turn(s, r) ==
    /\ sweep[s].at = "rows"
    /\ r \in sweep[s].todo
    /\ sweep[s].row \in {None, r}

Advance(s, r, level) ==
    LET w == sweep[s] IN
    sweep' = [sweep EXCEPT ![s] =
        IF w.rule < Len(Escalations)
        THEN [w EXCEPT !.row = r, !.rule = w.rule + 1, !.reached[r] = level]
        ELSE [w EXCEPT !.row = None, !.rule = 1, !.todo = w.todo \ {r},
                       !.due[r] = {}, !.reached[r] = 0]]

\* Level, channels and context are saved and the alert is announced again.
Escalate(s, r) ==
    /\ Turn(s, r)
    /\ LET k == sweep[s].rule IN
       /\ Applies(s, r, k)
       /\ Advance(s, r, Escalations[k].level)
       /\ hist' = [hist EXCEPT ![r].target = Escalations[k].level]
    /\ pending' = pending \cup {r}
    /\ UNCHANGED <<last, first, events, user, abreast>>

Skip(s, r) ==
    /\ Turn(s, r)
    /\ ~Applies(s, r, sweep[s].rule)
    /\ Advance(s, r, sweep[s].reached[r])
    /\ UNCHANGED <<alerts, events, pending, user, abreast>>

EndSweep(s) ==
    /\ sweep[s].at = "rows" /\ sweep[s].todo = {}
    /\ sweep' = [sweep EXCEPT ![s] = NotStarted]
    /\ abreast' = abreast \ {s}
    /\ UNCHANGED <<alerts, events, pending, user>>

-----------------------------------------------------------------------------
Tick ==
    /\ last' = [r \in Events |-> IF Exists(r) /\ last[r] <= Window
                                THEN last[r] + 1 ELSE last[r]]
    /\ first' = [r \in Events |-> IF Exists(r) /\ first[r] < Horizon
                                 THEN first[r] + 1 ELSE first[r]]
    /\ UNCHANGED <<hist, events, pending, user, sweeps>>

Event(e) ==
    \/ Evaluate(e) \/ RecordSilenced(e) \/ Lookup(e) \/ Bump(e) \/ Create(e)
    \/ Trigger(e) \/ Announce(e) \/ CrashBeforeAnnounce(e)

Call(u) ==
    \/ ReadRow(u, "ack") \/ ReadRow(u, "resolve") \/ Acknowledge(u) \/ Resolve(u)

Sweep(s) ==
    \/ StartSweep(s) \/ EndSweep(s)
    \/ \E r \in Events : Escalate(s, r) \/ Skip(s, r)

Next ==
    \/ Tick
    \/ \E e \in Events : Event(e) \/ Dispatch(e) \/ DispatchFails(e)
    \/ \E u \in Users : Call(u)
    \/ \E s \in Sweeps : Sweep(s)

Spec == Init /\ [][Next]_vars

-----------------------------------------------------------------------------
\* suppression_window: "the same alert is sent only once in the window".  When
\* an evaluation announces its alert, every alert announced before is older, but
\* for those that events under way together with it have stored or counted in.
OncePerWindow ==
    [][\A e \in told' \ told : e \in Manual \/
          \A r \in told : last[r] > Window \/ \E f \in beside[e] : into[f] = r]_vars

\* Suppression swallows no alert whole: the one it counts into was announced,
\* or is about to be, unless an administrator silenced it, a process died, or a
\* trigger without channels stored it.
SuppressedWasAnnounced ==
    \A r \in Rows : hist[r].status = "SUPPRESSED" =>
        r \in told \/ pc[r] \in {"announce", "hushed", "mute", "lost"}

\* The events recorded in the row; one that will raise its count is not yet.
Into(r) == {e \in Events : into[e] = r /\ pc[e] # "bump"}

\* Those that no other event recorded in the row was under way with.
Solo(r) == {e \in Into(r) : \A f \in beside[e] : into[f] # r}

\* occurrences misses no event that had the row to itself, and counts none
\* twice, however evaluations overwrite each other's counts.
CountsEvents ==
    /\ TypeOK
    /\ \A r \in Rows : /\ Cardinality(Solo(r)) <= hist[r].seen
                        /\ hist[r].seen <= Cardinality(Into(r))

\* "Has it been escalated to that level already?": a sweep announces an alert
\* again at a level it was not at, unless another sweep was under way with it.
EscalatedAnew ==
    [][\A s \in Sweeps, r \in Events : Escalate(s, r) =>
          s \in abreast \/ hist'[r].target # hist[r].target]_vars

\* No handler takes an acknowledgement or a resolution back.
NeverReopened ==
    [][\A r \in Rows : /\ hist[r].acked => hist'[r].acked
                       /\ hist[r].resolved => hist'[r].resolved]_vars
=============================================================================
