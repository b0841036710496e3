---------------------------- MODULE StudioService ----------------------------
(***************************************************************************)
(* The stand-alone AI studio service: one user's UserQuota row, the tasks  *)
(* of that user, the append-only ledger, the web requests (and queue       *)
(* deliveries) that create tasks, the GET quota/ requests, the             *)
(* generate_task messages that are sent when AI_STUDIO_SYNC is off, and    *)
(* the Celery worker that handles each of them.                            *)
(*                                                                         *)
(* A request runs inside one database transaction.  The row lock taken by  *)
(* select_for_update is kept until that transaction ends, so what it       *)
(* writes is applied to the committed state in its commit step.            *)
(***************************************************************************)
EXTENDS Integers, Sequences, Weights

CONSTANTS
    Tasks,      \* one creating request per task id
    Cost,       \* compute_cost of each task
    Viewers,    \* requests of GET quota/
    Gift,       \* SIGNUP_GIFT
    Inline,     \* the tasks handled while settings.AI_STUDIO_SYNC is on
    Delivered,  \* the tasks created by handle_generation, the others by POST tasks/
    Copies,     \* bound: the generate_task messages sent for one task id
    Faults,     \* may processes die, and database calls fail, between two steps
    None        \* "nobody holds the row lock"

ASSUME CostAssumption == Cost \in [Tasks -> Nat \ {0}]
ASSUME GiftAssumption == Gift \in Nat
ASSUME FlagAssumption ==
    Inline \subseteq Tasks /\ Delivered \subseteq Tasks /\ Faults \in BOOLEAN
ASSUME CopiesAssumption == Copies \in Nat \ {0}
ASSUME NoneAssumption == None \notin Tasks

VARIABLES
    quota,      \* the committed UserQuota row
    rowLock,    \* the request whose transaction has locked that row
    status,     \* the committed GenerationTask rows
    ledger,     \* the task's committed QuotaTransaction rows, in order
    spent,      \* sum of the amounts of the CONFIRM rows
    pc,         \* where each creating request is
    view,       \* where each GET quota/ request is
    sent,       \* how many generate_task messages were sent for each task
    queue,      \* the messages waiting in the broker
    work        \* where the worker of each message is

vars == <<quota, rowLock, status, ledger, spent, pc, view, sent, queue, work>>

\* <<t, n>> is the n-th message sent for t.
Messages == Tasks \X (1 .. Copies)

Requests == {"idle", "checked", "frozen", "generated", "dispatched",
             "rejected", "done"}
InTransaction == {"checked", "frozen", "generated", "dispatched"}
Workers == {"idle", "load", "generate", "confirm", "failed", "refund",
            "done", "swallowed", "crashed"}

\* The ledger rows of a task that is held, charged, or given back.
Unused == <<>>
Held == <<"FREEZE">>
Charged == <<"FREEZE", "CONFIRM">>
Returned == <<"FREEZE", "REFUND">>

Accounts == [exists : BOOLEAN, balance : Int, frozen : Int, total : Int]

TypeOK ==
    /\ quota \in Accounts
    /\ rowLock \in Tasks \cup {None}
    /\ status \in [Tasks -> {"absent", "PENDING", "RUNNING", "SUCCESS", "FAILED"}]
    /\ ledger \in [Tasks -> Seq({"FREEZE", "CONFIRM", "REFUND"})]
    /\ spent \in Int
    /\ pc \in [Tasks -> Requests]
    /\ view \in [Viewers -> {"idle", "owing", "done", "crashed"}]
    /\ sent \in [Tasks -> 0 .. Copies]
    /\ queue \subseteq Messages
    /\ work \in [Messages -> Workers]

NoAccount == [exists |-> FALSE, balance |-> 0, frozen |-> 0, total |-> 0]

Init ==
    /\ quota = NoAccount
    /\ rowLock = None
    /\ status = [t \in Tasks |-> "absent"]
    /\ ledger = [t \in Tasks |-> Unused]
    /\ spent = 0
    /\ pc = [t \in Tasks |-> "idle"]
    /\ view = [v \in Viewers |-> "idle"]
    /\ sent = [t \in Tasks |-> 0]
    /\ queue = {}
    /\ work = [m \in Messages |-> "idle"]

-----------------------------------------------------------------------------
(* The writes of the four ledger operations, on the row they have locked.  *)

Row(balance, frozen, total) ==
    [exists |-> TRUE, balance |-> balance, frozen |-> frozen, total |-> total]

\* Slip: total_granted is not raised with the balance.
GrantedUncounted(q) == Row(q.balance + Gift, q.frozen, q.total)

Granted(q) == Row(q.balance + Gift, q.frozen, q.total + Gift)

AfterFreeze(q, t) == Row(q.balance - Cost[t], q.frozen + Cost[t], q.total)

Clamped(n) == IF n < 0 THEN 0 ELSE n

\* Slip: confirm leaves the hold in place.
ConfirmKeepsFrozen(q, t) == q

AfterConfirm(q, t) == Row(q.balance, Clamped(q.frozen - Cost[t]), q.total)

\* Slip: refund raises the balance and leaves the hold in place.
RefundKeepsFrozen(q, t) == Row(q.balance + Cost[t], q.frozen, q.total)

AfterRefund(q, t) ==
    Row(q.balance + Cost[t], Clamped(q.frozen - Cost[t]), q.total)

\* The row as the transaction of request t sees it: get_or_create_quota has
\* created it, and granted the gift, in that transaction when there was none.
Seen == IF quota.exists THEN quota ELSE Granted(quota)

-----------------------------------------------------------------------------
(* create_generation_task: the steps of its transaction.                   *)

\* get_or_create_quota and the unlocked balance check.  A second creator of
\* the missing row waits on the unique user_id for the first to finish.
Open(t) ==
    /\ pc[t] = "idle"
    /\ quota.exists \/ rowLock = None
    /\ IF Seen.balance < Cost[t]
       THEN pc' = [pc EXCEPT ![t] = "rejected"] /\ UNCHANGED rowLock
       ELSE /\ pc' = [pc EXCEPT ![t] = "checked"]
            /\ rowLock' = IF quota.exists THEN rowLock ELSE t
    /\ UNCHANGED <<quota, status, ledger, spent, view, sent, queue, work>>

\* Slip: freeze trusts the check made before the row was locked.
FreezeUnchecked(t) ==
    /\ pc[t] = "checked"
    /\ rowLock \in {None, t}
    /\ pc' = [pc EXCEPT ![t] = "frozen"] /\ rowLock' = t
    /\ UNCHANGED <<quota, status, ledger, spent, view, sent, queue, work>>

\* Slip: a refusal under the lock does not give the row back.
FreezeLeaksLock(t) ==
    /\ pc[t] = "checked"
    /\ rowLock \in {None, t}
    /\ pc' = [pc EXCEPT ![t] =
                 IF Seen.balance < Cost[t] THEN "rejected" ELSE "frozen"]
    /\ rowLock' = t
    /\ UNCHANGED <<quota, status, ledger, spent, view, sent, queue, work>>

\* freeze: the row is locked and its balance checked again.
Freeze(t) ==
    /\ pc[t] = "checked"
    /\ rowLock \in {None, t}
    /\ IF Seen.balance < Cost[t]
       THEN pc' = [pc EXCEPT ![t] = "rejected"] /\ rowLock' = None
       ELSE pc' = [pc EXCEPT ![t] = "frozen"] /\ rowLock' = t
    /\ UNCHANGED <<quota, status, ledger, spent, view, sent, queue, work>>

\* run_mock_generation inside the request (AI_STUDIO_SYNC).
GenerateInRequest(t) ==
    /\ t \in Inline
    /\ pc[t] = "frozen"
    /\ pc' = [pc EXCEPT ![t] = "generated"]
    /\ UNCHANGED <<quota, rowLock, status, ledger, spent, view, sent, queue, work>>

\* confirm, then the commit of the whole transaction.
CommitSync(t) ==
    /\ t \in Inline
    /\ pc[t] = "generated"
    /\ quota' = AfterConfirm(AfterFreeze(Seen, t), t)
    /\ spent' = spent + Cost[t]
    /\ ledger' = [ledger EXCEPT ![t] = Append(Append(@, "FREEZE"), "CONFIRM")]
    /\ status' = [status EXCEPT ![t] = "SUCCESS"]
    /\ pc' = [pc EXCEPT ![t] = "done"]
    /\ rowLock' = None
    /\ UNCHANGED <<view, sent, queue, work>>

\* generate_task.delay: the message leaves before the commit.
Dispatch(t) ==
    /\ t \notin Inline
    /\ pc[t] = "frozen"
    /\ sent' = [sent EXCEPT ![t] = @ + 1]
    /\ queue' = queue \cup {<<t, sent'[t]>>}
    /\ pc' = [pc EXCEPT ![t] = "dispatched"]
    /\ UNCHANGED <<quota, rowLock, status, ledger, spent, view, work>>

CommitAsync(t) ==
    /\ t \notin Inline
    /\ pc[t] = "dispatched"
    /\ quota' = AfterFreeze(Seen, t)
    /\ ledger' = [ledger EXCEPT ![t] = Append(@, "FREEZE")]
    /\ status' = [status EXCEPT ![t] = "PENDING"]
    /\ pc' = [pc EXCEPT ![t] = "done"]
    /\ rowLock' = None
    /\ UNCHANGED <<spent, view, sent, queue, work>>

\* An exception (the generation, the broker) or a crash rolls everything back.
Abort(t) ==
    /\ pc[t] \in InTransaction
    /\ pc' = [pc EXCEPT ![t] = "rejected"]
    /\ rowLock' = IF rowLock = t THEN None ELSE rowLock
    /\ UNCHANGED <<quota, status, ledger, spent, view, sent, queue, work>>

\* handle_generation is delivered again with the same task_id (the platform
\* published twice, or the broker delivers again).  When the row exists the
\* INSERT fails before anything is sent and nothing changes, so only the
\* delivery after a rolled back one is a step; that one may have dispatched.
Redeliver(t) ==
    /\ t \in Delivered
    /\ pc[t] = "rejected"
    /\ status[t] = "absent"
    /\ sent[t] < Copies
    /\ pc' = [pc EXCEPT ![t] = "idle"]
    /\ UNCHANGED <<quota, rowLock, status, ledger, spent, view, sent, queue, work>>

-----------------------------------------------------------------------------
(* GET quota/: get_or_create_quota outside any transaction.                *)

OpenAccount(v) ==
    /\ view[v] = "idle"
    /\ IF quota.exists
       THEN view' = [view EXCEPT ![v] = "done"] /\ UNCHANGED quota
       ELSE /\ rowLock = None
            /\ quota' = Row(0, 0, 0)
            /\ view' = [view EXCEPT ![v] = "owing"]
    /\ UNCHANGED <<rowLock, status, ledger, spent, pc, sent, queue, work>>

GrantGift(v) ==
    /\ view[v] = "owing"
    /\ rowLock = None
    /\ quota' = Granted(quota)
    /\ view' = [view EXCEPT ![v] = "done"]
    /\ UNCHANGED <<rowLock, status, ledger, spent, pc, sent, queue, work>>

ViewerCrash(v) ==
    /\ Faults
    /\ view[v] = "owing"
    /\ view' = [view EXCEPT ![v] = "crashed"]
    /\ UNCHANGED <<quota, rowLock, status, ledger, spent, pc, sent, queue, work>>

-----------------------------------------------------------------------------
(* generate_task on a Celery worker, for message m.  The message is        *)
(* acknowledged when it is received, so a worker that dies loses it; the   *)
(* messages of one task may be handled by several workers at once.         *)

Move(m, from, to) ==
    /\ work[m] = from
    /\ work' = [work EXCEPT ![m] = to]

Receive(m) ==
    /\ m \in queue
    /\ queue' = queue \ {m}
    /\ Move(m, "idle", "load")
    /\ UNCHANGED <<quota, rowLock, status, ledger, spent, pc, view, sent>>

\* Slip: a status that GenerationTask does not have.
LoadMisnamed(m) ==
    /\ Move(m, "load", "generate")
    /\ status' = [status EXCEPT ![m[1]] = "WORKING"]
    /\ UNCHANGED <<quota, rowLock, ledger, spent, pc, view, sent, queue>>

\* GenerationTask.objects.get sees committed rows only.
Load(m) ==
    /\ IF status[m[1]] = "absent"
       THEN Move(m, "load", "failed") /\ UNCHANGED status
       ELSE /\ Move(m, "load", "generate")
            /\ status' = [status EXCEPT ![m[1]] = "RUNNING"]
    /\ UNCHANGED <<quota, rowLock, ledger, spent, pc, view, sent, queue>>

Generate(m) ==
    /\ Move(m, "generate", "confirm")
    /\ status' = [status EXCEPT ![m[1]] = "SUCCESS"]
    /\ UNCHANGED <<quota, rowLock, ledger, spent, pc, view, sent, queue>>

GenerateFails(m) ==
    /\ Move(m, "generate", "failed")
    /\ UNCHANGED <<quota, rowLock, status, ledger, spent, pc, view, sent, queue>>

\* Slip: something after the commit of confirm raises into the except branch.
ConfirmThenRaise(m) ==
    /\ Move(m, "confirm", "failed")
    /\ rowLock = None
    /\ quota' = AfterConfirm(quota, m[1])
    /\ spent' = spent + Cost[m[1]]
    /\ ledger' = [ledger EXCEPT ![m[1]] = Append(@, "CONFIRM")]
    /\ UNCHANGED <<rowLock, status, pc, view, sent, queue>>

Confirm(m) ==
    /\ Move(m, "confirm", "done")
    /\ rowLock = None
    /\ quota' = AfterConfirm(quota, m[1])
    /\ spent' = spent + Cost[m[1]]
    /\ ledger' = [ledger EXCEPT ![m[1]] = Append(@, "CONFIRM")]
    /\ UNCHANGED <<rowLock, status, pc, view, sent, queue>>

ConfirmFails(m) ==
    /\ Faults
    /\ Move(m, "confirm", "failed")
    /\ UNCHANGED <<quota, rowLock, status, ledger, spent, pc, view, sent, queue>>

\* Slip: the credit is given back and the task still shows what it was.
MarkNothing(m) ==
    /\ Move(m, "failed", IF status[m[1]] = "absent" THEN "swallowed" ELSE "refund")
    /\ UNCHANGED <<quota, rowLock, status, ledger, spent, pc, view, sent, queue>>

\* The except branch; its own failure to find the task is swallowed.
MarkFailed(m) ==
    /\ IF status[m[1]] = "absent"
       THEN Move(m, "failed", "swallowed") /\ UNCHANGED status
       ELSE /\ Move(m, "failed", "refund")
            /\ status' = [status EXCEPT ![m[1]] = "FAILED"]
    /\ UNCHANGED <<quota, rowLock, ledger, spent, pc, view, sent, queue>>

Refund(m) ==
    /\ Move(m, "refund", "done")
    /\ rowLock = None
    /\ quota' = AfterRefund(quota, m[1])
    /\ ledger' = [ledger EXCEPT ![m[1]] = Append(@, "REFUND")]
    /\ UNCHANGED <<rowLock, status, spent, pc, view, sent, queue>>

RefundFails(m) ==
    /\ Faults
    /\ Move(m, "refund", "swallowed")
    /\ UNCHANGED <<quota, rowLock, status, ledger, spent, pc, view, sent, queue>>

WorkerCrash(m) ==
    /\ Faults
    /\ work[m] \in {"load", "generate", "confirm", "failed", "refund"}
    /\ work' = [work EXCEPT ![m] = "crashed"]
    /\ UNCHANGED <<quota, rowLock, status, ledger, spent, pc, view, sent, queue>>

-----------------------------------------------------------------------------
Request(t) ==
    \/ Open(t) \/ Freeze(t) \/ GenerateInRequest(t) \/ CommitSync(t)
    \/ Dispatch(t) \/ CommitAsync(t)

Worker(m) ==
    \/ Receive(m) \/ Load(m) \/ Generate(m) \/ Confirm(m)
    \/ MarkFailed(m) \/ Refund(m)

WorkerFault(m) ==
    GenerateFails(m) \/ ConfirmFails(m) \/ RefundFails(m) \/ WorkerCrash(m)

Viewer(v) == OpenAccount(v) \/ GrantGift(v)

Next ==
    \/ \E t \in Tasks : Request(t) \/ Abort(t) \/ Redeliver(t)
    \/ \E m \in Messages : Worker(m) \/ WorkerFault(m)
    \/ \E v \in Viewers : Viewer(v) \/ ViewerCrash(v)

Spec == Init /\ [][Next]_vars

\* A live request takes its next step, and the database serves the requests
\* that wait for the row lock in turn.  Nothing makes a fault happen, and the
\* requests wait for no worker and no viewer.
FairSpec == Spec /\ \A t \in Tasks : SF_vars(Request(t))
-----------------------------------------------------------------------------
OpenHolds == {t \in Tasks : ledger[t] = Held}
Settled == {t \in Tasks : ledger[t] \in {Charged, Returned}}

\* The rows by which a task was settled after it had been settled: <<t, n>> is
\* the n-th row of t.  A second message of the same task writes them.
Repeats == UNION {{t} \X (3 .. Len(ledger[t])) : t \in Tasks}

RowCost == [r \in Tasks \X Nat |-> Cost[r[1]]]

HeldCredit == Weight(Cost, OpenHolds)
Repeated == Weight(RowCost, Repeats)

Account == INSTANCE QuotaAccount WITH
    Amounts <- {Gift},
    Opening <- 0,
    balance <- quota.balance,
    frozen <- quota.frozen,
    total <- quota.total,
    held <- OpenHolds,
    closed <- Settled

\* The service is a freeze-then-confirm account: whatever the requests, the
\* workers and the faults do, each commit is one step of that account, until
\* a second message of one task settles it again.
ImplementsAccount ==
    /\ Account!Init
    /\ [][Repeats' = {} => Account!Next]_(Account!vars)

\* What the user may spend, what the open holds cost and what was charged add
\* up to total_granted, plus the cost of every repeated settlement and of
\* nothing else: a task whose creation was rolled back after delay() and
\* delivered again is run, and settled, twice.
Conservation == quota.balance + HeldCredit + spent = quota.total + Repeated

\* UserQuota.frozen is the cost of the tasks that have a FREEZE row and nothing
\* after it.  A repeated confirm or refund takes its cost from the other holds
\* or is clamped by max(0, ...), so that much, and no more, may be missing.
FrozenBacked ==
    /\ quota.frozen <= HeldCredit
    /\ HeldCredit - quota.frozen <= Repeated

\* A user can never spend more than was granted: the balance check made
\* before the lock is repeated under it.
NoOverdraft == quota.balance >= 0 /\ quota.frozen >= 0

\* A task is charged once or given back once, never both and never twice,
\* although failures and the except branch may follow each other; only a task
\* for which several generate_task messages were sent may be settled again,
\* and then at most once by each of them.
SettledOnce ==
    \A t \in Tasks :
        \/ ledger[t] \in {Unused, Held, Charged, Returned}
        \/ sent[t] > 1 /\ Len(ledger[t]) <= 1 + sent[t]

\* What the user sees agrees with what was charged: a task exists when its
\* hold does, a confirmed task is a SUCCESS and a refunded one FAILED (a task
\* sent twice shows what its last worker wrote).
Matches(t) ==
    /\ ledger[t] = Unused <=> status[t] = "absent"
    /\ sent[t] <= 1 =>
          /\ ledger[t] = Charged => status[t] = "SUCCESS"
          /\ ledger[t] = Returned => status[t] = "FAILED"

StatusMatchesLedger == \A t \in Tasks : Matches(t)

\* tasks.py: "a failed run gives the credit back": when generate_task has
\* ended in failure, no hold of its task is left open.
FailedRunGivesBack ==
    \A m \in Messages : work[m] = "swallowed" => m[1] \notin OpenHolds

\* Every request ends, however the transactions queue up on the row lock.
RequestsEnd == \A t \in Tasks : pc[t] # "idle" ~> pc[t] \in {"done", "rejected"}

-----------------------------------------------------------------------------
(* The inductive invariant behind these properties.                        *)

\* The row lock is held exactly by a transaction that has frozen credit or
\* that is creating the row.
LockInv ==
    /\ \A t \in Tasks : pc[t] \in InTransaction \ {"checked"} => rowLock = t
    /\ \A t \in Tasks : pc[t] = "checked" =>
           (rowLock = t <=> ~quota.exists)
    /\ rowLock # None => pc[rowLock] \in InTransaction
    /\ rowLock # None /\ pc[rowLock] # "checked" => Seen.balance >= Cost[rowLock]

\* Nothing is committed before the request's own commit.
CommitInv ==
    /\ \A t \in Tasks : pc[t] # "done" => ledger[t] = Unused
    /\ ~quota.exists =>
          /\ quota = NoAccount
          /\ \A t \in Tasks : ledger[t] = Unused
          /\ \A v \in Viewers : view[v] # "owing"

\* A message is sent by the request it belongs to, and handled once.
SendInv ==
    /\ \A t \in Tasks : pc[t] \in {"idle", "checked", "frozen"} => sent[t] < Copies
    /\ \A t \in Tasks : pc[t] = "dispatched" => sent[t] > 0
    /\ \A m \in Messages : m[2] > sent[m[1]] => work[m] = "idle" /\ m \notin queue
    /\ \A m \in queue : work[m] = "idle"
    /\ \A t \in Inline : sent[t] = 0

\* A worker past its lookup works on a task that exists; while it has the
\* task's only message, the hold is open and nobody else closes it.
WorksOnHold(m) ==
    /\ work[m] \in {"generate", "confirm", "refund", "done"} => ledger[m[1]] # Unused
    /\ sent[m[1]] = 1 /\ m[2] = 1 =>
          /\ work[m] \in {"generate", "confirm", "refund"} => ledger[m[1]] = Held
          /\ work[m] \in {"idle", "load", "failed"} => ledger[m[1]] \in {Unused, Held}
          /\ work[m] = "confirm" => status[m[1]] = "SUCCESS"
          /\ work[m] = "refund" => status[m[1]] = "FAILED"

WorkInv == \A m \in Messages : WorksOnHold(m)

\* The messages by whose workers t was settled, each once.
Settlers(t) == {n \in 1 .. Copies : work[<<t, n>>] = "done"}

\* The first row of a task is its FREEZE; the others are one for each settler
\* (in line there is no message, and one CONFIRM).
LedgerInv ==
    \A t \in Tasks :
        /\ Len(ledger[t]) = 1 => ledger[t] = Held
        /\ sent[t] = 0 => ledger[t] \in {Unused, Charged}
        /\ ledger[t] # Unused /\ sent[t] > 0 =>
              Len(ledger[t]) = 1 + Cardinality(Settlers(t))

\* The books: what the row says, what the ledger says and what was captured.
Books ==
    /\ IsFiniteSet(Units(Cost, OpenHolds))
    /\ IsFiniteSet(Units(RowCost, Repeats))
    /\ spent \in Nat
    /\ FrozenBacked /\ Conservation /\ NoOverdraft /\ SettledOnce

IInv ==
    /\ TypeOK /\ LockInv /\ CommitInv /\ SendInv
    /\ WorkInv /\ LedgerInv /\ Books /\ StatusMatchesLedger
=============================================================================
