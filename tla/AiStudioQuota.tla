---------------------------- MODULE AiStudioQuota ----------------------------
(***************************************************************************)
(* The AI studio of the monolith: the UserQuota row of one registered user *)
(* (the post_save signal has opened it with the signup gift), the tasks    *)
(* created through one channel, recharges and administrator grants, and    *)
(* the Celery workers that run tasks when AI_STUDIO_SYNC is off.           *)
(*                                                                         *)
(* Two locks guard the row: the best-effort Redis lock of _quota_lock and  *)
(* the row lock of select_for_update.  A request keeps the row lock until  *)
(* its transaction commits, and takes the Redis lock again inside it.      *)
(***************************************************************************)
EXTENDS Integers, Sequences, Weights

CONSTANTS
    Tasks,          \* one creating request per task
    Cost,           \* the price of each task
    Recharges,      \* calls of recharge and of admin_grant
    Amount,         \* what each of them adds; admin_grant may subtract
    Gift,           \* SIGNUP_GIFT
    PerUserQuota,   \* UserChannelGrant.per_user_quota; 0 for none
    MaxAttempts,    \* max_attempts of @retry
    Inline,         \* the tasks handled while settings.AI_STUDIO_SYNC is on
    Faults,         \* may processes die, and database calls fail
    None            \* "nobody holds the lock"

ASSUME CostAssumption == Cost \in [Tasks -> Nat \ {0}]
ASSUME AmountAssumption == Amount \in [Recharges -> Int \ {0}]
ASSUME LimitAssumption ==
    Gift \in Nat /\ PerUserQuota \in Nat /\ MaxAttempts \in Nat \ {0}
ASSUME FlagAssumption == Inline \subseteq Tasks /\ Faults \in BOOLEAN
ASSUME NoneAssumption == None \notin Tasks

VARIABLES
    quota,      \* the committed UserQuota row
    rowLock,    \* the request whose transaction has locked that row
    mutex,      \* who holds the Redis lock quota:<user_id>
    status,     \* the committed GenerationTask rows
    ledger,     \* the task's committed QuotaTransaction rows, in order
    granted,    \* sum of the amounts of the grant and recharge rows
    spent,      \* sum of the amounts of the CONFIRM rows
    used,       \* UserChannelGrant.used_quota
    pc,         \* where each creating request is
    ran,        \* did the generation of a request in line succeed
    queue,      \* generate_task messages waiting in the broker
    work,       \* where each task's worker is
    attempts,   \* attempts of @retry made so far
    top,        \* where each recharge is
    seen,       \* the row a recharge has read
    lost        \* what the saves of recharges have overwritten

rows == <<quota, status, ledger, granted, spent, used>>
tops == <<top, seen, lost>>
runs == <<queue, work, attempts>>
vars == <<rows, rowLock, mutex, pc, ran, runs, tops>>

Requests == {"idle", "lock", "freeze", "frozen", "relock", "settle",
             "dispatched", "rejected", "done"}
InTransaction == Requests \ {"idle", "rejected", "done"}
Workers == {"idle", "load", "generate", "lock", "confirm", "failed", "handler",
            "relock", "refund", "done", "swallowed", "crashed"}
Running == Workers \ {"idle", "done", "swallowed", "crashed"}

Unused == <<>>
Held == <<"FREEZE">>
Charged == <<"FREEZE", "CONFIRM">>
Returned == <<"FREEZE", "REFUND">>

Accounts == [balance : Int, frozen : Nat, total : Int]

TypeOK ==
    /\ quota \in Accounts
    /\ rowLock \in Tasks \cup {None} /\ mutex \in Tasks \cup {None}
    /\ status \in [Tasks -> {"absent", "PENDING", "RUNNING", "SUCCESS", "FAILED"}]
    /\ ledger \in [Tasks -> Seq({"FREEZE", "CONFIRM", "REFUND"})]
    /\ granted \in Int /\ spent \in Int /\ used \in Int
    /\ pc \in [Tasks -> Requests]
    /\ ran \in [Tasks -> BOOLEAN]
    /\ queue \subseteq Tasks
    /\ work \in [Tasks -> Workers]
    /\ attempts \in [Tasks -> 0 .. MaxAttempts]
    /\ top \in [Recharges -> {"idle", "read", "done"}]
    /\ seen \in [Recharges -> Accounts]
    /\ lost \in [any : BOOLEAN, balance : Int, total : Int]

Row(balance, frozen, total) ==
    [balance |-> balance, frozen |-> frozen, total |-> total]

\* After registration: get_or_create_quota has granted the gift.
Init ==
    /\ quota = Row(Gift, 0, Gift)
    /\ rowLock = None /\ mutex = None
    /\ status = [t \in Tasks |-> "absent"]
    /\ ledger = [t \in Tasks |-> Unused]
    /\ granted = Gift /\ spent = 0 /\ used = 0
    /\ pc = [t \in Tasks |-> "idle"]
    /\ ran = [t \in Tasks |-> FALSE]
    /\ queue = {}
    /\ work = [t \in Tasks |-> "idle"]
    /\ attempts = [t \in Tasks |-> 0]
    /\ top = [r \in Recharges |-> "idle"]
    /\ seen = [r \in Recharges |-> Row(0, 0, 0)]
    /\ lost = [any |-> FALSE, balance |-> 0, total |-> 0]

-----------------------------------------------------------------------------
(* The writes of the ledger operations on the row they have locked.        *)

Clamped(n) == IF n < 0 THEN 0 ELSE n

AfterFreeze(q, t) == Row(q.balance - Cost[t], q.frozen + Cost[t], q.total)
\* Slip: confirm leaves the hold in place.
ConfirmKeepsFrozen(q, t) == q

AfterConfirm(q, t) == Row(q.balance, Clamped(q.frozen - Cost[t]), q.total)
\* Slip: refund raises the balance and leaves the hold in place.
RefundKeepsFrozen(q, t) == Row(q.balance + Cost[t], q.frozen, q.total)

AfterRefund(q, t) ==
    Row(q.balance + Cost[t], Clamped(q.frozen - Cost[t]), q.total)

-----------------------------------------------------------------------------
(* _quota_lock: RedisLock(ttl=15, wait=3.0), then "best effort".           *)

\* Entering the critical section, with or without the Redis lock.
Enter(t) ==
    \/ pc[t] = "lock" /\ pc' = [pc EXCEPT ![t] = "freeze"] /\ UNCHANGED work
    \/ pc[t] = "relock" /\ pc' = [pc EXCEPT ![t] = "settle"] /\ UNCHANGED work
    \/ work[t] = "lock" /\ work' = [work EXCEPT ![t] = "confirm"] /\ UNCHANGED pc
    \/ work[t] = "relock" /\ work' = [work EXCEPT ![t] = "refund"] /\ UNCHANGED pc

TakeMutex(t) ==
    /\ mutex = None
    /\ Enter(t)
    /\ mutex' = t
    /\ UNCHANGED <<rows, rowLock, ran, queue, attempts, tops>>

\* Three seconds have passed, or Redis is unreachable.
Degrade(t) ==
    /\ Enter(t)
    /\ UNCHANGED <<rows, rowLock, mutex, ran, queue, attempts, tops>>

\* The TTL passes while the holder waits for the row, or is dead.
Expire ==
    /\ mutex # None
    /\ mutex' = None
    /\ UNCHANGED <<rows, rowLock, pc, ran, runs, tops>>

\* Leaving it: release deletes the key only for its own token.
LeaveMutex(t) == mutex' = IF mutex = t THEN None ELSE mutex

-----------------------------------------------------------------------------
(* _create_generation_task: the steps of its transaction.                  *)

MayUseChannel == PerUserQuota = 0 \/ used < PerUserQuota

\* can_use_channel and the balance check, both on unlocked reads.
Create(t) ==
    /\ pc[t] = "idle"
    /\ pc' = [pc EXCEPT ![t] =
                 IF MayUseChannel /\ quota.balance >= Cost[t]
                 THEN "lock" ELSE "rejected"]
    /\ UNCHANGED <<rows, rowLock, mutex, ran, runs, tops>>

\* Slip: a refusal under the lock does not give the row back.
FreezeLeaksLock(t) ==
    /\ pc[t] = "freeze"
    /\ rowLock = None
    /\ LeaveMutex(t)
    /\ pc' = [pc EXCEPT ![t] =
                 IF quota.balance < Cost[t] THEN "rejected" ELSE "frozen"]
    /\ rowLock' = t
    /\ UNCHANGED <<rows, ran, runs, tops>>

\* freeze: the balance is checked again under the row lock.
Freeze(t) ==
    /\ pc[t] = "freeze"
    /\ rowLock = None
    /\ LeaveMutex(t)
    /\ IF quota.balance < Cost[t]
       THEN pc' = [pc EXCEPT ![t] = "rejected"] /\ UNCHANGED rowLock
       ELSE pc' = [pc EXCEPT ![t] = "frozen"] /\ rowLock' = t
    /\ UNCHANGED <<rows, ran, runs, tops>>

\* run_generation inside the request, and which of confirm and refund follows.
GenerateInRequest(t) ==
    /\ t \in Inline
    /\ pc[t] = "frozen"
    /\ \E ok \in BOOLEAN : ran' = [ran EXCEPT ![t] = ok]
    /\ pc' = [pc EXCEPT ![t] = "relock"]
    /\ UNCHANGED <<rows, rowLock, mutex, runs, tops>>

\* confirm or refund in the same transaction, then its commit.
CommitSync(t) ==
    /\ pc[t] = "settle"
    /\ LET held == AfterFreeze(quota, t) IN
       IF ran[t]
       THEN /\ quota' = AfterConfirm(held, t)
            /\ ledger' = [ledger EXCEPT ![t] = Append(Append(@, "FREEZE"), "CONFIRM")]
            /\ status' = [status EXCEPT ![t] = "SUCCESS"]
            /\ spent' = spent + Cost[t]
            /\ used' = used + Cost[t]
       ELSE /\ quota' = AfterRefund(held, t)
            /\ ledger' = [ledger EXCEPT ![t] = Append(Append(@, "FREEZE"), "REFUND")]
            /\ status' = [status EXCEPT ![t] = "FAILED"]
            /\ UNCHANGED <<spent, used>>
    /\ pc' = [pc EXCEPT ![t] = "done"]
    /\ rowLock' = None
    /\ LeaveMutex(t)
    /\ UNCHANGED <<granted, ran, runs, tops>>

\* generate_task.delay: the message leaves before the commit.
Dispatch(t) ==
    /\ t \notin Inline
    /\ pc[t] = "frozen"
    /\ queue' = queue \cup {t}
    /\ pc' = [pc EXCEPT ![t] = "dispatched"]
    /\ UNCHANGED <<rows, rowLock, mutex, ran, work, attempts, tops>>

CommitAsync(t) ==
    /\ pc[t] = "dispatched"
    /\ quota' = AfterFreeze(quota, t)
    /\ ledger' = [ledger EXCEPT ![t] = Append(@, "FREEZE")]
    /\ status' = [status EXCEPT ![t] = "PENDING"]
    /\ pc' = [pc EXCEPT ![t] = "done"]
    /\ rowLock' = None
    /\ UNCHANGED <<granted, spent, used, mutex, ran, runs, tops>>

\* An exception rolls the transaction back and releases the Redis lock; a
\* process that dies leaves that lock to its TTL.
Abort(t) ==
    /\ Faults
    /\ pc[t] \in InTransaction
    /\ pc' = [pc EXCEPT ![t] = "rejected"]
    /\ rowLock' = IF rowLock = t THEN None ELSE rowLock
    /\ LeaveMutex(t) \/ UNCHANGED mutex
    /\ UNCHANGED <<rows, ran, runs, tops>>

-----------------------------------------------------------------------------
(* recharge and admin_grant: _grant on a row read without a lock.          *)

ReadQuota(r) ==
    /\ top[r] = "idle"
    /\ seen' = [seen EXCEPT ![r] = quota]
    /\ top' = [top EXCEPT ![r] = "read"]
    /\ UNCHANGED <<rows, rowLock, mutex, pc, ran, runs, lost>>

\* quota.save() writes every column of the row it has read: what has changed
\* since is lost.
SaveQuota(r) ==
    /\ top[r] = "read"
    /\ rowLock = None
    /\ quota' = Row(seen[r].balance + Amount[r], seen[r].frozen,
                    seen[r].total + Amount[r])
    /\ lost' = [any |-> lost.any \/ quota # seen[r],
                balance |-> lost.balance + quota.balance - seen[r].balance,
                total |-> lost.total + quota.total - seen[r].total]
    /\ granted' = granted + Amount[r]
    /\ top' = [top EXCEPT ![r] = "done"]
    /\ UNCHANGED <<status, ledger, spent, used, rowLock, mutex, pc, ran, runs, seen>>

-----------------------------------------------------------------------------
(* generate_task on a Celery worker.                                       *)

Move(t, from, to) ==
    /\ work[t] = from
    /\ work' = [work EXCEPT ![t] = to]

Receive(t) ==
    /\ t \in queue
    /\ queue' = queue \ {t}
    /\ Move(t, "idle", "load")
    /\ UNCHANGED <<rows, rowLock, mutex, pc, ran, attempts, tops>>

\* The circuit breaker, outside @retry, is open because of other tasks.
BreakerOpen(t) ==
    /\ attempts[t] = 0
    /\ Move(t, "load", "handler")
    /\ UNCHANGED <<rows, rowLock, mutex, pc, ran, queue, attempts, tops>>

Load(t) ==
    /\ IF status[t] = "absent"
       THEN Move(t, "load", "failed") /\ UNCHANGED status
       ELSE /\ Move(t, "load", "generate")
            /\ status' = [status EXCEPT ![t] = "RUNNING"]
    /\ UNCHANGED <<quota, ledger, granted, spent, used, rowLock, mutex, pc, ran,
                   queue, attempts, tops>>

Generate(t) ==
    /\ Move(t, "generate", "lock")
    /\ status' = [status EXCEPT ![t] = "SUCCESS"]
    /\ UNCHANGED <<quota, ledger, granted, spent, used, rowLock, mutex, pc, ran,
                   queue, attempts, tops>>

GenerateFails(t) ==
    /\ Move(t, "generate", "failed")
    /\ UNCHANGED <<rows, rowLock, mutex, pc, ran, queue, attempts, tops>>

Confirm(t) ==
    /\ Move(t, "confirm", "done")
    /\ rowLock = None
    /\ quota' = AfterConfirm(quota, t)
    /\ ledger' = [ledger EXCEPT ![t] = Append(@, "CONFIRM")]
    /\ spent' = spent + Cost[t]
    /\ used' = used + Cost[t]
    /\ LeaveMutex(t)
    /\ UNCHANGED <<granted, status, rowLock, pc, ran, queue, attempts, tops>>

\* Slip: something after the commit of confirm raises, and @retry starts again.
ConfirmThenRaise(t) ==
    /\ Move(t, "confirm", "failed")
    /\ rowLock = None
    /\ quota' = AfterConfirm(quota, t)
    /\ ledger' = [ledger EXCEPT ![t] = Append(@, "CONFIRM")]
    /\ LeaveMutex(t)
    /\ UNCHANGED <<granted, spent, used, status, rowLock, pc, ran, queue,
                   attempts, tops>>

ConfirmFails(t) ==
    /\ Faults
    /\ Move(t, "confirm", "failed")
    /\ LeaveMutex(t)
    /\ UNCHANGED <<rows, rowLock, pc, ran, queue, attempts, tops>>

\* @retry: the whole run_generation again, until the attempts are used up.
Retry(t) ==
    /\ attempts' = [attempts EXCEPT ![t] = @ + 1]
    /\ IF attempts[t] + 1 < MaxAttempts
       THEN Move(t, "failed", "load")
       ELSE Move(t, "failed", "handler")
    /\ UNCHANGED <<rows, rowLock, mutex, pc, ran, queue, tops>>

\* The except branch; its own failure to find the task is swallowed.
MarkFailed(t) ==
    /\ IF status[t] = "absent"
       THEN Move(t, "handler", "swallowed") /\ UNCHANGED status
       ELSE /\ Move(t, "handler", "relock")
            /\ status' = [status EXCEPT ![t] = "FAILED"]
    /\ UNCHANGED <<quota, ledger, granted, spent, used, rowLock, mutex, pc, ran,
                   queue, attempts, tops>>

Refund(t) ==
    /\ Move(t, "refund", "done")
    /\ rowLock = None
    /\ quota' = AfterRefund(quota, t)
    /\ ledger' = [ledger EXCEPT ![t] = Append(@, "REFUND")]
    /\ LeaveMutex(t)
    /\ UNCHANGED <<granted, spent, used, status, rowLock, pc, ran, queue,
                   attempts, tops>>

RefundFails(t) ==
    /\ Faults
    /\ Move(t, "refund", "swallowed")
    /\ LeaveMutex(t)
    /\ UNCHANGED <<rows, rowLock, pc, ran, queue, attempts, tops>>

WorkerCrash(t) ==
    /\ Faults
    /\ work[t] \in Running
    /\ work' = [work EXCEPT ![t] = "crashed"]
    /\ UNCHANGED <<rows, rowLock, mutex, pc, ran, queue, attempts, tops>>

-----------------------------------------------------------------------------
Request(t) ==
    \/ Create(t) \/ Freeze(t) \/ GenerateInRequest(t) \/ CommitSync(t)
    \/ Dispatch(t) \/ CommitAsync(t)

Worker(t) ==
    \/ Receive(t) \/ Load(t) \/ Generate(t) \/ Confirm(t) \/ Retry(t)
    \/ MarkFailed(t) \/ Refund(t)

Lock(t) == TakeMutex(t) \/ Degrade(t)

Fault(t) ==
    \/ Abort(t) \/ BreakerOpen(t) \/ GenerateFails(t) \/ ConfirmFails(t)
    \/ RefundFails(t) \/ WorkerCrash(t)

Next ==
    \/ \E t \in Tasks : Request(t) \/ Worker(t) \/ Lock(t) \/ Fault(t)
    \/ \E r \in Recharges : ReadQuota(r) \/ SaveQuota(r)
    \/ Expire

Spec == Init /\ [][Next]_vars

\* A live request takes its next step; the wait for the Redis lock is bounded,
\* and the database serves those waiting for the row in turn.
FairSpec ==
    /\ Spec
    /\ \A t \in Tasks : SF_vars(Request(t)) /\ WF_vars(Lock(t))

-----------------------------------------------------------------------------
OpenHolds == {t \in Tasks : ledger[t] = Held}
Settled == {t \in Tasks : ledger[t] \in {Charged, Returned}}

\* The gift granted at registration shifts the account by a constant.
Account == INSTANCE QuotaAccount WITH
    Amounts <- {Amount[r] : r \in Recharges},
    balance <- quota.balance,
    frozen <- quota.frozen,
    total <- quota.total,
    held <- OpenHolds,
    closed <- Settled,
    Opening <- Gift

\* Until a recharge saves a row that has changed since it read it, every step
\* of the monolith is one of the service's account, although the Redis lock
\* may expire or be skipped at any moment.
ImplementsAccount ==
    Account!Init /\ [][~lost.any' => Account!Next]_(Account!vars)

Outcome(t) ==
    /\ ledger[t] \in {Unused, Held, Charged, Returned}
    /\ ledger[t] = Charged => status[t] = "SUCCESS"
    /\ ledger[t] = Returned => status[t] = "FAILED"

\* Whatever a client or a retry does, a task is charged or refunded once, and
\* its status says which.
OutcomeMatchesLedger == \A t \in Tasks : Outcome(t)

Deducted == \E r \in Recharges : Amount[r] < 0 /\ top[r] = "done"

\* QuotaTransaction is "the basis of reconciliation and billing": the row can
\* be recomputed from the ledger, the unlocked saves of recharges put it off by
\* exactly what they have overwritten, and only an administrator's deduction
\* takes the balance below zero, however requests race past the unlocked check.
LedgerReconciles ==
    /\ TypeOK
    /\ quota.total + lost.total = granted
    /\ quota.balance + lost.balance + Weight(Cost, OpenHolds) + spent = granted
    /\ ~lost.any => quota.frozen = Weight(Cost, OpenHolds)
                    /\ lost.balance = 0 /\ lost.total = 0
    /\ quota.balance < 0 => Deducted

\* A request that has begun ends although it takes the Redis lock while it
\* holds the row, and others wait for the row while they hold the Redis lock.
RequestsEnd == []<>(\A t \in Tasks : pc[t] \notin InTransaction)

-----------------------------------------------------------------------------
(* The inductive invariant behind the safety properties.                   *)

\* The row is locked exactly by the request that has frozen credit and not
\* yet committed, and the credit stays there until it does.
LockInv ==
    /\ \A t \in Tasks :
          rowLock = t <=> pc[t] \in {"frozen", "relock", "settle", "dispatched"}
    /\ rowLock # None => quota.balance >= Cost[rowLock]

\* Nothing is committed before the request's own commit, and a request either
\* settles its task itself or leaves it to a worker.
CommitsOwn(t) ==
    /\ pc[t] # "done" => ledger[t] = Unused
    /\ pc[t] \in {"relock", "settle"} => t \in Inline
    /\ pc[t] = "dispatched" => t \notin Inline
    /\ ledger[t] = Unused <=> status[t] = "absent"

\* A worker past its lookup works on an open hold, and nobody else closes it.
WorksOnHold(t) ==
    /\ work[t] \in {"generate", "lock", "confirm", "relock", "refund"} =>
          ledger[t] = Held
    /\ work[t] \in {"load", "failed", "handler"} => ledger[t] \in {Unused, Held}
    /\ work[t] = "idle" /\ t \notin Inline => ledger[t] \in {Unused, Held}
    /\ work[t] \in {"lock", "confirm"} => status[t] = "SUCCESS"
    /\ work[t] \in {"relock", "refund"} => status[t] = "FAILED"
    /\ t \in Inline => work[t] = "idle" /\ t \notin queue
    /\ work[t] \in {"idle", "load", "generate", "lock", "confirm", "failed"} =>
          attempts[t] < MaxAttempts

TaskInv(t) == Outcome(t) /\ CommitsOwn(t) /\ WorksOnHold(t)

\* What holds even when recharges overwrite the row.
Control == TypeOK /\ LockInv /\ \A t \in Tasks : TaskInv(t)

\* A deduction also explains a balance below zero that has only been read.
Debts == \A r \in Recharges : seen[r].balance < 0 => Deducted

Books == IsFiniteSet(Units(Cost, OpenHolds)) /\ LedgerReconciles /\ Debts

IInv == Control /\ Books
=============================================================================
