------------------------- MODULE AiStudioQuotaProofs -------------------------
(***************************************************************************)
(* The monolith settles every task at most once and shows it, and its      *)
(* books balance up to what the unlocked saves of recharges overwrite;     *)
(* until the first of these it implements the freeze-then-confirm account. *)
(* For any number of tasks, recharges and deductions, any costs and        *)
(* amounts, and a Redis lock that may be skipped or lost at any moment.    *)
(***************************************************************************)
EXTENDS AiStudioQuota, FiniteSetTheorems, SequenceTheorems, TLAPS

(* The weight of a set of tasks.                                           *)

\* No task, no weight.
LEMMA WeightOfNone ==
    ASSUME NEW cost
    PROVE  IsFiniteSet(Units(cost, {})) /\ Weight(cost, {}) = 0
BY FS_EmptySet DEF Units, Weight

\* Opening a hold adds exactly its cost to the weight of the open holds.
LEMMA WeightAdd ==
    ASSUME NEW S, NEW cost \in [S -> Nat], NEW T \in SUBSET S,
           NEW t \in S, t \notin T, IsFiniteSet(Units(cost, T))
    PROVE  /\ IsFiniteSet(Units(cost, T \cup {t}))
           /\ Weight(cost, T \cup {t}) = Weight(cost, T) + cost[t]
<1> DEFINE units == 1 .. cost[t]
           new == {t} \X units
<1>1. Units(cost, T \cup {t}) = Units(cost, T) \cup new
  BY DEF Units
<1>2. Units(cost, T) \cap new = {}
  BY DEF Units
<1>3. IsFiniteSet(units) /\ Cardinality(units) = cost[t] /\ cost[t] \in Nat
  <2>1. cost[t] \in Nat
    OBVIOUS
  <2> QED
    BY <2>1, FS_Interval
<1>4. IsFiniteSet({t}) /\ Cardinality({t}) = 1
  BY FS_Singleton
<1> HIDE DEF units
<1>5. IsFiniteSet(new) /\ Cardinality(new) = cost[t]
  <2>1. IsFiniteSet(new) /\ Cardinality(new) = Cardinality({t}) * Cardinality(units)
    BY <1>3, <1>4, FS_Product
  <2> QED
    BY <1>3, <1>4, <2>1
<1> HIDE DEF new
<1>6. Cardinality(Units(cost, T)) \in Nat
  BY FS_CardinalityType
<1>7. IsFiniteSet(Units(cost, T) \cup new)
      /\ Cardinality(Units(cost, T) \cup new)
         = Cardinality(Units(cost, T)) + Cardinality(new)
           - Cardinality(Units(cost, T) \cap new)
  BY <1>5, FS_Union
<1>8. Cardinality(Units(cost, T) \cap new) = 0
  BY <1>2, FS_EmptySet
<1>9. Cardinality(Units(cost, T) \cup new) = Cardinality(Units(cost, T)) + cost[t]
  BY <1>3, <1>5, <1>6, <1>7, <1>8
<1> QED
  BY <1>1, <1>7, <1>9 DEF Weight

\* Closing a hold takes exactly its cost away, and the cost was there.
LEMMA WeightRemove ==
    ASSUME NEW S, NEW cost \in [S -> Nat], NEW T \in SUBSET S,
           NEW t \in T, IsFiniteSet(Units(cost, T))
    PROVE  /\ IsFiniteSet(Units(cost, T \ {t}))
           /\ Weight(cost, T \ {t}) = Weight(cost, T) - cost[t]
           /\ Weight(cost, T) >= cost[t]
<1>1. Units(cost, T \ {t}) \subseteq Units(cost, T)
  BY DEF Units
<1>2. IsFiniteSet(Units(cost, T \ {t}))
  BY <1>1, FS_Subset
<1>3. (T \ {t}) \cup {t} = T
  OBVIOUS
<1>4. Weight(cost, T) = Weight(cost, T \ {t}) + cost[t]
  BY <1>2, <1>3, WeightAdd
<1>5. Weight(cost, T \ {t}) \in Nat
  BY <1>2, FS_CardinalityType DEF Weight
<1> QED
  BY <1>2, <1>4, <1>5

-----------------------------------------------------------------------------
(* The ledger of a task and the fields of a row.                           *)

\* A sequence of one row grows to the sequence of two.
LEMMA AppendPair ==
    ASSUME NEW S, NEW a \in S, NEW b \in S
    PROVE  Append(<<a>>, b) = <<a, b>>
<1>1. <<a>> \in Seq(S) /\ <<a, b>> \in Seq(S)
  OBVIOUS
<1>2. Append(<<a>>, b) \in Seq(S) /\ Len(Append(<<a>>, b)) = 2
  BY <1>1
<1>3. Append(<<a>>, b)[1] = a /\ Append(<<a>>, b)[2] = b
  BY <1>1
<1>4. \A i \in 1 .. 2 : Append(<<a>>, b)[i] = <<a, b>>[i]
  BY <1>3
<1> QED
  BY <1>1, <1>2, <1>4, SeqEqual

\* How the ledger rows of a task grow.
LEMMA Rows ==
    /\ Append(Unused, "FREEZE") = Held
    /\ Append(Held, "CONFIRM") = Charged
    /\ Append(Held, "REFUND") = Returned
<1> DEFINE R == {"FREEZE", "CONFIRM", "REFUND"}
<1>1. Append(<<>>, "FREEZE") = <<"FREEZE">>
  OBVIOUS
<1>2. "FREEZE" \in R /\ "CONFIRM" \in R /\ "REFUND" \in R
  OBVIOUS
<1> HIDE DEF R
<1> QED
  BY <1>1, <1>2, AppendPair DEF Unused, Held, Charged, Returned

\* The four ledgers a task can have are different sequences of row types.
LEMMA RowsDiffer ==
    /\ Unused # Held /\ Unused # Charged /\ Unused # Returned
    /\ Held # Charged /\ Held # Returned /\ Charged # Returned
    /\ {Unused, Held, Charged, Returned} \subseteq Seq({"FREEZE", "CONFIRM", "REFUND"})
BY DEF Unused, Held, Charged, Returned

-----------------------------------------------------------------------------
(* Types.                                                                  *)

LEMMA CostIsNat == ASSUME NEW t \in Tasks PROVE Cost[t] \in Nat
BY CostAssumption

LEMMA RowFields ==
    ASSUME NEW b \in Int, NEW f \in Nat, NEW n \in Int
    PROVE  /\ Row(b, f, n) \in Accounts
           /\ Row(b, f, n).balance = b /\ Row(b, f, n).frozen = f
           /\ Row(b, f, n).total = n
BY DEF Row, Accounts

LEMMA AccountFields ==
    ASSUME NEW q \in Accounts
    PROVE  q.balance \in Int /\ q.frozen \in Nat /\ q.total \in Int
BY DEF Accounts

\* The ledger operations turn a row into a row.
LEMMA RowSteps ==
    ASSUME NEW q \in Accounts, NEW t \in Tasks
    PROVE  /\ AfterFreeze(q, t) \in Accounts
           /\ AfterConfirm(q, t) \in Accounts
           /\ AfterRefund(q, t) \in Accounts
<1>1. \A n \in Int : Clamped(n) \in Nat
  BY DEF Clamped
<1>2. Cost[t] \in Nat /\ q.balance \in Int /\ q.frozen \in Nat /\ q.total \in Int
  BY CostIsNat, AccountFields
<1>3. /\ q.balance - Cost[t] \in Int /\ q.balance + Cost[t] \in Int
      /\ q.frozen + Cost[t] \in Nat /\ q.frozen - Cost[t] \in Int
  BY <1>2
<1>4. Clamped(q.frozen - Cost[t]) \in Nat
  BY <1>1, <1>3
<1> QED
  BY <1>2, <1>3, <1>4, RowFields DEF AfterFreeze, AfterConfirm, AfterRefund

LEMMA InitControl == Init => Control
<1> SUFFICES ASSUME Init PROVE Control
  OBVIOUS
<1>1. Row(Gift, 0, Gift) \in Accounts /\ Row(0, 0, 0) \in Accounts
  BY RowFields, LimitAssumption
<1>2. TypeOK
  BY <1>1, RowsDiffer, LimitAssumption DEF Init, TypeOK, Requests, Workers
<1>3. LockInv /\ \A t \in Tasks : TaskInv(t)
  BY RowsDiffer, NoneAssumption, LimitAssumption
     DEF Init, LockInv, TaskInv, Outcome, CommitsOwn, WorksOnHold
<1> QED
  BY <1>2, <1>3 DEF Control

\* Every step keeps the variables in their types.
LEMMA TypeStep == Control /\ [Next]_vars => TypeOK'
<1> SUFFICES ASSUME Control, [Next]_vars PROVE TypeOK'
  OBVIOUS
<1>0. TypeOK /\ \A t \in Tasks : TaskInv(t)
  BY DEF Control
<1>01. /\ quota \in Accounts /\ spent \in Int /\ used \in Int
       /\ ledger \in [Tasks -> Seq({"FREEZE", "CONFIRM", "REFUND"})]
       /\ work \in [Tasks -> Workers]
  BY <1>0 DEF TypeOK
<1>02. \A t \in Tasks : spent + Cost[t] \in Int /\ used + Cost[t] \in Int
  BY <1>01, CostIsNat
<1>03. ASSUME NEW t \in Tasks, NEW x \in {"FREEZE", "CONFIRM", "REFUND"}
       PROVE  [ledger EXCEPT ![t] = Append(@, x)]
                 \in [Tasks -> Seq({"FREEZE", "CONFIRM", "REFUND"})]
  BY <1>01
<1> USE <1>0, NoneAssumption, LimitAssumption
    DEF rows, tops, runs, LeaveMutex, Requests, Workers, InTransaction, Running, Move
<1>1. ASSUME NEW t \in Tasks, Request(t) PROVE TypeOK'
  <2>1. CASE Create(t)
    BY <2>1 DEF Create, TypeOK
  <2>2. CASE Freeze(t)
    BY <2>2 DEF Freeze, TypeOK
  <2>3. CASE GenerateInRequest(t)
    BY <2>3 DEF GenerateInRequest, TypeOK
  <2>4. CASE CommitSync(t)
    <3> DEFINE held == AfterFreeze(quota, t)
    <3>1. held \in Accounts
      BY RowSteps DEF TypeOK
    <3>2. quota' = AfterConfirm(held, t) \/ quota' = AfterRefund(held, t)
      BY <2>4 DEF CommitSync
    <3> HIDE DEF held
    <3>3. quota' \in Accounts
      BY <3>1, <3>2, RowSteps
    <3>4. /\ spent' = spent + Cost[t] \/ spent' = spent
          /\ used' = used + Cost[t] \/ used' = used
      BY <2>4 DEF CommitSync
    <3>5. spent' \in Int /\ used' \in Int
      BY ONLY <1>01, <1>02, <3>4
    <3>6. ledger' \in [Tasks -> Seq({"FREEZE", "CONFIRM", "REFUND"})]
      <4> DEFINE R == {"FREEZE", "CONFIRM", "REFUND"}
      <4>1. "FREEZE" \in R /\ "CONFIRM" \in R /\ "REFUND" \in R
        OBVIOUS
      <4>2. ledger[t] \in Seq(R) /\ ledger \in [Tasks -> Seq(R)]
        BY DEF TypeOK
      <4>3. ledger' = [ledger EXCEPT ![t] = Append(Append(ledger[t], "FREEZE"), "CONFIRM")]
            \/ ledger' = [ledger EXCEPT ![t] = Append(Append(ledger[t], "FREEZE"), "REFUND")]
        BY <2>4, <4>2 DEF CommitSync
      <4> HIDE DEF R
      <4>4. Append(ledger[t], "FREEZE") \in Seq(R)
        BY <4>1, <4>2
      <4>5. Append(Append(ledger[t], "FREEZE"), "CONFIRM") \in Seq(R)
            /\ Append(Append(ledger[t], "FREEZE"), "REFUND") \in Seq(R)
        BY <4>1, <4>4
      <4>6. ledger' \in [Tasks -> Seq(R)]
        BY <4>2, <4>3, <4>5
      <4> QED
        BY <4>6 DEF R
    <3> QED
      BY <2>4, <3>3, <3>5, <3>6 DEF CommitSync, TypeOK
  <2>5. CASE Dispatch(t)
    BY <2>5 DEF Dispatch, TypeOK
  <2>6. CASE CommitAsync(t)
    <3>1. quota' \in Accounts
      BY <2>6, RowSteps DEF CommitAsync, TypeOK
    <3> QED
      BY <2>6, <3>1 DEF CommitAsync, TypeOK
  <2> QED
    BY <1>1, <2>1, <2>2, <2>3, <2>4, <2>5, <2>6 DEF Request
<1>2. ASSUME NEW t \in Tasks, Worker(t) PROVE TypeOK'
  <2>1. CASE Receive(t)
    BY <2>1 DEF Receive, TypeOK
  <2>2. CASE Load(t)
    BY <2>2 DEF Load, TypeOK
  <2>3. CASE Generate(t)
    BY <2>3 DEF Generate, TypeOK
  <2>4. CASE Confirm(t)
    <3>1. quota' \in Accounts
      BY <1>01, <2>4, RowSteps DEF Confirm
    <3>2. spent' \in Int /\ used' \in Int
      BY <1>02, <2>4 DEF Confirm
    <3>3. ledger' \in [Tasks -> Seq({"FREEZE", "CONFIRM", "REFUND"})]
      BY <1>03, <2>4 DEF Confirm
    <3>4. work' \in [Tasks -> Workers]
      BY <1>01, <2>4 DEF Confirm
    <3> QED
      BY <2>4, <3>1, <3>2, <3>3, <3>4 DEF Confirm, TypeOK
  <2>5. CASE Retry(t)
    <3>1. attempts[t] < MaxAttempts /\ attempts[t] \in Nat
      BY <2>5 DEF Retry, TaskInv, WorksOnHold, TypeOK
    <3>2. attempts' \in [Tasks -> 0 .. MaxAttempts]
      BY <2>5, <3>1 DEF Retry, TypeOK
    <3> QED
      BY <2>5, <3>2 DEF Retry, TypeOK
  <2>6. CASE MarkFailed(t)
    BY <2>6 DEF MarkFailed, TypeOK
  <2>7. CASE Refund(t)
    <3>1. quota' \in Accounts
      BY <1>01, <2>7, RowSteps DEF Refund
    <3>2. ledger' \in [Tasks -> Seq({"FREEZE", "CONFIRM", "REFUND"})]
      BY <1>03, <2>7 DEF Refund
    <3>3. work' \in [Tasks -> Workers]
      BY <1>01, <2>7 DEF Refund
    <3> QED
      BY <2>7, <3>1, <3>2, <3>3 DEF Refund, TypeOK
  <2> QED
    BY <1>2, <2>1, <2>2, <2>3, <2>4, <2>5, <2>6, <2>7 DEF Worker
<1>3. ASSUME NEW t \in Tasks, Lock(t) PROVE TypeOK'
  <2>1. /\ UNCHANGED <<quota, status, ledger, granted, spent, used, rowLock, ran,
                       queue, attempts, top, seen, lost>>
        /\ mutex' \in {mutex, t} /\ Enter(t)
    BY <1>3 DEF Lock, TakeMutex, Degrade
  <2>2. pc' \in [Tasks -> Requests] /\ work' \in [Tasks -> Workers]
    BY <2>1 DEF Enter, TypeOK
  <2> QED
    BY <2>1, <2>2 DEF TypeOK
<1>4. ASSUME NEW t \in Tasks, Fault(t) PROVE TypeOK'
  <2>1. CASE Abort(t)
    BY <2>1 DEF Abort, TypeOK
  <2>2. CASE BreakerOpen(t) \/ GenerateFails(t)
    BY <2>2 DEF BreakerOpen, GenerateFails, TypeOK
  <2>3. CASE ConfirmFails(t) \/ RefundFails(t)
    BY <2>3 DEF ConfirmFails, RefundFails, TypeOK
  <2>4. CASE WorkerCrash(t)
    BY <2>4 DEF WorkerCrash, TypeOK
  <2> QED
    BY <1>4, <2>1, <2>2, <2>3, <2>4 DEF Fault
<1>5. ASSUME NEW r \in Recharges, ReadQuota(r) PROVE TypeOK'
  BY <1>5 DEF ReadQuota, TypeOK
<1>6. ASSUME NEW r \in Recharges, SaveQuota(r) PROVE TypeOK'
  <2>1. Amount[r] \in Int /\ granted \in Int /\ seen[r] \in Accounts
    BY AmountAssumption DEF TypeOK
  <2>2. seen[r].balance \in Int /\ seen[r].frozen \in Nat /\ seen[r].total \in Int
    BY <2>1, AccountFields
  <2>3. quota' \in Accounts /\ granted' \in Int
    <3> DEFINE b == seen[r].balance + Amount[r]
               n == seen[r].total + Amount[r]
    <3>1. b \in Int /\ n \in Int /\ granted + Amount[r] \in Int
      BY <2>1, <2>2
    <3>2. quota' = Row(b, seen[r].frozen, n) /\ granted' = granted + Amount[r]
      BY <1>6 DEF SaveQuota
    <3> HIDE DEF b, n
    <3> QED
      BY <2>2, <3>1, <3>2, RowFields
  <2>4. lost' \in [any : BOOLEAN, balance : Int, total : Int]
    <3>1. quota.balance \in Int /\ quota.total \in Int
      BY AccountFields DEF TypeOK
    <3>2. lost.any \in BOOLEAN /\ lost.balance \in Int /\ lost.total \in Int
      BY DEF TypeOK
    <3> QED
      BY <1>6, <2>2, <3>1, <3>2 DEF SaveQuota
  <2> QED
    BY <1>6, <2>1, <2>3, <2>4 DEF SaveQuota, TypeOK
<1>7. CASE Expire
  BY <1>7 DEF Expire, TypeOK
<1>8. CASE UNCHANGED vars
  BY <1>8 DEF vars, TypeOK
<1> QED
  BY <1>1, <1>2, <1>3, <1>4, <1>5, <1>6, <1>7, <1>8 DEF Next

-----------------------------------------------------------------------------
(* Who has locked the row, what is committed, where the workers are.       *)

\* A step concerns one task: the others keep their part of the invariant.
LEMMA TaskFrame ==
    ASSUME Control, NEW t \in Tasks, TaskInv(t)',
           \A s \in Tasks \ {t} :
              /\ pc'[s] = pc[s] /\ work'[s] = work[s] /\ attempts'[s] = attempts[s]
              /\ ledger'[s] = ledger[s] /\ status'[s] = status[s]
              /\ s \in queue' <=> s \in queue
    PROVE  \A s \in Tasks : TaskInv(s)'
<1> SUFFICES ASSUME NEW s \in Tasks, s # t PROVE TaskInv(s)'
  OBVIOUS
<1>1. TaskInv(s)
  BY DEF Control
<1> QED
  BY <1>1 DEF TaskInv, Outcome, CommitsOwn, WorksOnHold

\* A step of t that is no commit: the rows and the lock stay as they are, and
\* the request does not come to hold the row or let go of it.
LEMMA LockFrame ==
    ASSUME Control, NEW t \in Tasks, UNCHANGED <<quota, rowLock>>,
           \A s \in Tasks \ {t} : pc'[s] = pc[s],
           LET locked == {"frozen", "relock", "settle", "dispatched"}
           IN  pc[t] \in locked <=> pc'[t] \in locked
    PROVE  LockInv'
BY NoneAssumption DEF Control, LockInv

LEMMA ControlCommit ==
    ASSUME Control, NEW t \in Tasks, CommitSync(t) \/ CommitAsync(t)
    PROVE  LockInv' /\ \A s \in Tasks : TaskInv(s)'
<1>1. /\ TypeOK /\ TaskInv(t)
      /\ rowLock = t /\ ledger[t] = Unused
      /\ \A s \in Tasks \ {t} : pc[s] \notin {"frozen", "relock", "settle", "dispatched"}
  BY DEF Control, LockInv, TaskInv, CommitsOwn, CommitSync, CommitAsync
<1>2. /\ pc' = [pc EXCEPT ![t] = "done"] /\ rowLock' = None
      /\ UNCHANGED <<queue, work, attempts>>
  BY DEF CommitSync, CommitAsync, runs
<1>3. \/ /\ t \in Inline
         /\ \/ /\ ledger' = [ledger EXCEPT ![t] = Charged]
               /\ status' = [status EXCEPT ![t] = "SUCCESS"]
            \/ /\ ledger' = [ledger EXCEPT ![t] = Returned]
               /\ status' = [status EXCEPT ![t] = "FAILED"]
      \/ /\ t \notin Inline
         /\ ledger' = [ledger EXCEPT ![t] = Held]
         /\ status' = [status EXCEPT ![t] = "PENDING"]
  <2>1. CASE CommitSync(t)
    BY <1>1, <2>1, Rows DEF CommitSync, TypeOK, TaskInv, CommitsOwn
  <2>2. CASE CommitAsync(t)
    BY <1>1, <2>2, Rows DEF CommitAsync, TypeOK, TaskInv, CommitsOwn
  <2> QED
    BY <2>1, <2>2
<1>4. /\ pc'[t] = "done" /\ \A s \in Tasks \ {t} : pc'[s] = pc[s]
      /\ \A s \in Tasks \ {t} : ledger'[s] = ledger[s] /\ status'[s] = status[s]
      /\ \/ t \in Inline /\ ledger'[t] = Charged /\ status'[t] = "SUCCESS"
         \/ t \in Inline /\ ledger'[t] = Returned /\ status'[t] = "FAILED"
         \/ t \notin Inline /\ ledger'[t] = Held /\ status'[t] = "PENDING"
  BY <1>1, <1>2, <1>3 DEF TypeOK
<1>5. LockInv'
  BY <1>1, <1>2, <1>4, NoneAssumption DEF LockInv
<1>6. TaskInv(t)'
  BY <1>1, <1>2, <1>4, RowsDiffer DEF TaskInv, Outcome, CommitsOwn, WorksOnHold
<1> QED
  BY <1>2, <1>4, <1>5, <1>6, TaskFrame

\* The request of t, outside its commit.
LEMMA ControlRequest ==
    ASSUME Control, NEW t \in Tasks,
           Create(t) \/ Freeze(t) \/ GenerateInRequest(t) \/ Dispatch(t) \/ Abort(t)
    PROVE  LockInv' /\ \A s \in Tasks : TaskInv(s)'
<1>1. /\ UNCHANGED <<quota, ledger, status, work, attempts>>
      /\ queue' = queue \/ queue' = queue \cup {t}
  BY DEF Create, Freeze, GenerateInRequest, Dispatch, Abort, rows, runs
<1>2. TypeOK /\ TaskInv(t) /\ LockInv
  BY DEF Control
<1>3. \A s \in Tasks \ {t} : pc'[s] = pc[s]
  BY <1>2 DEF TypeOK, Create, Freeze, GenerateInRequest, Dispatch, Abort
<1>4. TaskInv(t)'
  BY <1>1, <1>2 DEF TypeOK, TaskInv, Outcome, CommitsOwn, WorksOnHold, Create,
     Freeze, GenerateInRequest, Dispatch, Abort, InTransaction, Requests, runs
<1>5. LockInv'
  <2> DEFINE locked == {"frozen", "relock", "settle", "dispatched"}
  <2>1. CASE Create(t)
    BY <1>1, <1>2, <1>3, <2>1, LockFrame DEF Create, TypeOK
  <2>2. CASE Freeze(t)
    <3>1. rowLock = None /\ pc[t] = "freeze"
      BY <2>2 DEF Freeze
    <3>2. \A s \in Tasks : pc[s] \notin locked
      BY <1>2, <3>1, NoneAssumption DEF LockInv
    <3>3. CASE quota.balance < Cost[t]
      <4>1. pc'[t] = "rejected" /\ rowLock' = rowLock
        BY <1>2, <2>2, <3>3 DEF Freeze, TypeOK
      <4> QED
        BY <1>1, <1>3, <3>1, <4>1, LockFrame
    <3>4. CASE ~(quota.balance < Cost[t])
      <4>1. quota.balance >= Cost[t]
        BY <1>2, <3>4, AccountFields, CostIsNat DEF TypeOK
      <4>2. rowLock' = t /\ pc'[t] = "frozen"
        BY <1>2, <2>2, <3>4 DEF Freeze, TypeOK
      <4> QED
        BY <1>1, <1>3, <3>2, <4>1, <4>2 DEF LockInv
    <3> QED
      BY <3>3, <3>4
  <2>3. CASE GenerateInRequest(t)
    BY <1>1, <1>2, <1>3, <2>3, LockFrame DEF GenerateInRequest, TypeOK
  <2>4. CASE Dispatch(t)
    BY <1>1, <1>2, <1>3, <2>4, LockFrame DEF Dispatch, TypeOK
  <2>5. CASE Abort(t)
    <3>1. pc'[t] = "rejected" /\ rowLock' = IF rowLock = t THEN None ELSE rowLock
      BY <1>2, <2>5 DEF Abort, TypeOK
    <3>2. \A s \in Tasks : rowLock' = s <=> pc'[s] \in locked
      BY <1>2, <1>3, <3>1, NoneAssumption DEF LockInv
    <3>3. rowLock' # None => quota.balance >= Cost[rowLock']
      BY <1>2, <3>1 DEF LockInv
    <3> QED
      BY <1>1, <3>2, <3>3 DEF LockInv
  <2> QED
    BY <2>1, <2>2, <2>3, <2>4, <2>5
<1> QED
  BY <1>1, <1>3, <1>4, <1>5, TaskFrame

\* Confirm and refund find the row unlocked and leave it so.
LEMMA ControlClose ==
    ASSUME Control, NEW t \in Tasks, Confirm(t) \/ Refund(t)
    PROVE  /\ LockInv' /\ \A s \in Tasks : TaskInv(s)'
           /\ ledger[t] = Held
           /\ Confirm(t) => ledger' = [ledger EXCEPT ![t] = Charged]
           /\ Refund(t) => ledger' = [ledger EXCEPT ![t] = Returned]
<1>1. /\ TypeOK /\ TaskInv(t) /\ LockInv
      /\ ledger[t] = Held /\ rowLock = None /\ t \notin Inline
      /\ UNCHANGED <<rowLock, status, pc, queue, attempts>>
  BY DEF Control, TaskInv, WorksOnHold, Confirm, Refund, Move
<1>2. /\ Confirm(t) => ledger' = [ledger EXCEPT ![t] = Charged]
      /\ Refund(t) => ledger' = [ledger EXCEPT ![t] = Returned]
  <2>1. CASE Confirm(t)
    BY <1>1, <2>1, Rows DEF Confirm, Refund, Move
  <2>2. CASE Refund(t)
    BY <1>1, <2>2, Rows DEF Confirm, Refund, Move
  <2> QED
    BY <2>1, <2>2
<1>3. /\ \A s \in Tasks \ {t} : ledger'[s] = ledger[s] /\ work'[s] = work[s]
      /\ work'[t] = "done"
      /\ \/ ledger'[t] = Charged /\ status[t] = "SUCCESS"
         \/ ledger'[t] = Returned /\ status[t] = "FAILED"
  BY <1>1, <1>2 DEF TypeOK, TaskInv, WorksOnHold, Confirm, Refund, Move
<1>4. LockInv'
  BY <1>1, NoneAssumption DEF LockInv
<1>5. TaskInv(t)'
  BY <1>1, <1>3, RowsDiffer DEF TaskInv, Outcome, CommitsOwn, WorksOnHold
<1> QED
  BY <1>1, <1>2, <1>3, <1>4, <1>5, TaskFrame

\* A worker's other steps write the status only.
LEMMA ControlWorker ==
    ASSUME Control, NEW t \in Tasks,
           \/ Receive(t) \/ Load(t) \/ Generate(t) \/ Retry(t) \/ MarkFailed(t)
           \/ BreakerOpen(t) \/ GenerateFails(t) \/ ConfirmFails(t)
           \/ RefundFails(t) \/ WorkerCrash(t)
    PROVE  LockInv' /\ \A s \in Tasks : TaskInv(s)'
<1>1. /\ UNCHANGED <<quota, ledger, rowLock, pc>>
      /\ queue' \in {queue, queue \ {t}}
  BY DEF Receive, Load, Generate, Retry, MarkFailed, BreakerOpen, GenerateFails,
         ConfirmFails, RefundFails, WorkerCrash, rows
<1>2. TypeOK /\ TaskInv(t) /\ LockInv
  BY DEF Control
<1>3. \A s \in Tasks \ {t} :
         work'[s] = work[s] /\ attempts'[s] = attempts[s] /\ status'[s] = status[s]
  BY <1>2 DEF TypeOK, Receive, Load, Generate, Retry, MarkFailed, BreakerOpen,
     GenerateFails, ConfirmFails, RefundFails, WorkerCrash, Move, rows
<1>4. TaskInv(t)'
  <2> USE <1>1, <1>2, RowsDiffer
      DEF TypeOK, TaskInv, Outcome, CommitsOwn, WorksOnHold, Move, rows
  <2>1. CASE Receive(t)
    BY <2>1 DEF Receive
  <2>2. CASE Load(t)
    BY <2>2 DEF Load
  <2>3. CASE Generate(t)
    BY <2>3 DEF Generate
  <2>4. CASE Retry(t)
    BY <2>4 DEF Retry
  <2>5. CASE MarkFailed(t)
    BY <2>5 DEF MarkFailed
  <2>6. CASE BreakerOpen(t) \/ GenerateFails(t) \/ ConfirmFails(t)
    BY <2>6 DEF BreakerOpen, GenerateFails, ConfirmFails
  <2>7. CASE RefundFails(t) \/ WorkerCrash(t)
    BY <2>7 DEF RefundFails, WorkerCrash, Running, Workers
  <2> QED
    BY <2>1, <2>2, <2>3, <2>4, <2>5, <2>6, <2>7
<1>5. LockInv'
  BY <1>1, <1>2 DEF LockInv
<1> QED
  BY <1>1, <1>3, <1>4, <1>5, TaskFrame

\* The Redis lock decides nothing: taken, skipped or lost, the rest holds.
LEMMA ControlLock ==
    ASSUME Control, NEW t \in Tasks, Lock(t)
    PROVE  LockInv' /\ \A s \in Tasks : TaskInv(s)'
<1>1. Enter(t) /\ UNCHANGED <<quota, status, ledger, rowLock, queue, attempts>>
  BY DEF Lock, TakeMutex, Degrade, rows
<1>2. TypeOK /\ TaskInv(t) /\ LockInv
  BY DEF Control
<1>3. \A s \in Tasks \ {t} : pc'[s] = pc[s] /\ work'[s] = work[s]
  BY <1>1, <1>2 DEF TypeOK, Enter
<1>4. TaskInv(t)'
  BY <1>1, <1>2 DEF TypeOK, TaskInv, Outcome, CommitsOwn, WorksOnHold, Enter
<1>5. LockInv'
  BY <1>1, <1>2, <1>3, LockFrame DEF TypeOK, Enter
<1> QED
  BY <1>1, <1>3, <1>4, <1>5, TaskFrame

LEMMA ControlStep == Control /\ [Next]_vars => Control'
<1> SUFFICES ASSUME Control, [Next]_vars PROVE Control'
  OBVIOUS
<1>1. TypeOK'
  BY TypeStep
<1>2. ASSUME NEW t \in Tasks, Request(t) PROVE LockInv' /\ \A s \in Tasks : TaskInv(s)'
  BY <1>2, ControlRequest, ControlCommit DEF Request
<1>3. ASSUME NEW t \in Tasks, Worker(t) PROVE LockInv' /\ \A s \in Tasks : TaskInv(s)'
  BY <1>3, ControlWorker, ControlClose DEF Worker
<1>4. ASSUME NEW t \in Tasks, Lock(t) PROVE LockInv' /\ \A s \in Tasks : TaskInv(s)'
  BY <1>4, ControlLock
<1>5. ASSUME NEW t \in Tasks, Fault(t) PROVE LockInv' /\ \A s \in Tasks : TaskInv(s)'
  BY <1>5, ControlWorker, ControlRequest DEF Fault
<1>6. ASSUME \/ \E r \in Recharges : ReadQuota(r) \/ SaveQuota(r)
             \/ Expire
             \/ UNCHANGED vars
      PROVE  LockInv' /\ \A s \in Tasks : TaskInv(s)'
  <2>1. /\ UNCHANGED <<status, ledger, rowLock, pc, queue, work, attempts>>
        /\ quota' = quota \/ rowLock = None
    BY <1>6 DEF ReadQuota, SaveQuota, Expire, vars, rows, runs, tops
  <2>2. LockInv'
    BY <2>1, NoneAssumption DEF Control, LockInv
  <2>3. \A s \in Tasks : TaskInv(s)'
    BY <2>1 DEF Control, TaskInv, Outcome, CommitsOwn, WorksOnHold
  <2> QED
    BY <2>2, <2>3
<1> QED
  BY <1>1, <1>2, <1>3, <1>4, <1>5, <1>6 DEF Next, Control

LEMMA AlwaysControl == Spec => []Control
BY InitControl, ControlStep, PTL DEF Spec

\* No task is charged and given back, or either of them twice, and none is
\* shown as a failure that was charged or as a success that was given back:
\* not through a retry, an expired Redis lock or a lost update of the row.
THEOREM EachTaskSettledOnce == Spec => []OutcomeMatchesLedger
<1>1. Control => OutcomeMatchesLedger
  BY DEF Control, TaskInv, OutcomeMatchesLedger
<1> QED
  BY <1>1, AlwaysControl, PTL

-----------------------------------------------------------------------------
(* What the steps that write the row do to the account.                    *)

\* The account as numbers.
LEMMA Numbers ==
    ASSUME IInv
    PROVE  /\ quota \in Accounts
           /\ quota.balance \in Int /\ quota.frozen \in Nat /\ quota.total \in Int
           /\ spent \in Int /\ granted \in Int
           /\ OpenHolds \in SUBSET Tasks
           /\ lost.balance \in Int /\ lost.total \in Int
BY AccountFields DEF IInv, Control, TypeOK, OpenHolds

\* The commit of an asynchronous request opens a hold that is paid for.
LEMMA HoldOpened ==
    ASSUME IInv, NEW t \in Tasks, CommitAsync(t)
    PROVE  /\ t \notin OpenHolds \cup Settled
           /\ OpenHolds' = OpenHolds \cup {t} /\ Settled' = Settled
           /\ Cost[t] <= quota.balance
           /\ quota'.balance = quota.balance - Cost[t]
           /\ quota'.frozen = quota.frozen + Cost[t]
           /\ quota'.total = quota.total
           /\ UNCHANGED <<spent, granted, tops>>
<1>1. rowLock = t /\ quota.balance >= Cost[t] /\ ledger[t] = Unused
  BY NoneAssumption
     DEF IInv, Control, LockInv, TaskInv, CommitsOwn, CommitAsync
<1>2. ledger' = [ledger EXCEPT ![t] = Held]
  BY <1>1, Rows DEF CommitAsync, IInv, Control, TypeOK
<1>3. /\ t \notin OpenHolds \cup Settled
      /\ OpenHolds' = OpenHolds \cup {t} /\ Settled' = Settled
  BY <1>1, <1>2, RowsDiffer DEF OpenHolds, Settled, IInv, Control, TypeOK
<1>4. /\ quota'.balance = quota.balance - Cost[t]
      /\ quota'.frozen = quota.frozen + Cost[t]
      /\ quota'.total = quota.total
  <2>1. quota.balance - Cost[t] \in Int /\ quota.frozen + Cost[t] \in Nat
        /\ quota.total \in Int
    BY Numbers, CostIsNat
  <2>2. quota' = Row(quota.balance - Cost[t], quota.frozen + Cost[t], quota.total)
    BY DEF CommitAsync, AfterFreeze
  <2> QED
    BY <2>1, <2>2, RowFields
<1> QED
  BY <1>1, <1>3, <1>4, Numbers, CostIsNat DEF CommitAsync, tops

\* A request that generates in line opens and closes its hold at once.
LEMMA HoldOpenedAndClosed ==
    ASSUME IInv, NEW t \in Tasks, CommitSync(t)
    PROVE  /\ t \notin OpenHolds \cup Settled
           /\ OpenHolds' = OpenHolds /\ Settled' = Settled \cup {t}
           /\ Cost[t] <= quota.balance
           /\ \/ quota'.balance = quota.balance - Cost[t] /\ spent' = spent + Cost[t]
              \/ quota'.balance = quota.balance /\ spent' = spent
           /\ quota'.frozen = quota.frozen
           /\ quota'.total = quota.total
           /\ UNCHANGED <<granted, tops>>
<1>1. rowLock = t /\ quota.balance >= Cost[t] /\ ledger[t] = Unused
  BY NoneAssumption
     DEF IInv, Control, LockInv, TaskInv, CommitsOwn, CommitSync
<1>2. ledger' = [ledger EXCEPT ![t] = Charged] \/ ledger' = [ledger EXCEPT ![t] = Returned]
  BY <1>1, Rows DEF CommitSync, IInv, Control, TypeOK
<1>3. /\ t \notin OpenHolds \cup Settled
      /\ OpenHolds' = OpenHolds /\ Settled' = Settled \cup {t}
  BY <1>1, <1>2, RowsDiffer DEF OpenHolds, Settled, IInv, Control, TypeOK
<1> DEFINE b == quota.balance
           f == quota.frozen
           c == Cost[t]
<1>4. b \in Int /\ f \in Nat /\ c \in Nat /\ quota.total \in Int
  BY Numbers, CostIsNat
<1>5. b - c \in Int /\ f + c \in Nat /\ Clamped((f + c) - c) = f /\ (b - c) + c = b
  BY <1>4 DEF Clamped
<1>6. /\ AfterFreeze(quota, t).balance = b - c
      /\ AfterFreeze(quota, t).frozen = f + c
      /\ AfterFreeze(quota, t).total = quota.total
  BY <1>4, <1>5, RowFields DEF AfterFreeze
<1>7. \/ quota' = Row(b - c, f, quota.total) /\ spent' = spent + c
      \/ quota' = Row(b, f, quota.total) /\ spent' = spent
  <2> DEFINE held == AfterFreeze(quota, t)
  <2>0. held.balance = b - c /\ Clamped(held.frozen - c) = f /\ held.total = quota.total
    BY <1>5, <1>6
  <2>1. CASE ran[t]
    <3>1. quota' = AfterConfirm(held, t) /\ spent' = spent + c
      BY <2>1 DEF CommitSync
    <3> HIDE DEF held
    <3>2. AfterConfirm(held, t) = Row(held.balance, Clamped(held.frozen - c), held.total)
      BY DEF AfterConfirm
    <3>3. AfterConfirm(held, t) = Row(b - c, f, quota.total)
      BY <2>0, <3>2
    <3> QED
      BY <3>1, <3>3
  <2>2. CASE ~ran[t]
    <3>1. quota' = AfterRefund(held, t) /\ spent' = spent
      BY <2>2 DEF CommitSync
    <3> HIDE DEF held
    <3>2. AfterRefund(held, t) = Row(held.balance + c, Clamped(held.frozen - c), held.total)
      BY DEF AfterRefund
    <3> QED
      BY <1>5, <2>0, <3>1, <3>2 DEF held
  <2> QED
    BY <2>1, <2>2
<1>8. /\ \/ quota'.balance = b - c /\ spent' = spent + c
         \/ quota'.balance = b /\ spent' = spent
      /\ quota'.frozen = f /\ quota'.total = quota.total
  <2> DEFINE charged == Row(b - c, f, quota.total)
             returned == Row(b, f, quota.total)
  <2>1. charged.balance = b - c /\ charged.frozen = f /\ charged.total = quota.total
    <3> DEFINE d == b - c
               n == quota.total
    <3>1. d \in Int /\ f \in Nat /\ n \in Int
      BY <1>4, <1>5
    <3> HIDE DEF d, n, f
    <3>2. Row(d, f, n).balance = d /\ Row(d, f, n).frozen = f /\ Row(d, f, n).total = n
      BY <3>1, RowFields
    <3> QED
      BY <3>2 DEF d, n, f
  <2>2. returned.balance = b /\ returned.frozen = f /\ returned.total = quota.total
    BY <1>4, RowFields
  <2>3. \/ quota' = charged /\ spent' = spent + c
        \/ quota' = returned /\ spent' = spent
    BY <1>7
  <2> HIDE DEF charged, returned
  <2>4. CASE quota' = charged /\ spent' = spent + c
    BY <2>1, <2>4
  <2>5. CASE quota' = returned /\ spent' = spent
    BY <2>2, <2>5
  <2> QED
    BY <2>3, <2>4, <2>5
<1>9. Cost[t] <= quota.balance
  BY <1>1, <1>4
<1> QED
  BY <1>3, <1>8, <1>9 DEF CommitSync, tops

\* Closing a hold takes its cost off what the open tasks hold; the frozen
\* credit covers it as long as nothing has been overwritten.
LEMMA HoldClosed ==
    ASSUME IInv, NEW t \in Tasks, Confirm(t) \/ Refund(t)
    PROVE  /\ t \in OpenHolds
           /\ OpenHolds' = OpenHolds \ {t} /\ Settled' = Settled \cup {t}
           /\ IsFiniteSet(Units(Cost, OpenHolds \ {t}))
           /\ Weight(Cost, OpenHolds \ {t}) = Weight(Cost, OpenHolds) - Cost[t]
           /\ ~lost.any => quota'.frozen = quota.frozen - Cost[t]
           /\ quota'.total = quota.total
           /\ Confirm(t) => quota'.balance = quota.balance /\ spent' = spent + Cost[t]
           /\ Refund(t) => quota'.balance = quota.balance + Cost[t] /\ spent' = spent
           /\ UNCHANGED <<granted, tops>>
<1>1. /\ ledger[t] = Held
      /\ ledger' = [ledger EXCEPT ![t] = Charged] \/ ledger' = [ledger EXCEPT ![t] = Returned]
  BY ControlClose DEF IInv
<1>2. /\ t \in OpenHolds
      /\ OpenHolds' = OpenHolds \ {t} /\ Settled' = Settled \cup {t}
  BY <1>1, RowsDiffer DEF OpenHolds, Settled, IInv, Control, TypeOK
<1> DEFINE b == quota.balance
           f == quota.frozen
           c == Cost[t]
<1>3. b \in Int /\ f \in Nat /\ c \in Nat /\ quota.total \in Int
  BY Numbers, CostIsNat
<1>4. /\ IsFiniteSet(Units(Cost, OpenHolds \ {t}))
      /\ Weight(Cost, OpenHolds \ {t}) = Weight(Cost, OpenHolds) - Cost[t]
      /\ ~lost.any => f >= c
  <2>1. Cost \in [Tasks -> Nat] /\ OpenHolds \in SUBSET Tasks
    BY CostAssumption, Numbers
  <2>2. /\ IsFiniteSet(Units(Cost, OpenHolds))
        /\ ~lost.any => f = Weight(Cost, OpenHolds)
    BY DEF IInv, Books, LedgerReconciles
  <2> HIDE DEF f, c
  <2>3. /\ IsFiniteSet(Units(Cost, OpenHolds \ {t}))
        /\ Weight(Cost, OpenHolds \ {t}) = Weight(Cost, OpenHolds) - Cost[t]
        /\ Weight(Cost, OpenHolds) >= Cost[t]
    BY <1>2, <2>1, <2>2, WeightRemove
  <2> QED
    BY <2>2, <2>3 DEF c
<1>5. /\ Clamped(f - c) \in Nat /\ b + c \in Int
      /\ f >= c => Clamped(f - c) = f - c
  BY <1>3 DEF Clamped
<1>6. /\ Confirm(t) => quota' = Row(b, Clamped(f - c), quota.total)
      /\ Refund(t) => quota' = Row(b + c, Clamped(f - c), quota.total)
  BY DEF Confirm, AfterConfirm, Refund, AfterRefund
<1>7. /\ quota'.frozen = Clamped(f - c) /\ quota'.total = quota.total
      /\ Confirm(t) => quota'.balance = b
      /\ Refund(t) => quota'.balance = b + c
  <2> DEFINE g == Clamped(f - c)
  <2>1. g \in Nat
    BY <1>5
  <2> HIDE DEF g
  <2>2. /\ Confirm(t) => quota' = Row(b, g, quota.total)
        /\ Refund(t) => quota' = Row(b + c, g, quota.total)
    BY <1>6 DEF g
  <2>3. /\ quota'.frozen = g /\ quota'.total = quota.total
        /\ Confirm(t) => quota'.balance = b
        /\ Refund(t) => quota'.balance = b + c
    <3> DEFINE d == b + c
               n == quota.total
    <3>1. d \in Int /\ n \in Int /\ b \in Int
      BY <1>3, <1>5
    <3> HIDE DEF d, n, b, c
    <3>2. /\ Row(b, g, n).balance = b /\ Row(b, g, n).frozen = g /\ Row(b, g, n).total = n
          /\ Row(d, g, n).balance = d /\ Row(d, g, n).frozen = g /\ Row(d, g, n).total = n
      BY <2>1, <3>1, RowFields
    <3>5. ~(Confirm(t) /\ Refund(t))
      BY DEF Confirm, Refund, Move
    <3>3. CASE Confirm(t)
      BY <2>2, <3>2, <3>3, <3>5 DEF d, n
    <3>4. CASE Refund(t)
      BY <2>2, <3>2, <3>4, <3>5 DEF d, n
    <3> QED
      BY <3>3, <3>4
  <2> QED
    BY <2>3 DEF g
<1>8. ~lost.any => quota'.frozen = f - c
  BY <1>4, <1>5, <1>7
<1>9. /\ Confirm(t) => spent' = spent + Cost[t]
      /\ Refund(t) => spent' = spent
      /\ UNCHANGED <<granted, tops>>
  BY DEF Confirm, Refund
<1> QED
  BY <1>2, <1>4, <1>7, <1>8, <1>9

\* A recharge or a deduction writes the row it has read: what has changed
\* since is added to what is lost.
LEMMA Recharged ==
    ASSUME IInv, NEW r \in Recharges, SaveQuota(r)
    PROVE  /\ seen[r].balance \in Int /\ seen[r].total \in Int /\ Amount[r] \in Int
           /\ quota'.balance = seen[r].balance + Amount[r]
           /\ quota'.total = seen[r].total + Amount[r]
           /\ quota'.frozen = seen[r].frozen
           /\ lost'.balance = lost.balance + quota.balance - seen[r].balance
           /\ lost'.total = lost.total + quota.total - seen[r].total
           /\ ~lost'.any => ~lost.any /\ seen[r] = quota
           /\ granted' = granted + Amount[r]
           /\ top' = [top EXCEPT ![r] = "done"]
           /\ UNCHANGED <<ledger, spent, seen>>
<1>1. seen[r] \in Accounts /\ Amount[r] \in Int
  BY AmountAssumption DEF IInv, Control, TypeOK
<1>2. seen[r].balance \in Int /\ seen[r].frozen \in Nat /\ seen[r].total \in Int
  BY <1>1, AccountFields
<1>3. quota' = Row(seen[r].balance + Amount[r], seen[r].frozen, seen[r].total + Amount[r])
  BY DEF SaveQuota
<1>4. /\ quota'.balance = seen[r].balance + Amount[r]
      /\ quota'.total = seen[r].total + Amount[r]
      /\ quota'.frozen = seen[r].frozen
  <2> DEFINE b == seen[r].balance + Amount[r]
             n == seen[r].total + Amount[r]
  <2>1. b \in Int /\ n \in Int
    BY <1>1, <1>2
  <2>2. quota' = Row(b, seen[r].frozen, n)
    BY <1>3
  <2> HIDE DEF b, n
  <2>3. quota'.balance = b /\ quota'.frozen = seen[r].frozen /\ quota'.total = n
    BY <1>2, <2>1, <2>2, RowFields
  <2> QED
    BY <2>3 DEF b, n
<1>5. /\ lost'.balance = lost.balance + quota.balance - seen[r].balance
      /\ lost'.total = lost.total + quota.total - seen[r].total
      /\ lost'.any = (lost.any \/ quota # seen[r])
  BY DEF SaveQuota
<1>6. ~lost'.any => ~lost.any /\ seen[r] = quota
  BY <1>5
<1> QED
  BY <1>1, <1>2, <1>4, <1>5, <1>6 DEF SaveQuota

\* The other steps write neither the row nor the ledger.
LEMMA OnlyThese ==
    ASSUME [Next]_vars,
           ~ \E t \in Tasks : CommitSync(t) \/ CommitAsync(t) \/ Confirm(t) \/ Refund(t),
           ~ \E r \in Recharges : SaveQuota(r)
    PROVE  /\ UNCHANGED <<quota, ledger, spent, granted, lost>>
           /\ UNCHANGED tops \/ \E r \in Recharges : ReadQuota(r)
<1>1. ASSUME NEW t \in Tasks, Request(t)
      PROVE  UNCHANGED <<quota, ledger, spent, granted, tops>>
  BY <1>1 DEF Request, Create, Freeze, GenerateInRequest, Dispatch, rows
<1>2. ASSUME NEW t \in Tasks, Worker(t)
      PROVE  UNCHANGED <<quota, ledger, spent, granted, tops>>
  BY <1>2 DEF Worker, Receive, Load, Generate, Retry, MarkFailed, rows
<1>3. ASSUME NEW t \in Tasks, Lock(t) \/ Fault(t)
      PROVE  UNCHANGED <<quota, ledger, spent, granted, tops>>
  BY <1>3 DEF Lock, TakeMutex, Degrade, Fault, Abort, BreakerOpen, GenerateFails,
              ConfirmFails, RefundFails, WorkerCrash, rows
<1>4. ASSUME NEW r \in Recharges, ReadQuota(r)
      PROVE  UNCHANGED <<quota, ledger, spent, granted, lost>>
  BY <1>4 DEF ReadQuota, rows
<1>5. ASSUME Expire \/ UNCHANGED vars
      PROVE  UNCHANGED <<quota, ledger, spent, granted, tops>>
  BY <1>5 DEF Expire, vars, rows
<1> QED
  BY <1>1, <1>2, <1>3, <1>4, <1>5 DEF Next, tops

-----------------------------------------------------------------------------
(* A balance below zero.                                                   *)

\* An administrator's deduction, once made, has been made.
LEMMA DeductedStays ==
    ASSUME IInv, Deducted,
           \/ UNCHANGED tops
           \/ \E r \in Recharges : ReadQuota(r) \/ SaveQuota(r)
    PROVE  Deducted'
<1>1. PICK r \in Recharges : Amount[r] < 0 /\ top[r] = "done"
  BY DEF Deducted
<1>2. top'[r] = "done"
  <2>1. CASE UNCHANGED tops
    BY <1>1, <2>1 DEF tops
  <2>2. ASSUME NEW s \in Recharges, ReadQuota(s) \/ SaveQuota(s) PROVE top'[r] = "done"
    BY <1>1, <2>2 DEF ReadQuota, SaveQuota, IInv, Control, TypeOK
  <2> QED
    BY <2>1, <2>2
<1> QED
  BY <1>1, <1>2 DEF Deducted

\* A step that lowers no balance below zero keeps every debt explained.
LEMMA DebtStays ==
    ASSUME IInv, UNCHANGED tops \/ (\E r \in Recharges : ReadQuota(r)),
           quota'.balance >= quota.balance \/ quota'.balance >= 0,
           quota'.balance \in Int
    PROVE  (quota'.balance < 0 => Deducted') /\ Debts'
<1>1. quota.balance < 0 => Deducted
  BY DEF IInv, Books, LedgerReconciles
<1>2. Deducted => Deducted'
  BY DeductedStays
<1>3. quota'.balance < 0 => quota.balance < 0
  BY Numbers
<1>4. ASSUME NEW r \in Recharges, seen'[r].balance < 0 PROVE Deducted'
  <2>1. seen'[r] = seen[r] \/ seen'[r] = quota
    BY DEF tops, ReadQuota, IInv, Control, TypeOK
  <2>2. seen[r].balance < 0 => Deducted
    BY DEF IInv, Books, Debts
  <2> QED
    BY <1>1, <1>2, <1>4, <2>1, <2>2
<1> QED
  BY <1>1, <1>2, <1>3, <1>4 DEF Debts

\* A recharge restores a debt it has read, a deduction may open one.
LEMMA DebtOfRecharge ==
    ASSUME IInv, NEW r \in Recharges, SaveQuota(r)
    PROVE  (quota'.balance < 0 => Deducted') /\ Debts'
<1>1. Deducted => Deducted'
  BY DeductedStays
<1>2. ASSUME quota'.balance < 0 PROVE Deducted'
  <2>1. CASE Amount[r] < 0
    <3>1. top'[r] = "done"
      BY Recharged DEF IInv, Control, TypeOK
    <3> QED
      BY <2>1, <3>1 DEF Deducted
  <2>2. CASE ~(Amount[r] < 0)
    <3>1. seen[r].balance < 0
      BY <1>2, <2>2, Recharged
    <3> QED
      BY <1>1, <3>1 DEF IInv, Books, Debts
  <2> QED
    BY <2>1, <2>2
<1>3. Debts'
  BY <1>1, Recharged DEF IInv, Books, Debts
<1> QED
  BY <1>2, <1>3

-----------------------------------------------------------------------------
(* The books.                                                              *)

LEMMA InitBooks == Init => Books
<1> SUFFICES ASSUME Init PROVE Books
  OBVIOUS
<1>1. OpenHolds = {}
  BY RowsDiffer DEF Init, OpenHolds
<1>2. TypeOK
  BY InitControl DEF Control
<1>3. /\ quota.balance = Gift /\ quota.frozen = 0 /\ quota.total = Gift
      /\ \A r \in Recharges : seen[r].balance = 0
      /\ ~lost.any /\ lost.balance = 0 /\ lost.total = 0
      /\ granted = Gift /\ spent = 0
  BY RowFields, LimitAssumption DEF Init
<1>4. Debts /\ ~(quota.balance < 0)
  BY <1>3, LimitAssumption DEF Debts
<1> QED
  BY <1>1, <1>2, <1>3, <1>4, WeightOfNone, LimitAssumption
     DEF Books, LedgerReconciles

\* The books of the next state, clause by clause.
LEMMA BooksStep == IInv /\ [Next]_vars => Books'
<1> SUFFICES ASSUME IInv, [Next]_vars PROVE Books'
  OBVIOUS
<1>0. TypeOK'
  BY TypeStep DEF IInv
<1> DEFINE w == Weight(Cost, OpenHolds)
<1>1. /\ IsFiniteSet(Units(Cost, OpenHolds)) /\ quota.total + lost.total = granted
      /\ quota.balance + lost.balance + w + spent = granted
      /\ ~lost.any => quota.frozen = w /\ lost.balance = 0 /\ lost.total = 0
  BY DEF IInv, Books, LedgerReconciles
<1>2. /\ quota.balance \in Int /\ quota.frozen \in Nat /\ quota.total \in Int
      /\ spent \in Int /\ granted \in Int /\ OpenHolds \in SUBSET Tasks
      /\ lost.balance \in Int /\ lost.total \in Int /\ w \in Nat
  BY <1>1, Numbers, FS_CardinalityType DEF Weight
<1>3. quota'.balance \in Int
  BY <1>0, AccountFields DEF TypeOK
<1> HIDE DEF w
<1>4. ASSUME NEW t \in Tasks, CommitAsync(t) PROVE Books'
  <2>1. Cost \in [Tasks -> Nat] /\ Cost[t] \in Nat
    BY CostAssumption, CostIsNat
  <2>2. /\ IsFiniteSet(Units(Cost, OpenHolds'))
        /\ Weight(Cost, OpenHolds') = w + Cost[t]
    <3>1. t \notin OpenHolds /\ OpenHolds' = OpenHolds \cup {t}
      BY <1>4, HoldOpened
    <3>2. /\ IsFiniteSet(Units(Cost, OpenHolds \cup {t}))
          /\ Weight(Cost, OpenHolds \cup {t}) = Weight(Cost, OpenHolds) + Cost[t]
      BY <1>1, <1>2, <2>1, <3>1, WeightAdd
    <3> QED
      BY <3>1, <3>2 DEF w
  <2>3. /\ quota'.total + lost'.total = granted'
        /\ quota'.balance + lost'.balance + Weight(Cost, OpenHolds') + spent' = granted'
        /\ ~lost'.any => quota'.frozen = Weight(Cost, OpenHolds')
                         /\ lost'.balance = 0 /\ lost'.total = 0
        /\ quota'.balance >= 0 /\ UNCHANGED tops
    BY <1>1, <1>2, <1>4, <2>1, <2>2, HoldOpened DEF tops
  <2>4. (quota'.balance < 0 => Deducted') /\ Debts'
    BY <1>3, <2>3, DebtStays
  <2> QED
    BY <1>0, <2>2, <2>3, <2>4 DEF Books, LedgerReconciles
<1>5. ASSUME NEW t \in Tasks, CommitSync(t) PROVE Books'
  <2>1. Cost[t] \in Nat
    BY CostIsNat
  <2>2. /\ OpenHolds' = OpenHolds /\ Weight(Cost, OpenHolds') = w
        /\ quota'.total + lost'.total = granted'
        /\ quota'.balance + lost'.balance + w + spent' = granted'
        /\ ~lost'.any => quota'.frozen = w /\ lost'.balance = 0 /\ lost'.total = 0
        /\ quota'.balance >= 0 /\ UNCHANGED tops
    BY <1>1, <1>2, <1>5, <2>1, HoldOpenedAndClosed DEF tops, w
  <2>3. (quota'.balance < 0 => Deducted') /\ Debts'
    BY <1>3, <2>2, DebtStays
  <2> QED
    BY <1>0, <1>1, <2>2, <2>3 DEF Books, LedgerReconciles
<1>6. ASSUME NEW t \in Tasks, Confirm(t) \/ Refund(t) PROVE Books'
  <2>1. Cost[t] \in Nat
    BY CostIsNat
  <2>2. /\ IsFiniteSet(Units(Cost, OpenHolds')) /\ Weight(Cost, OpenHolds') = w - Cost[t]
        /\ quota'.total = quota.total /\ granted' = granted /\ UNCHANGED tops
        /\ ~lost.any => quota'.frozen = quota.frozen - Cost[t]
        /\ \/ quota'.balance = quota.balance /\ spent' = spent + Cost[t]
           \/ quota'.balance = quota.balance + Cost[t] /\ spent' = spent
    BY <1>6, HoldClosed DEF w
  <2>3. /\ quota'.total + lost'.total = granted'
        /\ quota'.balance + lost'.balance + (w - Cost[t]) + spent' = granted'
        /\ ~lost'.any => quota'.frozen = w - Cost[t]
                         /\ lost'.balance = 0 /\ lost'.total = 0
        /\ quota'.balance >= quota.balance
    BY <1>1, <1>2, <2>1, <2>2 DEF tops
  <2>4. (quota'.balance < 0 => Deducted') /\ Debts'
    BY <1>3, <2>2, <2>3, DebtStays
  <2> QED
    BY <1>0, <2>2, <2>3, <2>4 DEF Books, LedgerReconciles
<1>7. ASSUME NEW r \in Recharges, SaveQuota(r) PROVE Books'
  <2>1. OpenHolds' = OpenHolds /\ Weight(Cost, OpenHolds') = w
    BY <1>7 DEF SaveQuota, OpenHolds, w
  <2>2. /\ quota'.total + lost'.total = granted'
        /\ quota'.balance + lost'.balance + w + spent' = granted'
    BY <1>1, <1>2, <1>7, Recharged
  <2>3. ASSUME ~lost'.any
        PROVE  quota'.frozen = w /\ lost'.balance = 0 /\ lost'.total = 0
    <3>1. ~lost.any /\ seen[r] = quota /\ quota'.frozen = quota.frozen
      BY <1>7, <2>3, Recharged
    <3>2. /\ lost'.balance = lost.balance + quota.balance - quota.balance
          /\ lost'.total = lost.total + quota.total - quota.total
      BY <1>7, <3>1, Recharged
    <3> QED
      BY <1>1, <1>2, <3>1, <3>2
  <2>4. (quota'.balance < 0 => Deducted') /\ Debts'
    BY <1>7, DebtOfRecharge
  <2> QED
    BY <1>0, <1>1, <2>1, <2>2, <2>3, <2>4 DEF Books, LedgerReconciles
<1>8. ASSUME UNCHANGED <<quota, ledger, spent, granted, lost>>,
             UNCHANGED tops \/ \E r \in Recharges : ReadQuota(r)
      PROVE  Books'
  <2>1. OpenHolds' = OpenHolds /\ Weight(Cost, OpenHolds') = w
    BY <1>8 DEF OpenHolds, w
  <2>2. (quota'.balance < 0 => Deducted') /\ Debts'
    BY <1>2, <1>3, <1>8, DebtStays
  <2> QED
    BY <1>0, <1>1, <1>8, <2>1, <2>2 DEF Books, LedgerReconciles
<1> QED
  BY <1>4, <1>5, <1>6, <1>7, <1>8, OnlyThese

LEMMA AlwaysIInv == Spec => []IInv
<1>1. Init => IInv
  BY InitControl, InitBooks DEF IInv
<1>2. IInv /\ [Next]_vars => IInv'
  BY ControlStep, BooksStep DEF IInv
<1> QED
  BY <1>1, <1>2, PTL DEF Spec

\* The row can be recomputed from the ledger, recharges that save stale rows
\* put it off by exactly what they overwrite, and the balance falls below zero
\* by an administrator's deduction only.
THEOREM BooksReconcile == Spec => []LedgerReconciles
<1>1. IInv => LedgerReconciles
  BY DEF IInv, Books
<1> QED
  BY <1>1, AlwaysIInv, PTL

-----------------------------------------------------------------------------
(* The refinement.                                                         *)

LEMMA AccountInit == Init => Account!Init
<1> SUFFICES ASSUME Init PROVE Account!Init
  OBVIOUS
<1>1. OpenHolds = {} /\ Settled = {}
  BY RowsDiffer DEF Init, OpenHolds, Settled
<1>2. quota.balance = Gift /\ quota.frozen = 0 /\ quota.total = Gift
  BY RowFields, LimitAssumption DEF Init
<1> QED
  BY <1>1, <1>2 DEF Init, Account!Init

\* Each write of the row that overwrites nothing, in a behaviour that has not
\* overwritten anything, is one step of the account, and nothing else shows.
LEMMA AccountStep ==
    IInv /\ [Next]_vars => [~lost.any' => Account!Next]_(Account!vars)
<1> SUFFICES ASSUME IInv, [Next]_vars, ~lost'.any
             PROVE  Account!Next \/ UNCHANGED Account!vars
  OBVIOUS
<1>1. ASSUME NEW t \in Tasks, CommitAsync(t) PROVE Account!Next
  <2>1. Account!Hold(t, 0)
    BY <1>1, HoldOpened, Numbers, CostIsNat DEF Account!Hold, Account!Affordable
  <2> QED
    BY <2>1 DEF Account!Next
<1>2. ASSUME NEW t \in Tasks, CommitSync(t) PROVE Account!Next
  <2>1. Account!Purchase(t, 0) \/ Account!Void(t, 0)
    BY <1>2, HoldOpenedAndClosed, Numbers, CostIsNat
       DEF Account!Purchase, Account!Void, Account!Affordable
  <2> QED
    BY <2>1 DEF Account!Next
<1>3. ASSUME NEW t \in Tasks, Confirm(t) PROVE Account!Next
  <2>1. ~lost.any
    BY <1>3, HoldClosed DEF tops
  <2>2. Account!Capture(t)
    BY <1>3, <2>1, HoldClosed DEF Account!Capture
  <2> QED
    BY <2>2 DEF Account!Next
<1>4. ASSUME NEW t \in Tasks, Refund(t) PROVE Account!Next
  <2>1. ~lost.any
    BY <1>4, HoldClosed DEF tops
  <2>2. Account!Release(t)
    BY <1>4, <2>1, HoldClosed DEF Account!Release
  <2> QED
    BY <2>2 DEF Account!Next
<1>5. ASSUME NEW r \in Recharges, SaveQuota(r) PROVE Account!Next
  <2>1. OpenHolds' = OpenHolds /\ Settled' = Settled
    BY <1>5 DEF SaveQuota, OpenHolds, Settled
  <2>2. seen[r] = quota
    BY <1>5, Recharged
  <2>3. Account!Grant(Amount[r])
    BY <1>5, <2>1, <2>2, Recharged DEF Account!Grant
  <2> QED
    BY <2>3 DEF Account!Next
<1>6. ASSUME UNCHANGED <<quota, ledger, spent, granted, lost>> PROVE UNCHANGED Account!vars
  BY <1>6 DEF Account!vars, OpenHolds, Settled
<1> QED
  BY <1>1, <1>2, <1>3, <1>4, <1>5, <1>6, OnlyThese

\* Until a recharge saves a stale row, every behaviour of the monolith, with
\* its two locks, its retries and its faults, is one of the freeze-then-confirm
\* account.
THEOREM MonolithImplementsAccount == Spec => ImplementsAccount
<1>1. IInv /\ [Next]_vars => [~lost.any' => Account!Next]_(Account!vars)
  BY AccountStep
<1> QED
  BY <1>1, AlwaysIInv, AccountInit, PTL DEF Spec, ImplementsAccount
=============================================================================
