------------------------- MODULE StudioServiceProofs -------------------------
(***************************************************************************)
(* The stand-alone service conserves credit, settles every task once and   *)
(* implements the freeze-then-confirm account, for any number of tasks,    *)
(* viewers and workers, any costs and any gift.                            *)
(***************************************************************************)
EXTENDS StudioService, FiniteSetTheorems, SequenceTheorems, TLAPS

(* The weight of a set of tasks.                                           *)

\* No task, no weight.
LEMMA WeightOfNone ==
    ASSUME NEW cost
    PROVE  IsFiniteSet(Units(cost, {})) /\ Weight(cost, {}) = 0
BY FS_EmptySet DEF Units, Weight

\* Opening a hold adds exactly its cost to the weight of the open holds.
LEMMA WeightAdd ==
    ASSUME NEW S, NEW cost \in [S -> Nat], NEW T \in SUBSET S,
           NEW t \in S, t \notin T, IsFiniteSet(Units(cost, T))
    PROVE  /\ IsFiniteSet(Units(cost, T \cup {t}))
           /\ Weight(cost, T \cup {t}) = Weight(cost, T) + cost[t]
<1> DEFINE units == 1 .. cost[t]
           new == {t} \X units
<1>1. Units(cost, T \cup {t}) = Units(cost, T) \cup new
  BY DEF Units
<1>2. Units(cost, T) \cap new = {}
  BY DEF Units
<1>3. IsFiniteSet(units) /\ Cardinality(units) = cost[t] /\ cost[t] \in Nat
  <2>1. cost[t] \in Nat
    OBVIOUS
  <2> QED
    BY <2>1, FS_Interval
<1>4. IsFiniteSet({t}) /\ Cardinality({t}) = 1
  BY FS_Singleton
<1> HIDE DEF units
<1>5. IsFiniteSet(new) /\ Cardinality(new) = cost[t]
  <2>1. IsFiniteSet(new) /\ Cardinality(new) = Cardinality({t}) * Cardinality(units)
    BY <1>3, <1>4, FS_Product
  <2> QED
    BY <1>3, <1>4, <2>1
<1> HIDE DEF new
<1>6. Cardinality(Units(cost, T)) \in Nat
  BY FS_CardinalityType
<1>7. IsFiniteSet(Units(cost, T) \cup new)
      /\ Cardinality(Units(cost, T) \cup new)
         = Cardinality(Units(cost, T)) + Cardinality(new)
           - Cardinality(Units(cost, T) \cap new)
  BY <1>5, FS_Union
<1>8. Cardinality(Units(cost, T) \cap new) = 0
  BY <1>2, FS_EmptySet
<1>9. Cardinality(Units(cost, T) \cup new) = Cardinality(Units(cost, T)) + cost[t]
  BY <1>3, <1>5, <1>6, <1>7, <1>8
<1> QED
  BY <1>1, <1>7, <1>9 DEF Weight

\* Closing a hold takes exactly its cost away, and the cost was there.
LEMMA WeightRemove ==
    ASSUME NEW S, NEW cost \in [S -> Nat], NEW T \in SUBSET S,
           NEW t \in T, IsFiniteSet(Units(cost, T))
    PROVE  /\ IsFiniteSet(Units(cost, T \ {t}))
           /\ Weight(cost, T \ {t}) = Weight(cost, T) - cost[t]
           /\ Weight(cost, T) >= cost[t]
<1>1. Units(cost, T \ {t}) \subseteq Units(cost, T)
  BY DEF Units
<1>2. IsFiniteSet(Units(cost, T \ {t}))
  BY <1>1, FS_Subset
<1>3. (T \ {t}) \cup {t} = T
  OBVIOUS
<1>4. Weight(cost, T) = Weight(cost, T \ {t}) + cost[t]
  BY <1>2, <1>3, WeightAdd
<1>5. Weight(cost, T \ {t}) \in Nat
  BY <1>2, FS_CardinalityType DEF Weight
<1> QED
  BY <1>2, <1>4, <1>5

-----------------------------------------------------------------------------
(* The ledger of a task.                                                   *)

\* A sequence of one row grows to the sequence of two.
LEMMA AppendPair ==
    ASSUME NEW S, NEW a \in S, NEW b \in S
    PROVE  Append(<<a>>, b) = <<a, b>>
<1>1. <<a>> \in Seq(S) /\ <<a, b>> \in Seq(S)
  OBVIOUS
<1>2. Append(<<a>>, b) \in Seq(S) /\ Len(Append(<<a>>, b)) = 2
  BY <1>1
<1>3. Append(<<a>>, b)[1] = a /\ Append(<<a>>, b)[2] = b
  BY <1>1
<1>4. \A i \in 1 .. 2 : Append(<<a>>, b)[i] = <<a, b>>[i]
  BY <1>3
<1> QED
  BY <1>1, <1>2, <1>4, SeqEqual

\* How the ledger rows of a task grow.
LEMMA Rows ==
    /\ Append(Unused, "FREEZE") = Held
    /\ Append(Held, "CONFIRM") = Charged
    /\ Append(Held, "REFUND") = Returned
<1> DEFINE R == {"FREEZE", "CONFIRM", "REFUND"}
<1>1. Append(<<>>, "FREEZE") = <<"FREEZE">>
  OBVIOUS
<1>2. "FREEZE" \in R /\ "CONFIRM" \in R /\ "REFUND" \in R
  OBVIOUS
<1> HIDE DEF R
<1> QED
  BY <1>1, <1>2, AppendPair DEF Unused, Held, Charged, Returned

\* The four ledgers a task can have are different sequences of row types.
LEMMA RowsDiffer ==
    /\ Unused # Held /\ Unused # Charged /\ Unused # Returned
    /\ Held # Charged /\ Held # Returned /\ Charged # Returned
    /\ {Unused, Held, Charged, Returned} \subseteq Seq({"FREEZE", "CONFIRM", "REFUND"})
BY DEF Unused, Held, Charged, Returned

\* What the ledger of a task says of its length.
LEMMA RowCounts ==
    /\ Len(Unused) = 0 /\ Len(Held) = 1 /\ Len(Charged) = 2 /\ Len(Returned) = 2
BY DEF Unused, Held, Charged, Returned

-----------------------------------------------------------------------------
\* Nothing is owed, locked or sent before the first request.
LEMMA Initialization == Init => IInv
<1> SUFFICES ASSUME Init PROVE IInv
  OBVIOUS
<1>1. TypeOK
  BY RowsDiffer, NoneAssumption, CopiesAssumption
     DEF Init, TypeOK, Accounts, NoAccount, Requests, Workers
<1>m. \A m \in Messages : m[1] \in Tasks /\ m[2] \in 1 .. Copies
  BY DEF Messages
<1>2. LockInv /\ CommitInv /\ WorkInv /\ StatusMatchesLedger
  BY <1>m, RowsDiffer, NoneAssumption
     DEF Init, LockInv, CommitInv, WorkInv, StatusMatchesLedger, NoAccount,
         WorksOnHold, Matches, InTransaction
<1>l. LedgerInv
  BY RowCounts DEF Init, LedgerInv
<1>3. SendInv
  <2>1. \A t \in Tasks : sent[t] = 0 /\ pc[t] = "idle"
    BY DEF Init
  <2>2. queue = {} /\ \A m \in Messages : work[m] = "idle"
    BY DEF Init
  <2>3. 0 < Copies
    BY CopiesAssumption
  <2>4. \A t \in Tasks : sent[t] < Copies /\ pc[t] # "dispatched"
    BY <2>1, <2>3
  <2> QED
    BY <2>1, <2>2, <2>4, FlagAssumption DEF SendInv
<1>4. OpenHolds = {} /\ Repeats = {}
  <2>1. Len(Unused) = 0
    BY DEF Unused
  <2>2. \A t \in Tasks : 3 .. Len(ledger[t]) = {}
    BY <2>1 DEF Init
  <2> QED
    BY <2>2, RowsDiffer DEF Init, OpenHolds, Repeats
<1>5. Books
  BY <1>4, WeightOfNone
     DEF Init, Books, FrozenBacked, Conservation, NoOverdraft, SettledOnce,
         NoAccount, HeldCredit, Repeated
<1> QED
  BY <1>1, <1>2, <1>l, <1>3, <1>5 DEF IInv

\* The ledger operations turn an account row into an account row.
LEMMA RowTypes ==
    /\ Row(0, 0, 0) \in Accounts
    /\ \A q \in Accounts : Granted(q) \in Accounts
    /\ \A q \in Accounts, t \in Tasks :
          /\ AfterFreeze(q, t) \in Accounts
          /\ AfterConfirm(q, t) \in Accounts
          /\ AfterRefund(q, t) \in Accounts
<1>1. \A b, f, n \in Int : Row(b, f, n) \in Accounts
  BY DEF Row, Accounts
<1>2. \A n \in Int : Clamped(n) \in Int
  BY DEF Clamped
<1>3. ASSUME NEW q \in Accounts
      PROVE  /\ q.balance \in Int /\ q.frozen \in Int /\ q.total \in Int
             /\ Granted(q) \in Accounts
  <2>1. q.balance \in Int /\ q.frozen \in Int /\ q.total \in Int
    BY DEF Accounts
  <2>2. q.balance + Gift \in Int /\ q.total + Gift \in Int
    BY <2>1, GiftAssumption
  <2> QED
    BY <1>1, <2>1, <2>2 DEF Granted
<1>4. ASSUME NEW q \in Accounts, NEW t \in Tasks
      PROVE  /\ AfterFreeze(q, t) \in Accounts
             /\ AfterConfirm(q, t) \in Accounts
             /\ AfterRefund(q, t) \in Accounts
  <2>1. Cost[t] \in Int
    BY CostAssumption
  <2>2. /\ q.balance - Cost[t] \in Int /\ q.balance + Cost[t] \in Int
        /\ q.frozen + Cost[t] \in Int /\ Clamped(q.frozen - Cost[t]) \in Int
    BY <1>2, <1>3, <2>1
  <2> QED
    BY <1>1, <1>3, <2>2 DEF AfterFreeze, AfterConfirm, AfterRefund
<1> QED
  BY <1>1, <1>3, <1>4


\* Every step keeps the variables in their types.
LEMMA TypeStep == TypeOK /\ SendInv /\ [Next]_vars => TypeOK'
<1> SUFFICES ASSUME TypeOK, SendInv, [Next]_vars PROVE TypeOK'
  OBVIOUS
<1> USE CostAssumption, GiftAssumption, NoneAssumption, CopiesAssumption DEF TypeOK
<1>1. ASSUME NEW t \in Tasks, Request(t) PROVE TypeOK'
  <2>1. Seen \in Accounts
    BY RowTypes DEF Seen
  <2>2. CASE Open(t)
    BY <2>2 DEF Open, Requests
  <2>3. CASE Freeze(t)
    BY <2>3 DEF Freeze, Requests
  <2>4. CASE GenerateInRequest(t)
    BY <2>4 DEF GenerateInRequest, Requests
  <2>5. CASE CommitSync(t)
    BY <2>1, <2>5, RowTypes DEF CommitSync, Requests
  <2>6. CASE Dispatch(t)
    <3>1. sent[t] \in 0 .. Copies /\ sent[t] < Copies
      BY <2>6 DEF Dispatch, SendInv
    <3>2. sent[t] + 1 \in 0 .. Copies /\ sent[t] + 1 \in 1 .. Copies
      BY <3>1
    <3>3. sent' = [sent EXCEPT ![t] = sent[t] + 1] /\ sent'[t] = sent[t] + 1
      BY <2>6 DEF Dispatch
    <3>4. queue' \subseteq Messages
      BY <2>6, <3>2, <3>3 DEF Dispatch, Messages
    <3> QED
      BY <2>6, <3>2, <3>3, <3>4 DEF Dispatch, Requests
  <2>7. CASE CommitAsync(t)
    BY <2>1, <2>7, RowTypes DEF CommitAsync, Requests
  <2> QED
    BY <1>1, <2>2, <2>3, <2>4, <2>5, <2>6, <2>7 DEF Request
<1>2. ASSUME NEW m \in Messages, Worker(m) PROVE TypeOK'
  <2> USE DEF Move, Workers
  <2>t. m[1] \in Tasks
    BY DEF Messages
  <2>1. CASE Receive(m)
    BY <2>1 DEF Receive
  <2>2. CASE Load(m)
    BY <2>2 DEF Load
  <2>3. CASE Generate(m)
    BY <2>3 DEF Generate
  <2>4. CASE Confirm(m)
    BY <2>4, <2>t, RowTypes DEF Confirm
  <2>5. CASE MarkFailed(m)
    BY <2>5 DEF MarkFailed
  <2>6. CASE Refund(m)
    BY <2>6, <2>t, RowTypes DEF Refund
  <2> QED
    BY <1>2, <2>1, <2>2, <2>3, <2>4, <2>5, <2>6 DEF Worker
<1>3. ASSUME NEW t \in Tasks, Abort(t) \/ Redeliver(t) PROVE TypeOK'
  BY <1>3 DEF Abort, Redeliver, Requests
<1>4. ASSUME NEW m \in Messages, WorkerFault(m) PROVE TypeOK'
  BY <1>4 DEF WorkerFault, GenerateFails, ConfirmFails, RefundFails,
              WorkerCrash, Move, Workers
<1>5. ASSUME NEW v \in Viewers, Viewer(v) \/ ViewerCrash(v) PROVE TypeOK'
  BY <1>5, RowTypes DEF Viewer, ViewerCrash, OpenAccount, GrantGift
<1>6. CASE UNCHANGED vars
  BY <1>6 DEF vars
<1> QED
  BY <1>1, <1>2, <1>3, <1>4, <1>5, <1>6 DEF Next

-----------------------------------------------------------------------------
(* The weight of the repeated settlements.                                 *)

\* A task with at most two rows has no repeated settlement, before or after.
LEMMA RepeatsKept ==
    ASSUME TypeOK, NEW t \in Tasks,
           \A s \in Tasks : s # t => ledger'[s] = ledger[s],
           Len(ledger[t]) <= 2, Len(ledger'[t]) <= 2,
           Len(ledger[t]) \in Nat, Len(ledger'[t]) \in Nat
    PROVE  Repeats' = Repeats
<1>1. 3 .. Len(ledger[t]) = {} /\ 3 .. Len(ledger'[t]) = {}
  OBVIOUS
<1>2. \A s \in Tasks : {s} \X (3 .. Len(ledger'[s])) = {s} \X (3 .. Len(ledger[s]))
  BY <1>1
<1> QED
  BY <1>2 DEF Repeats

\* One row more weighs what its task costs.
LEMMA RowAdded ==
    ASSUME NEW r \in Tasks \X Nat, r \notin Repeats,
           IsFiniteSet(Units(RowCost, Repeats))
    PROVE  /\ IsFiniteSet(Units(RowCost, Repeats \cup {r}))
           /\ Weight(RowCost, Repeats \cup {r}) = Repeated + RowCost[r]
<1> DEFINE S == Tasks \X Nat
<1>1. RowCost \in [S -> Nat]
  BY CostAssumption DEF RowCost
<1>2. Repeats \in SUBSET S
  BY DEF Repeats
<1>3. r \in S
  OBVIOUS
<1> HIDE DEF S
<1> QED
  BY <1>1, <1>2, <1>3, WeightAdd DEF Repeated

\* A row after the second is one more repeated settlement.
LEMMA RepeatsGrow ==
    ASSUME TypeOK, NEW t \in Tasks, NEW n \in Nat, n >= 2,
           \A s \in Tasks : s # t => ledger'[s] = ledger[s],
           Len(ledger[t]) = n, Len(ledger'[t]) = n + 1,
           IsFiniteSet(Units(RowCost, Repeats))
    PROVE  /\ IsFiniteSet(Units(RowCost, Repeats'))
           /\ Repeated' = Repeated + Cost[t]
           /\ Repeats' # {}
<1>1. 3 .. (n + 1) = (3 .. n) \cup {n + 1} /\ n + 1 \notin 3 .. n
  OBVIOUS
<1>2. <<t, n + 1>> \notin Repeats
  BY <1>1 DEF Repeats
<1>3. Repeats' = Repeats \cup {<<t, n + 1>>}
  <2>1. {t} \X (3 .. Len(ledger'[t]))
           = ({t} \X (3 .. Len(ledger[t]))) \cup {<<t, n + 1>>}
    BY <1>1
  <2> QED
    BY <2>1 DEF Repeats
<1>4. RowCost \in [Tasks \X Nat -> Nat] /\ RowCost[<<t, n + 1>>] = Cost[t]
  BY CostAssumption DEF RowCost
<1>5. <<t, n + 1>> \in Tasks \X Nat
  OBVIOUS
<1>6. /\ IsFiniteSet(Units(RowCost, Repeats \cup {<<t, n + 1>>}))
      /\ Weight(RowCost, Repeats \cup {<<t, n + 1>>})
           = Repeated + RowCost[<<t, n + 1>>]
  BY <1>2, <1>5, RowAdded
<1>7. Repeats' # {}
  BY <1>3
<1>8. Repeated' = Repeated + Cost[t]
  BY <1>3, <1>4, <1>6 DEF Repeated, RowCost
<1> QED
  BY <1>3, <1>6, <1>7, <1>8

\* Weights are natural numbers.
LEMMA WeightTypes == Books => HeldCredit \in Nat /\ Repeated \in Nat
BY FS_CardinalityType DEF Books, HeldCredit, Repeated, Weight

-----------------------------------------------------------------------------
(* Settling a task: confirm and refund by the worker of message m.         *)

Settles(m) == Confirm(m) \/ Refund(m)

\* The row that closes t is its second one when the hold was open and a later
\* one when the task had been settled before.
LEMMA SettleLedger ==
    ASSUME IInv, NEW m \in Messages, Settles(m)
    PROVE  /\ m[1] \in Tasks /\ ledger[m[1]] # Unused
           /\ \A s \in Tasks : s # m[1] => ledger'[s] = ledger[s]
           /\ Len(ledger[m[1]]) \in Nat \ {0}
           /\ Len(ledger'[m[1]]) = Len(ledger[m[1]]) + 1
           /\ ledger[m[1]] = Held => ledger'[m[1]] = (IF work[m] = "confirm" THEN Charged ELSE Returned)
           /\ ledger[m[1]] # Held => Len(ledger[m[1]]) >= 2
           /\ ledger'[m[1]] # Held /\ ledger'[m[1]] # Unused
<1> DEFINE t == m[1]
           R == {"FREEZE", "CONFIRM", "REFUND"}
<1>1. t \in Tasks
  BY DEF Messages
<1>2. /\ ledger \in [Tasks -> Seq(R)]
      /\ work[m] \in {"confirm", "refund"}
  BY DEF IInv, TypeOK, Settles, Confirm, Refund, Move
<1>3. ledger[t] # Unused
  BY <1>2 DEF IInv, WorkInv, WorksOnHold
<1>4. PICK x \in R : /\ ledger' = [ledger EXCEPT ![t] = Append(ledger[t], x)]
                      /\ x = IF work[m] = "confirm" THEN "CONFIRM" ELSE "REFUND"
  BY DEF Settles, Confirm, Refund, Move
<1> HIDE DEF R
<1>5. ledger[t] \in Seq(R) /\ ledger'[t] = Append(ledger[t], x)
  BY <1>1, <1>2, <1>4
<1>6. /\ Len(ledger[t]) \in Nat /\ Len(ledger'[t]) = Len(ledger[t]) + 1
  BY <1>5
<1>7. Len(ledger[t]) # 0
  BY <1>3, <1>5 DEF Unused
<1>8. ledger[t] # Held => Len(ledger[t]) >= 2
  <2>1. Len(ledger[t]) = 1 => ledger[t] = Held
    BY <1>1 DEF IInv, LedgerInv
  <2> DEFINE n == Len(ledger[t])
  <2>2. n \in Nat /\ n # 0
    BY <1>6, <1>7
  <2> HIDE DEF n
  <2>3. n # 1 => n >= 2
    BY <2>2
  <2>4. ledger[t] # Held => n # 1
    BY <2>1 DEF n
  <2> QED
    BY <2>3, <2>4 DEF n
<1>9. ledger[t] = Held => ledger'[t] = (IF work[m] = "confirm" THEN Charged ELSE Returned)
  BY <1>4, <1>5, Rows
<1>10. \A s \in Tasks : s # t => ledger'[s] = ledger[s]
  BY <1>1, <1>2, <1>4
<1>11. ledger'[t] # Held /\ ledger'[t] # Unused
  <2>1. Len(ledger'[t]) # 1 /\ Len(ledger'[t]) # 0
    BY <1>6, <1>7
  <2>2. Len(Held) = 1 /\ Len(Unused) = 0
    BY RowCounts
  <2> QED
    BY <2>1, <2>2, Zenon
<1> QED
  BY <1>1, <1>3, <1>6, <1>7, <1>8, <1>9, <1>10, <1>11

\* A first settlement closes the hold, a later one is one more repeat.
LEMMA SettleWeights ==
    ASSUME IInv, NEW m \in Messages, Settles(m)
    PROVE  /\ IsFiniteSet(Units(Cost, OpenHolds'))
           /\ IsFiniteSet(Units(RowCost, Repeats'))
           /\ Cost[m[1]] \in Nat
           /\ HeldCredit \in Nat /\ HeldCredit' \in Nat
           /\ Repeated \in Nat /\ Repeated' \in Nat
           /\ \/ /\ ledger[m[1]] = Held /\ Repeats' = Repeats
                 /\ OpenHolds' = OpenHolds \ {m[1]}
                 /\ HeldCredit' = HeldCredit - Cost[m[1]]
                 /\ Repeated' = Repeated
              \/ /\ ledger[m[1]] # Held /\ Repeats' # {}
                 /\ HeldCredit' = HeldCredit
                 /\ Repeated' = Repeated + Cost[m[1]]
<1> DEFINE t == m[1]
<1>1. t \in Tasks /\ Cost \in [Tasks -> Nat] /\ Cost[t] \in Nat
  BY SettleLedger, CostAssumption
<1>2. /\ IsFiniteSet(Units(Cost, OpenHolds)) /\ IsFiniteSet(Units(RowCost, Repeats))
      /\ HeldCredit \in Nat /\ Repeated \in Nat
  BY WeightTypes DEF IInv, Books
<1>3. CASE ledger[t] = Held
  <2>1. t \in OpenHolds /\ OpenHolds \in SUBSET Tasks
    BY <1>1, <1>3 DEF OpenHolds
  <2>2. OpenHolds' = OpenHolds \ {t}
    BY <1>1, <1>3, SettleLedger DEF OpenHolds
  <2>3. /\ IsFiniteSet(Units(Cost, OpenHolds \ {t}))
        /\ Weight(Cost, OpenHolds \ {t}) = Weight(Cost, OpenHolds) - Cost[t]
        /\ Weight(Cost, OpenHolds) >= Cost[t]
    BY <1>1, <1>2, <2>1, WeightRemove
  <2>4. Repeats' = Repeats
    <3>1. Len(ledger[t]) = 1
      BY <1>3, RowCounts
    <3>2. Len(ledger'[t]) = 2
      <4>1. Len(ledger'[t]) = Len(ledger[t]) + 1
        BY SettleLedger, Zenon
      <4> QED
        BY <3>1, <4>1
    <3>3. \A s \in Tasks : s # t => ledger'[s] = ledger[s]
      BY SettleLedger, Zenon
    <3>4. TypeOK
      BY DEF IInv
    <3>5. /\ Len(ledger[t]) <= 2 /\ Len(ledger[t]) \in Nat
          /\ Len(ledger'[t]) <= 2 /\ Len(ledger'[t]) \in Nat
      BY <3>1, <3>2
    <3> HIDE DEF t
    <3> QED
      BY <1>1, <3>3, <3>4, <3>5, RepeatsKept, Zenon
  <2>5. /\ HeldCredit' = HeldCredit - Cost[t] /\ HeldCredit >= Cost[t]
        /\ Repeated' = Repeated
    BY <2>2, <2>3, <2>4 DEF HeldCredit, Repeated
  <2> QED
    BY <1>1, <1>2, <1>3, <2>2, <2>3, <2>4, <2>5
<1>4. CASE ledger[t] # Held
  <2>1. OpenHolds' = OpenHolds
    BY <1>1, <1>4, SettleLedger DEF OpenHolds
  <2>2. /\ IsFiniteSet(Units(RowCost, Repeats'))
        /\ Repeated' = Repeated + Cost[t] /\ Repeats' # {}
    <3>1. Len(ledger[t]) \in Nat /\ Len(ledger[t]) >= 2
      BY <1>4, SettleLedger
    <3> QED
      BY <1>1, <1>2, <3>1, SettleLedger, RepeatsGrow DEF IInv
  <2>3. HeldCredit' = HeldCredit
    BY <2>1 DEF HeldCredit
  <2> QED
    BY <1>1, <1>2, <1>4, <2>1, <2>2, <2>3
<1> QED
  BY <1>3, <1>4

\* The settlers of t are among its messages; m becomes one of them.
LEMMA SettlerAdded ==
    ASSUME IInv, NEW m \in Messages, Settles(m)
    PROVE  /\ sent[m[1]] \in Nat /\ m[2] <= sent[m[1]] /\ sent[m[1]] > 0
           /\ Cardinality(Settlers(m[1])) \in Nat
           /\ Cardinality(Settlers(m[1])') = Cardinality(Settlers(m[1])) + 1
           /\ Cardinality(Settlers(m[1])') <= sent[m[1]]
           /\ \A s \in Tasks : s # m[1] => Settlers(s)' = Settlers(s)
<1> DEFINE t == m[1]
           n == m[2]
<1>1. t \in Tasks /\ n \in 1 .. Copies /\ m = <<t, n>>
  BY DEF Messages
<1>2. /\ work \in [Messages -> Workers] /\ sent[t] \in 0 .. Copies
      /\ work[m] \in {"confirm", "refund"}
      /\ work' = [work EXCEPT ![m] = "done"]
  BY <1>1 DEF IInv, TypeOK, Settles, Confirm, Refund, Move
<1>3. n <= sent[t]
  BY <1>1, <1>2, CopiesAssumption DEF IInv, SendInv
<1>4. Settlers(t)' = Settlers(t) \cup {n} /\ n \notin Settlers(t)
  BY <1>1, <1>2 DEF Settlers, Messages
<1>5. \A k \in Settlers(t)' : k \in 1 .. sent[t]
  <2>1. \A k \in Settlers(t) : k <= sent[t]
    <3> SUFFICES ASSUME NEW k \in Settlers(t), ~(k <= sent[t]) PROVE FALSE
      OBVIOUS
    <3>1. k \in 1 .. Copies /\ <<t, k>> \in Messages /\ work[<<t, k>>] = "done"
      BY <1>1 DEF Settlers, Messages
    <3>2. k > sent[t]
      BY <1>2, <3>1, CopiesAssumption
    <3> QED
      BY <3>1, <3>2 DEF IInv, SendInv
  <2>2. \A k \in Settlers(t) : k \in Nat /\ k >= 1
    BY DEF Settlers
  <2>3. sent[t] \in Nat /\ n \in Nat /\ n >= 1
    BY <1>1, <1>2
  <2> QED
    BY <1>3, <1>4, <2>1, <2>2, <2>3
<1>6. IsFiniteSet(1 .. sent[t]) /\ Cardinality(1 .. sent[t]) = sent[t]
  <2>1. sent[t] \in Nat
    BY <1>2
  <2>2. /\ IsFiniteSet(1 .. sent[t])
        /\ Cardinality(1 .. sent[t]) = IF 1 > sent[t] THEN 0 ELSE sent[t] - 1 + 1
    BY <2>1, FS_Interval
  <2> QED
    BY <2>1, <2>2
<1>7. /\ IsFiniteSet(Settlers(t)') /\ Cardinality(Settlers(t)') <= sent[t]
  <2>1. Settlers(t)' \subseteq 1 .. sent[t]
    BY <1>5
  <2> QED
    BY <1>6, <2>1, FS_Subset
<1>8. IsFiniteSet(Settlers(t))
  BY <1>4, <1>7, FS_Subset
<1>9. Cardinality(Settlers(t)') = Cardinality(Settlers(t)) + 1
  BY <1>4, <1>8, FS_AddElement
<1>10. \A s \in Tasks : s # t => Settlers(s)' = Settlers(s)
  BY <1>1, <1>2 DEF Settlers, Messages
<1>11. sent[t] \in Nat /\ sent[t] > 0
  BY <1>1, <1>2, <1>3
<1> QED
  BY <1>3, <1>7, <1>8, <1>9, <1>10, <1>11, FS_CardinalityType

-----------------------------------------------------------------------------
(* The books.  A step that writes neither the row nor the ledger keeps     *)
(* them; the others are the commits, the gift, confirm and refund.         *)

BooksBalance ==
    /\ quota.balance + HeldCredit + spent = quota.total + Repeated
    /\ quota.balance >= 0 /\ quota.frozen >= 0 /\ spent \in Nat
    /\ quota.frozen <= HeldCredit /\ HeldCredit - quota.frozen <= Repeated
    /\ HeldCredit \in Nat /\ Repeated \in Nat
    /\ quota.balance \in Int /\ quota.frozen \in Int /\ quota.total \in Int

LEMMA BooksBalanced == IInv => BooksBalance
<1> SUFFICES ASSUME IInv PROVE BooksBalance
  OBVIOUS
<1>1. HeldCredit \in Nat /\ Repeated \in Nat
  BY WeightTypes DEF IInv
<1>2. quota.balance \in Int /\ quota.frozen \in Int /\ quota.total \in Int
  BY DEF IInv, TypeOK, Accounts
<1> QED
  BY <1>1, <1>2 DEF IInv, Books, BooksBalance, Conservation, NoOverdraft, FrozenBacked

\* What a step that keeps the row, the ledger and spent leaves of the books.
LEMMA BooksFrame ==
    ASSUME Books, UNCHANGED <<quota, ledger, spent>>, SettledOnce'
    PROVE  Books'
<1>1. OpenHolds' = OpenHolds /\ Repeats' = Repeats
  BY DEF OpenHolds, Repeats
<1>2. HeldCredit' = HeldCredit /\ Repeated' = Repeated
  BY <1>1 DEF HeldCredit, Repeated
<1> QED
  BY <1>1, <1>2 DEF Books, FrozenBacked, Conservation, NoOverdraft

\* Another message is sent only for a task that has no rows yet.
LEMMA SettledKept ==
    ASSUME IInv, UNCHANGED ledger,
           UNCHANGED sent \/ \E t \in Tasks : Dispatch(t)
    PROVE  SettledOnce'
<1>1. SettledOnce
  BY DEF IInv, Books
<1>2. CASE UNCHANGED sent
  BY <1>1, <1>2 DEF SettledOnce
<1>3. ASSUME NEW t \in Tasks, Dispatch(t) PROVE SettledOnce'
  <2>1. ledger[t] = Unused
    BY <1>3 DEF IInv, CommitInv, Dispatch
  <2>2. \A s \in Tasks : s # t => sent'[s] = sent[s]
    BY <1>3 DEF Dispatch, IInv, TypeOK
  <2> QED
    BY <1>1, <2>1, <2>2 DEF SettledOnce
<1> QED
  BY <1>2, <1>3

\* What the transaction of a request sees: the committed row, or the one it
\* has created with the gift in it.
LEMMA SeenRow ==
    ASSUME IInv
    PROVE  \E a \in {Gift} \cup {0} :
              /\ a \in Nat
              /\ Seen.balance = quota.balance + a
              /\ Seen.total = quota.total + a
              /\ Seen.frozen = quota.frozen
              /\ quota.balance \in Int /\ quota.total \in Int
              /\ quota.frozen \in Int
<1>1. quota.balance \in Int /\ quota.frozen \in Int /\ quota.total \in Int
  BY DEF IInv, TypeOK, Accounts
<1>2. CASE quota.exists
  <2>1. Seen.balance = quota.balance + 0 /\ Seen.total = quota.total + 0
    BY <1>1, <1>2 DEF Seen
  <2> QED
    BY <1>1, <1>2, <2>1 DEF Seen
<1>3. CASE ~quota.exists
  <2>1. Seen = Row(quota.balance + Gift, quota.frozen, quota.total + Gift)
    BY <1>3 DEF Seen, Granted
  <2>2. /\ Seen.balance = quota.balance + Gift
        /\ Seen.total = quota.total + Gift /\ Seen.frozen = quota.frozen
    BY <2>1 DEF Row
  <2> QED
    BY <1>1, <2>2, GiftAssumption
<1> QED
  BY <1>2, <1>3

\* A committing request holds the lock, could pay, and is the task's first row.
LEMMA Committing ==
    ASSUME IInv, NEW t \in Tasks, CommitSync(t) \/ CommitAsync(t)
    PROVE  /\ rowLock = t /\ Seen.balance >= Cost[t] /\ ledger[t] = Unused
           /\ \A s \in Tasks : s # t => ledger'[s] = ledger[s]
           /\ CommitSync(t) => ledger'[t] = Charged
           /\ CommitAsync(t) => ledger'[t] = Held
           /\ Repeats' = Repeats
           /\ t \notin OpenHolds /\ t \notin Settled
<1>1. /\ rowLock = t /\ Seen.balance >= Cost[t] /\ ledger[t] = Unused
  BY NoneAssumption DEF IInv, LockInv, CommitInv, CommitSync, CommitAsync, InTransaction
<1>2. \A s \in Tasks : s # t => ledger'[s] = ledger[s]
  BY DEF CommitSync, CommitAsync, IInv, TypeOK
<1>3. CommitSync(t) => ledger'[t] = Charged
  BY <1>1, Rows DEF CommitSync, IInv, TypeOK
<1>4. CommitAsync(t) => ledger'[t] = Held
  BY <1>1, Rows DEF CommitAsync, IInv, TypeOK
<1>5. Repeats' = Repeats
  <2>1. Len(ledger[t]) = 0
    BY <1>1, RowCounts
  <2>2. Len(ledger[t]) <= 2 /\ Len(ledger[t]) \in Nat
    BY <2>1
  <2>4. Len(ledger'[t]) = 1 \/ Len(ledger'[t]) = 2
    BY <1>3, <1>4, RowCounts
  <2>5. Len(ledger'[t]) <= 2 /\ Len(ledger'[t]) \in Nat
    <3>1. CASE Len(ledger'[t]) = 1
      BY <3>1
    <3>2. CASE Len(ledger'[t]) = 2
      BY <3>2
    <3> QED
      BY <2>4, <3>1, <3>2
  <2>3. TypeOK
    BY DEF IInv
  <2> QED
    BY <1>2, <2>2, <2>3, <2>5, RepeatsKept, Zenon
<1>6. t \notin OpenHolds /\ t \notin Settled
  BY <1>1, RowsDiffer DEF OpenHolds, Settled
<1> QED
  BY <1>1, <1>2, <1>3, <1>4, <1>5, <1>6

\* A committed request opens one hold it could pay for.
LEMMA BooksCommitAsync ==
    ASSUME IInv, NEW t \in Tasks, CommitAsync(t)
    PROVE  Books'
<1>1. /\ rowLock = t /\ Seen.balance >= Cost[t] /\ ledger[t] = Unused
      /\ ledger'[t] = Held /\ \A s \in Tasks : s # t => ledger'[s] = ledger[s]
      /\ Repeats' = Repeats /\ t \notin OpenHolds
  BY Committing
<1>2. OpenHolds' = OpenHolds \cup {t} /\ OpenHolds \in SUBSET Tasks
  BY <1>1 DEF OpenHolds
<1>3. Cost \in [Tasks -> Nat] /\ Cost[t] \in Nat
  BY CostAssumption
<1>4. /\ IsFiniteSet(Units(Cost, OpenHolds'))
      /\ HeldCredit' = HeldCredit + Cost[t]
  BY <1>1, <1>2, <1>3, WeightAdd DEF IInv, Books, HeldCredit
<1>5. Repeated' = Repeated /\ IsFiniteSet(Units(RowCost, Repeats'))
  BY <1>1 DEF Repeated, IInv, Books
<1>6. PICK a \in {Gift} \cup {0} :
         /\ a \in Nat
         /\ Seen.balance = quota.balance + a
         /\ Seen.total = quota.total + a
         /\ Seen.frozen = quota.frozen
  BY SeenRow
<1>7. /\ quota'.balance = Seen.balance - Cost[t]
      /\ quota'.frozen = Seen.frozen + Cost[t]
      /\ quota'.total = Seen.total
      /\ spent' = spent
  BY DEF CommitAsync, AfterFreeze, Row
<1>8. BooksBalance
  BY BooksBalanced
<1>9. FrozenBacked' /\ Conservation' /\ NoOverdraft' /\ spent' \in Nat
  <2>1. /\ quota'.balance = (quota.balance + a) - Cost[t]
        /\ quota'.frozen = quota.frozen + Cost[t]
        /\ quota'.total = quota.total + a
        /\ quota.balance + a >= Cost[t]
    BY <1>1, <1>6, <1>7
  <2>2. FrozenBacked'
    BY <1>3, <1>4, <1>5, <1>8, <2>1 DEF BooksBalance, FrozenBacked
  <2>3. Conservation' /\ spent' \in Nat
    <3>1. /\ a \in Int /\ Cost[t] \in Int /\ spent' = spent
          /\ HeldCredit' = HeldCredit + Cost[t] /\ Repeated' = Repeated
      BY <1>3, <1>4, <1>5, <1>6, <1>7
    <3> DEFINE b == quota.balance
               n == quota.total
               c == Cost[t]
    <3>3. /\ b + HeldCredit + spent = n + Repeated
          /\ b \in Int /\ HeldCredit \in Int /\ spent \in Int
          /\ n \in Int /\ Repeated \in Int /\ a \in Int /\ c \in Int
      BY <1>8, <3>1 DEF BooksBalance
    <3>4. ((b + a) - c) + (HeldCredit + c) + spent = (n + a) + Repeated
      <4> HIDE DEF b, n, c
      <4> QED
        BY <3>3
    <3> QED
      BY <1>8, <2>1, <3>1, <3>4 DEF Conservation, BooksBalance
  <2>4. NoOverdraft'
    BY <1>3, <1>6, <1>8, <2>1 DEF BooksBalance, NoOverdraft
  <2> QED
    BY <2>2, <2>3, <2>4
<1>10. SettledOnce'
  <2>1. sent' = sent
    BY DEF CommitAsync
  <2> QED
    BY <1>1, <2>1 DEF IInv, Books, SettledOnce
<1> QED
  BY <1>4, <1>5, <1>9, <1>10 DEF Books

\* A request that generates in line opens and captures its hold at once.
LEMMA BooksCommitSync ==
    ASSUME IInv, NEW t \in Tasks, CommitSync(t)
    PROVE  Books'
<1>1. /\ rowLock = t /\ Seen.balance >= Cost[t] /\ ledger[t] = Unused
      /\ ledger'[t] = Charged /\ \A s \in Tasks : s # t => ledger'[s] = ledger[s]
      /\ Repeats' = Repeats
  BY Committing
<1>2. OpenHolds' = OpenHolds
  BY <1>1, RowsDiffer DEF OpenHolds
<1>3. Cost[t] \in Nat
  BY CostAssumption
<1>4. /\ IsFiniteSet(Units(Cost, OpenHolds')) /\ HeldCredit' = HeldCredit
      /\ Repeated' = Repeated /\ IsFiniteSet(Units(RowCost, Repeats'))
  BY <1>1, <1>2 DEF Repeated, IInv, Books, HeldCredit
<1>5. PICK a \in {Gift} \cup {0} :
         /\ a \in Nat
         /\ Seen.balance = quota.balance + a
         /\ Seen.total = quota.total + a
         /\ Seen.frozen = quota.frozen
  BY SeenRow
<1>6. BooksBalance
  BY BooksBalanced
<1>7. /\ quota'.balance = Seen.balance - Cost[t]
      /\ quota'.frozen = quota.frozen
      /\ quota'.total = Seen.total
      /\ spent' = spent + Cost[t]
  <2>1. quota' = Row(Seen.balance - Cost[t],
                     Clamped((quota.frozen + Cost[t]) - Cost[t]), Seen.total)
    BY <1>5 DEF CommitSync, AfterFreeze, AfterConfirm, Row
  <2>2. Clamped((quota.frozen + Cost[t]) - Cost[t]) = quota.frozen
    BY <1>3, <1>6 DEF Clamped, BooksBalance
  <2> QED
    BY <2>1, <2>2 DEF Row, CommitSync
<1>8. FrozenBacked' /\ Conservation' /\ NoOverdraft' /\ spent' \in Nat
  BY <1>1, <1>3, <1>4, <1>5, <1>6, <1>7
     DEF BooksBalance, Conservation, NoOverdraft, FrozenBacked
<1>9. SettledOnce'
  <2>1. sent' = sent
    BY DEF CommitSync
  <2> QED
    BY <1>1, <2>1 DEF IInv, Books, SettledOnce
<1> QED
  BY <1>4, <1>8, <1>9 DEF Books

\* What confirm and refund do to the row: the cost leaves the frozen credit,
\* as far as there is any, for the spent or for the balance.
LEMMA SettleRow ==
    ASSUME IInv, NEW m \in Messages, Settles(m)
    PROVE  /\ quota'.frozen = Clamped(quota.frozen - Cost[m[1]])
           /\ quota'.total = quota.total
           /\ \/ /\ Confirm(m)
                 /\ quota'.balance = quota.balance /\ spent' = spent + Cost[m[1]]
              \/ /\ Refund(m)
                 /\ quota'.balance = quota.balance + Cost[m[1]] /\ spent' = spent
           /\ sent' = sent
BY DEF Settles, Confirm, Refund, AfterConfirm, AfterRefund, Row

\* A task settled again was sent several times, and no oftener settled.
LEMMA SettleOnce ==
    ASSUME IInv, NEW m \in Messages, Settles(m)
    PROVE  SettledOnce'
<1> DEFINE t == m[1]
<1>1. t \in Tasks /\ sent' = sent /\ SettledOnce
  BY SettleLedger, SettleRow DEF IInv, Books
<1>2. \A s \in Tasks : s # t => ledger'[s] = ledger[s]
  BY SettleLedger, Zenon
<1>3. CASE ledger[t] = Held
  <2>1. ledger'[t] \in {Charged, Returned}
    BY <1>3, SettleLedger
  <2> QED
    BY <1>1, <1>2, <2>1 DEF SettledOnce
<1>4. CASE ledger[t] # Held
  <2>1. sent[t] # 1
    <3> SUFFICES ASSUME sent[t] = 1 PROVE FALSE
      OBVIOUS
    <3>1. m[2] = 1
      <4>1. m[2] <= 1 /\ m[2] \in Nat /\ m[2] >= 1
        BY SettlerAdded DEF Messages
      <4> QED
        BY <4>1
    <3>2. work[m] \in {"confirm", "refund"}
      BY DEF Settles, Confirm, Refund, Move
    <3> QED
      BY <1>4, <3>1, <3>2 DEF IInv, WorkInv, WorksOnHold
  <2>2. sent[t] > 1
    BY <2>1, SettlerAdded
  <2>3. Len(ledger[t]) = 1 + Cardinality(Settlers(t))
    BY <1>1, SettlerAdded, SettleLedger DEF IInv, LedgerInv
  <2>4. Len(ledger'[t]) <= 1 + sent[t]
    <3>1. /\ Len(ledger'[t]) = Len(ledger[t]) + 1
          /\ Cardinality(Settlers(t)') = Cardinality(Settlers(t)) + 1
          /\ Cardinality(Settlers(t)') <= sent[t]
          /\ Cardinality(Settlers(t)) \in Nat /\ sent[t] \in Nat
      BY SettlerAdded, SettleLedger, Zenon
    <3> QED
      BY <2>3, <3>1
  <2> QED
    BY <1>1, <1>2, <2>2, <2>4 DEF SettledOnce
<1> QED
  BY <1>3, <1>4

\* The cost of a first settlement leaves the open holds, the cost of a repeated
\* one joins the repeated cost: the books stay even either way.
LEMMA BooksSettle ==
    ASSUME IInv, NEW m \in Messages, Settles(m)
    PROVE  Books'
<1> DEFINE c == Cost[m[1]]
<1>1. BooksBalance
  BY BooksBalanced
<1>2. /\ c \in Nat /\ HeldCredit' \in Nat /\ Repeated' \in Nat
      /\ \/ HeldCredit' = HeldCredit - c /\ Repeated' = Repeated
         \/ HeldCredit' = HeldCredit /\ Repeated' = Repeated + c
  BY SettleWeights
<1>3. /\ quota'.frozen = Clamped(quota.frozen - c)
      /\ quota'.total = quota.total
      /\ \/ quota'.balance = quota.balance /\ spent' = spent + c
         \/ quota'.balance = quota.balance + c /\ spent' = spent
  BY SettleRow
<1> HIDE DEF c
<1>4. /\ quota'.frozen >= 0 /\ quota'.frozen >= quota.frozen - c
      /\ quota'.frozen = quota.frozen - c \/ quota'.frozen = 0
      /\ quota'.frozen \in Int
  BY <1>1, <1>2, <1>3 DEF Clamped, BooksBalance
<1>5. FrozenBacked'
  BY <1>1, <1>2, <1>4 DEF BooksBalance, FrozenBacked
<1>6. Conservation' /\ spent' \in Nat
  <2>1. HeldCredit' - Repeated' = (HeldCredit - Repeated) - c
    <3>0. HeldCredit \in Int /\ Repeated \in Int /\ c \in Int
      BY <1>1, <1>2 DEF BooksBalance
    <3>1. CASE HeldCredit' = HeldCredit - c /\ Repeated' = Repeated
      BY <3>0, <3>1
    <3>2. CASE HeldCredit' = HeldCredit /\ Repeated' = Repeated + c
      BY <3>0, <3>2
    <3> QED
      BY <1>2, <3>1, <3>2
  <2>2. quota'.balance + spent' = (quota.balance + spent) + c
    BY <1>1, <1>2, <1>3 DEF BooksBalance
  <2>3. /\ quota'.balance \in Int /\ spent' \in Nat
        /\ quota'.total \in Int
    BY <1>1, <1>2, <1>3 DEF BooksBalance
  <2> QED
    BY <1>1, <1>2, <1>3, <2>1, <2>2, <2>3 DEF BooksBalance, Conservation
<1>7. NoOverdraft'
  BY <1>1, <1>2, <1>3, <1>4 DEF BooksBalance, NoOverdraft
<1>8. IsFiniteSet(Units(Cost, OpenHolds')) /\ IsFiniteSet(Units(RowCost, Repeats'))
  BY SettleWeights
<1> QED
  BY <1>5, <1>6, <1>7, <1>8, SettleOnce DEF Books

\* Opening the account and granting the gift.
LEMMA BooksViewer ==
    ASSUME IInv, NEW v \in Viewers, Viewer(v)
    PROVE  Books'
<1>1. UNCHANGED <<ledger, spent, sent>>
  BY DEF Viewer, OpenAccount, GrantGift
<1>2. OpenHolds' = OpenHolds /\ Repeats' = Repeats
  BY <1>1 DEF OpenHolds, Repeats
<1>3. HeldCredit' = HeldCredit /\ Repeated' = Repeated
  BY <1>2 DEF HeldCredit, Repeated
<1>4. BooksBalance
  BY BooksBalanced
<1>5. /\ quota'.frozen = quota.frozen
      /\ quota'.balance - quota.balance = quota'.total - quota.total
      /\ quota'.balance >= quota.balance
      /\ quota'.balance \in Int /\ quota'.total \in Int
  <2>1. CASE OpenAccount(v) /\ ~quota.exists
    BY <2>1 DEF OpenAccount, Row, IInv, CommitInv, NoAccount
  <2>2. CASE OpenAccount(v) /\ quota.exists
    BY <1>4, <2>2 DEF OpenAccount, BooksBalance
  <2>3. CASE GrantGift(v)
    BY <1>4, <2>3, GiftAssumption DEF GrantGift, Granted, Row, BooksBalance
  <2> QED
    BY <2>1, <2>2, <2>3 DEF Viewer
<1>6. FrozenBacked' /\ Conservation' /\ NoOverdraft' /\ spent' \in Nat
  <2>1. FrozenBacked'
    BY <1>3, <1>4, <1>5 DEF BooksBalance, FrozenBacked
  <2>2. Conservation' /\ spent' \in Nat
    BY <1>1, <1>3, <1>4, <1>5 DEF BooksBalance, Conservation
  <2>3. NoOverdraft'
    BY <1>4, <1>5 DEF BooksBalance, NoOverdraft
  <2> QED
    BY <2>1, <2>2, <2>3
<1>7. SettledOnce'
  BY <1>1, SettledKept
<1>8. IsFiniteSet(Units(Cost, OpenHolds')) /\ IsFiniteSet(Units(RowCost, Repeats'))
  BY <1>2 DEF IInv, Books
<1> QED
  BY <1>6, <1>7, <1>8 DEF Books

-----------------------------------------------------------------------------
(* Who holds the row lock, what is committed, where the messages are.      *)

Control ==
    /\ LockInv /\ CommitInv /\ SendInv
    /\ WorkInv /\ LedgerInv /\ StatusMatchesLedger

\* What a step leaves of the tasks whose rows and messages it leaves alone.
LEMMA RowsFrame ==
    ASSUME IInv, UNCHANGED <<status, ledger, sent, work>>
    PROVE  WorkInv' /\ LedgerInv' /\ StatusMatchesLedger'
<1>1. \A t \in Tasks : Settlers(t)' = Settlers(t)
  BY DEF Settlers
<1> QED
  BY <1>1 DEF IInv, WorkInv, WorksOnHold, LedgerInv, StatusMatchesLedger, Matches

\* What the commit of a request leaves of the locks and the committed rows.
LEMMA ControlCommit ==
    ASSUME IInv, NEW t \in Tasks, CommitSync(t) \/ CommitAsync(t)
    PROVE  Control'
<1>1. /\ rowLock = t /\ ledger[t] = Unused
      /\ \A s \in Tasks : s # t => ledger'[s] = ledger[s]
  BY Committing
<1>2. /\ pc' = [pc EXCEPT ![t] = "done"] /\ rowLock' = None
      /\ UNCHANGED <<view, sent, queue, work>>
  BY DEF CommitSync, CommitAsync
<1>3. /\ \/ t \in Inline /\ ledger'[t] = Charged /\ status'[t] = "SUCCESS"
         \/ t \notin Inline /\ ledger'[t] = Held /\ status'[t] = "PENDING" /\ sent[t] > 0
      /\ \A s \in Tasks : s # t => status'[s] = status[s]
  BY Committing DEF CommitSync, CommitAsync, IInv, TypeOK, SendInv
<1>4. quota'.exists
  BY DEF CommitSync, CommitAsync, AfterFreeze, AfterConfirm, Row
<1>5. pc'[t] = "done" /\ \A s \in Tasks : s # t => pc'[s] = pc[s]
  BY <1>2 DEF IInv, TypeOK
<1>6. LockInv'
  <2>1. \A s \in Tasks : s # t => pc[s] \notin InTransaction \ {"checked"}
    BY <1>1 DEF IInv, LockInv
  <2> QED
    BY <1>2, <1>4, <1>5, <2>1, NoneAssumption DEF LockInv, InTransaction
<1>7. CommitInv'
  BY <1>1, <1>4, <1>5 DEF CommitInv, IInv
<1>8. SendInv'
  BY <1>2, <1>5 DEF SendInv, IInv
<1>9. WorkInv'
  <2> SUFFICES ASSUME NEW m \in Messages PROVE WorksOnHold(m)'
    BY DEF WorkInv
  <2>1. WorksOnHold(m) /\ m[1] \in Tasks
    BY DEF IInv, WorkInv, Messages
  <2>2. CASE m[1] # t
    BY <1>1, <1>2, <1>3, <2>1, <2>2 DEF WorksOnHold
  <2>3. CASE m[1] = t
    <3>1. work[m] \notin {"generate", "confirm", "refund", "done"}
      BY <1>1, <2>1, <2>3 DEF WorksOnHold
    <3>2. sent[t] = 1 => ledger'[t] = Held
      BY <1>3 DEF IInv, SendInv
    <3> QED
      BY <1>2, <2>3, <3>1, <3>2 DEF WorksOnHold
  <2> QED
    BY <2>2, <2>3
<1>10. LedgerInv'
  <2> SUFFICES ASSUME NEW s \in Tasks
               PROVE  /\ Len(ledger'[s]) = 1 => ledger'[s] = Held
                      /\ sent'[s] = 0 => ledger'[s] \in {Unused, Charged}
                      /\ ledger'[s] # Unused /\ sent'[s] > 0 =>
                            Len(ledger'[s]) = 1 + Cardinality(Settlers(s)')
    BY DEF LedgerInv
  <2>1. Settlers(s)' = Settlers(s)
    BY <1>2 DEF Settlers
  <2>2. CASE s # t
    BY <1>1, <1>2, <2>1, <2>2 DEF IInv, LedgerInv
  <2>3. CASE s = t
    <3>1. Cardinality(Settlers(t)) = 0
      <4>1. \A n \in 1 .. Copies : work[<<t, n>>] # "done"
        BY <1>1 DEF IInv, WorkInv, WorksOnHold, Messages
      <4>2. Settlers(t) = {}
        BY <4>1 DEF Settlers
      <4> QED
        BY <4>2, FS_EmptySet
    <3>2. CASE t \in Inline
      <4>1. ledger'[t] = Charged /\ sent'[t] = 0
        BY <1>2, <1>3, <3>2 DEF IInv, SendInv
      <4> QED
        BY <2>3, <4>1, RowCounts
    <3>3. CASE t \notin Inline
      <4>1. ledger'[t] = Held /\ sent'[t] > 0 /\ sent'[t] # 0
        BY <1>2, <1>3, <3>3, CopiesAssumption DEF IInv, TypeOK
      <4>2. Len(ledger'[t]) = 1 /\ Len(ledger'[t]) = 1 + Cardinality(Settlers(t)')
        BY <2>1, <2>3, <3>1, <4>1, RowCounts
      <4> QED
        BY <2>3, <4>1, <4>2
    <3> QED
      BY <3>2, <3>3
  <2> QED
    BY <2>2, <2>3
<1>11. StatusMatchesLedger'
  BY <1>1, <1>2, <1>3, RowsDiffer DEF IInv, StatusMatchesLedger, Matches
<1> QED
  BY <1>6, <1>7, <1>8, <1>9, <1>10, <1>11 DEF Control

\* delay() counts the message and puts it in the queue.
LEMMA ControlDispatch ==
    ASSUME IInv, NEW t \in Tasks, Dispatch(t)
    PROVE  Control'
<1>1. /\ pc[t] = "frozen" /\ t \notin Inline
      /\ sent[t] \in Nat /\ sent[t] < Copies /\ ledger[t] = Unused
  BY CopiesAssumption DEF Dispatch, IInv, TypeOK, SendInv, CommitInv
<1>2. /\ UNCHANGED <<quota, rowLock, status, ledger, spent, view, work>>
      /\ pc'[t] = "dispatched" /\ \A s \in Tasks : s # t => pc'[s] = pc[s]
      /\ sent'[t] = sent[t] + 1 /\ \A s \in Tasks : s # t => sent'[s] = sent[s]
      /\ queue' = queue \cup {<<t, sent[t] + 1>>}
  BY DEF Dispatch, IInv, TypeOK
<1>3. LockInv' /\ CommitInv'
  BY <1>1, <1>2, NoneAssumption
     DEF IInv, LockInv, CommitInv, InTransaction, Seen
<1>4. <<t, sent[t] + 1>> \in Messages /\ work[<<t, sent[t] + 1>>] = "idle"
  <2>1. <<t, sent[t] + 1>> \in Messages
    BY <1>1, CopiesAssumption DEF Messages
  <2> QED
    BY <1>1, <2>1 DEF IInv, SendInv
<1>5. SendInv'
  <2>1. \A s \in Tasks : pc'[s] \in {"idle", "checked", "frozen"} => sent'[s] < Copies
    BY <1>2 DEF IInv, SendInv
  <2>2. \A s \in Tasks : pc'[s] = "dispatched" => sent'[s] > 0
    BY <1>1, <1>2 DEF IInv, SendInv
  <2>3. ASSUME NEW m \in Messages, m[2] > sent'[m[1]]
        PROVE  work'[m] = "idle" /\ m \notin queue'
    <3>1. m[1] \in Tasks /\ m[2] \in Nat
      BY DEF Messages
    <3>2. m[2] > sent[m[1]]
      BY <1>1, <1>2, <2>3, <3>1
    <3>3. m # <<t, sent[t] + 1>>
      BY <1>1, <1>2, <2>3
    <3> QED
      BY <1>2, <3>2, <3>3 DEF IInv, SendInv
  <2>4. \A m \in queue' : work'[m] = "idle"
    BY <1>2, <1>4 DEF IInv, SendInv
  <2>5. \A s \in Inline : sent'[s] = 0
    BY <1>1, <1>2, FlagAssumption DEF IInv, SendInv
  <2> QED
    BY <2>1, <2>2, <2>3, <2>4, <2>5 DEF SendInv
<1>6. WorkInv'
  <2> SUFFICES ASSUME NEW m \in Messages PROVE WorksOnHold(m)'
    BY DEF WorkInv
  <2>1. WorksOnHold(m) /\ m[1] \in Tasks
    BY DEF IInv, WorkInv, Messages
  <2>2. CASE m[1] # t
    BY <1>2, <2>1, <2>2 DEF WorksOnHold
  <2>3. CASE m[1] = t /\ sent'[t] = 1 /\ m[2] = 1
    <3>1. work[m] = "idle"
      <4>1. m[2] > sent[m[1]]
        BY <1>1, <1>2, <2>3
      <4> QED
        BY <4>1 DEF IInv, SendInv
    <3> QED
      BY <1>1, <1>2, <2>3, <3>1 DEF WorksOnHold
  <2>4. CASE m[1] = t /\ ~(sent'[t] = 1 /\ m[2] = 1)
    BY <1>2, <2>1, <2>4 DEF WorksOnHold
  <2> QED
    BY <2>2, <2>3, <2>4
<1>7. LedgerInv'
  <2>1. \A s \in Tasks : Settlers(s)' = Settlers(s)
    BY <1>2 DEF Settlers
  <2>2. \A s \in Tasks : s # t =>
          /\ Len(ledger'[s]) = 1 => ledger'[s] = Held
          /\ sent'[s] = 0 => ledger'[s] \in {Unused, Charged}
          /\ ledger'[s] # Unused /\ sent'[s] > 0 =>
                Len(ledger'[s]) = 1 + Cardinality(Settlers(s)')
    BY <1>2, <2>1 DEF IInv, LedgerInv
  <2>3. ledger'[t] = Unused /\ Len(ledger'[t]) = 0
    BY <1>1, <1>2, RowCounts
  <2>4. Len(ledger'[t]) # 1
    BY <2>3
  <2> QED
    BY <2>2, <2>3, <2>4 DEF LedgerInv
<1>8. StatusMatchesLedger'
  <2>1. Matches(t)'
    BY <1>1, <1>2, RowsDiffer DEF IInv, StatusMatchesLedger, Matches
  <2> QED
    BY <1>2, <2>1 DEF IInv, StatusMatchesLedger, Matches
<1> QED
  BY <1>3, <1>5, <1>6, <1>7, <1>8 DEF Control

\* The steps of a request that neither commit nor send.
LEMMA ControlRequest ==
    ASSUME IInv, NEW t \in Tasks,
           Open(t) \/ Freeze(t) \/ GenerateInRequest(t) \/ Abort(t) \/ Redeliver(t)
    PROVE  Control'
<1>0. /\ UNCHANGED <<quota, status, ledger, view, sent, queue, work>>
      /\ Seen' = Seen
      /\ \A s \in Tasks : s # t => pc'[s] = pc[s]
  <2>1. UNCHANGED <<quota, status, ledger, view, sent, queue, work>>
    BY DEF Open, Freeze, GenerateInRequest, Abort, Redeliver
  <2>2. \A s \in Tasks : s # t => pc'[s] = pc[s]
    BY DEF Open, Freeze, GenerateInRequest, Abort, Redeliver, IInv, TypeOK
  <2> QED
    BY <2>1, <2>2 DEF Seen, Granted, Row
<1>1. WorkInv' /\ LedgerInv' /\ StatusMatchesLedger'
  BY <1>0, RowsFrame
<1>2. pc[t] \in {"idle", "checked", "frozen", "rejected"} \cup InTransaction
      /\ pc'[t] \in Requests /\ pc[t] # "done" /\ pc'[t] # "done"
  BY <1>0 DEF Open, Freeze, GenerateInRequest, Abort, Redeliver, IInv, TypeOK,
              Requests, InTransaction
<1>3. SendInv'
  <2>1. /\ pc'[t] \in {"idle", "checked", "frozen"} => sent[t] < Copies
        /\ pc'[t] # "dispatched"
    BY DEF Open, Freeze, GenerateInRequest, Abort, Redeliver, IInv, TypeOK, SendInv
  <2> QED
    BY <1>0, <2>1 DEF IInv, SendInv
<1>4. CommitInv'
  BY <1>0, <1>2 DEF IInv, CommitInv
<1> USE NoneAssumption DEF IInv, TypeOK, LockInv, InTransaction
<1>5. CASE Open(t)
  <2>1. LockInv'
    <3>1. CASE quota.exists
      BY <1>0, <1>5, <3>1 DEF Open
    <3>2. CASE ~quota.exists
      <4>1. rowLock = None /\ rowLock' \in {None, t} /\ \A s \in Tasks : pc[s] # "checked"
        BY <1>5, <3>2 DEF Open
      <4> QED
        BY <1>0, <1>5, <3>2, <4>1 DEF Open
    <3> QED
      BY <3>1, <3>2
  <2> QED
    BY <1>1, <1>3, <1>4, <2>1 DEF Control
<1>6. CASE Freeze(t)
  <2>1. Seen.balance \in Int /\ Cost[t] \in Int
    BY RowTypes, CostAssumption DEF Seen, Accounts
  <2>2. ASSUME NEW s \in Tasks, s # t, pc[s] = "checked" PROVE quota.exists
    BY <1>6, <2>2 DEF Freeze
  <2>3. rowLock \in {None, t} /\ pc[t] = "checked"
    BY <1>6 DEF Freeze
  <2>4. LockInv'
    <3>1. CASE Seen.balance < Cost[t]
      <4>1. rowLock' = None /\ pc'[t] = "rejected"
        BY <1>6, <3>1 DEF Freeze
      <4>2. \A u \in Tasks : pc'[u] \notin InTransaction \ {"checked"}
        <5>1. \A u \in Tasks \ {t} : pc[u] \notin InTransaction \ {"checked"}
          BY <2>3
        <5> QED
          BY <1>0, <4>1, <5>1
      <4>3. \A u \in Tasks : pc'[u] = "checked" => quota.exists /\ rowLock' # u
        BY <1>0, <2>2, <4>1
      <4> QED
        BY <1>0, <4>1, <4>2, <4>3
    <3>2. CASE ~(Seen.balance < Cost[t])
      <4>1. rowLock' = t /\ pc'[t] = "frozen" /\ Seen.balance >= Cost[t]
        BY <1>6, <2>1, <3>2 DEF Freeze
      <4> QED
        BY <1>0, <2>2, <2>3, <4>1
    <3> QED
      BY <3>1, <3>2
  <2> QED
    BY <1>1, <1>3, <1>4, <2>4 DEF Control
<1>7. CASE GenerateInRequest(t)
  <2>1. LockInv'
    BY <1>0, <1>7 DEF GenerateInRequest
  <2> QED
    BY <1>1, <1>3, <1>4, <2>1 DEF Control
<1>8. CASE Abort(t)
  <2>1. LockInv'
    BY <1>0, <1>8 DEF Abort
  <2> QED
    BY <1>1, <1>3, <1>4, <2>1 DEF Control
<1>9. CASE Redeliver(t)
  <2>1. LockInv'
    BY <1>0, <1>9 DEF Redeliver
  <2> QED
    BY <1>1, <1>3, <1>4, <2>1 DEF Control
<1> QED
  BY <1>5, <1>6, <1>7, <1>8, <1>9

\* A step of a worker that leaves the ledger alone concerns its message only:
\* while a task has one message no other worker depends on its rows.
LEMMA WorkerFrame ==
    ASSUME IInv, NEW m \in Messages, NEW x, x \notin {"idle", "done"},
           work[m] # "done", work[m] # "idle" \/ m \in queue,
           work' = [work EXCEPT ![m] = x], queue' = queue \ {m},
           UNCHANGED <<quota, rowLock, ledger, pc, view, sent>>,
           \A s \in Tasks : s # m[1] => status'[s] = status[s]
    PROVE  /\ LockInv' /\ CommitInv' /\ SendInv' /\ LedgerInv'
           /\ \A k \in Messages : k # m => WorksOnHold(k)'
           /\ \A s \in Tasks : s # m[1] => Matches(s)'
           /\ work'[m] = x
<1>0. work'[m] = x /\ \A k \in Messages : k # m => work'[k] = work[k]
  BY DEF IInv, TypeOK
<1>1. LockInv' /\ CommitInv'
  BY DEF IInv, LockInv, CommitInv, Seen
<1>2. ~(m[2] > sent[m[1]])
  BY DEF IInv, SendInv
<1>3. SendInv'
  BY <1>0, <1>2 DEF IInv, TypeOK, SendInv
<1>4. \A s \in Tasks : Settlers(s)' = Settlers(s)
  BY <1>0 DEF Settlers, Messages
<1>5. LedgerInv'
  BY <1>4 DEF IInv, LedgerInv
<1>6. ASSUME NEW k \in Messages, k # m PROVE WorksOnHold(k)'
  <2>1. work'[k] = work[k] /\ WorksOnHold(k) /\ k[1] \in Tasks
    BY <1>0, <1>6 DEF IInv, WorkInv, Messages
  <2>2. CASE k[1] # m[1]
    BY <2>1, <2>2 DEF WorksOnHold
  <2>3. CASE k[1] = m[1]
    <3>1. ~(sent[k[1]] = 1 /\ k[2] = 1)
      <4> SUFFICES ASSUME sent[k[1]] = 1, k[2] = 1 PROVE FALSE
        OBVIOUS
      <4>1. m[2] \in Nat /\ m[2] >= 1 /\ ~(m[2] > 1)
        BY <1>2, <2>3 DEF Messages
      <4>2. m[2] = 1
        BY <4>1
      <4>3. m = <<m[1], m[2]>> /\ k = <<k[1], k[2]>>
        BY DEF Messages
      <4> QED
        BY <1>6, <2>3, <4>2, <4>3
    <3> QED
      BY <2>1, <3>1 DEF WorksOnHold
  <2> QED
    BY <2>2, <2>3
<1>7. \A s \in Tasks : s # m[1] => Matches(s)'
  BY DEF IInv, StatusMatchesLedger, Matches
<1> QED
  BY <1>0, <1>1, <1>3, <1>5, <1>6, <1>7

\* What the frame leaves to show of a step of the worker of m.
LEMMA ControlFrom ==
    ASSUME NEW m \in Messages,
           LockInv' /\ CommitInv' /\ SendInv' /\ LedgerInv',
           \A k \in Messages : k # m => WorksOnHold(k)',
           \A s \in Tasks : s # m[1] => Matches(s)',
           WorksOnHold(m)', Matches(m[1])'
    PROVE  Control'
<1>1. WorkInv'
  BY DEF WorkInv
<1>2. StatusMatchesLedger'
  BY DEF StatusMatchesLedger
<1> QED
  BY <1>1, <1>2 DEF Control

\* The steps of a worker that settle nothing.
LEMMA ControlWork ==
    ASSUME IInv, NEW m \in Messages,
           Receive(m) \/ Load(m) \/ Generate(m) \/ MarkFailed(m) \/ WorkerFault(m)
    PROVE  Control'
<1>1. /\ WorksOnHold(m) /\ Matches(m[1]) /\ m[1] \in Tasks
      /\ UNCHANGED <<quota, rowLock, ledger, pc, view, sent>>
  BY DEF IInv, WorkInv, StatusMatchesLedger, Messages, Receive, Load, Generate,
         MarkFailed, WorkerFault, GenerateFails, ConfirmFails, RefundFails, WorkerCrash
<1>2. \A s \in Tasks : s # m[1] => status'[s] = status[s]
  BY DEF IInv, TypeOK, Receive, Load, Generate, MarkFailed, WorkerFault,
         GenerateFails, ConfirmFails, RefundFails, WorkerCrash
<1>3. \E x \in Workers \ {"idle", "done"} :
         /\ work' = [work EXCEPT ![m] = x]
         /\ work[m] # "done" /\ (work[m] # "idle" \/ m \in queue)
         /\ queue' = queue \ {m}
  <2>1. m \in queue \/ work[m] # "idle"
    BY DEF Receive, Load, Generate, MarkFailed, WorkerFault, GenerateFails,
           ConfirmFails, RefundFails, WorkerCrash, Move
  <2>2. CASE Receive(m)
    BY <2>1, <2>2 DEF Receive, Move, Workers
  <2>3. CASE ~Receive(m)
    <3>1. m \notin queue /\ queue' = queue
      BY <2>3 DEF IInv, SendInv, Load, Generate, MarkFailed, WorkerFault,
                  GenerateFails, ConfirmFails, RefundFails, WorkerCrash, Move
    <3>2. queue' = queue \ {m}
      BY <3>1
    <3>3. \E x \in Workers \ {"idle", "done"} :
             work' = [work EXCEPT ![m] = x] /\ work[m] # "done"
      BY <2>3 DEF Workers, Load, Generate, MarkFailed, WorkerFault,
                  GenerateFails, ConfirmFails, RefundFails, WorkerCrash, Move
    <3> QED
      BY <2>1, <3>2, <3>3
  <2> QED
    BY <2>2, <2>3
<1>4. PICK x \in Workers \ {"idle", "done"} :
         /\ work' = [work EXCEPT ![m] = x]
         /\ work[m] # "done" /\ (work[m] # "idle" \/ m \in queue)
         /\ queue' = queue \ {m}
  BY <1>3
<1>5. /\ LockInv' /\ CommitInv' /\ SendInv' /\ LedgerInv'
      /\ \A k \in Messages : k # m => WorksOnHold(k)'
      /\ \A s \in Tasks : s # m[1] => Matches(s)'
      /\ work'[m] = x
  BY <1>1, <1>2, <1>4, WorkerFrame
<1>6. WorksOnHold(m)' /\ Matches(m[1])'
  <2> USE RowsDiffer DEF WorksOnHold, Matches
  <2>1. status \in [Tasks -> {"absent", "PENDING", "RUNNING", "SUCCESS", "FAILED"}]
        /\ work \in [Messages -> Workers]
        /\ (m[2] = 1 => ~(m[2] > sent[m[1]]))
    BY DEF IInv, TypeOK, SendInv, Receive, Load, Generate, MarkFailed, WorkerFault,
           GenerateFails, ConfirmFails, RefundFails, WorkerCrash, Move
  <2>2. sent[m[1]] <= 1 /\ sent[m[1]] > 0 => sent[m[1]] = 1 /\ m[2] = 1
    <3>1. ~(m[2] > sent[m[1]])
      BY <1>4 DEF IInv, SendInv
    <3>2. m[2] \in Nat /\ m[2] >= 1 /\ sent[m[1]] \in Nat
      BY <1>1, CopiesAssumption DEF Messages, IInv, TypeOK
    <3> QED
      BY <3>1, <3>2
  <2>3. sent[m[1]] > 0
    <3>1. ~(m[2] > sent[m[1]])
      BY <1>4 DEF IInv, SendInv
    <3>2. m[2] \in Nat /\ m[2] >= 1 /\ sent[m[1]] \in Nat
      BY <1>1, CopiesAssumption DEF Messages, IInv, TypeOK
    <3> QED
      BY <3>1, <3>2
  <2>4. sent[m[1]] <= 1 => sent[m[1]] = 1 /\ m[2] = 1
    BY <2>2, <2>3
  <2>5. CASE Receive(m)
    BY <1>1, <1>5, <2>1, <2>4, <2>5 DEF Receive, Move
  <2>6. CASE Load(m)
    BY <1>1, <1>5, <2>1, <2>4, <2>6 DEF Load, Move
  <2>7. CASE Generate(m)
    BY <1>1, <1>5, <2>1, <2>4, <2>7 DEF Generate, Move
  <2>8. CASE MarkFailed(m)
    BY <1>1, <1>5, <2>1, <2>4, <2>8 DEF MarkFailed, Move
  <2>9. CASE WorkerFault(m)
    BY <1>1, <1>5, <2>1, <2>4, <2>9
       DEF WorkerFault, GenerateFails, ConfirmFails, RefundFails, WorkerCrash, Move
  <2> QED
    BY <2>5, <2>6, <2>7, <2>8, <2>9
<1> QED
  BY <1>5, <1>6, ControlFrom

\* What settling leaves: the lock was free and stays free, the message is done.
LEMMA ControlSettle ==
    ASSUME IInv, NEW m \in Messages, Settles(m)
    PROVE  Control'
<1> DEFINE t == m[1]
<1>1. /\ t \in Tasks /\ ledger[t] # Unused
      /\ \A s \in Tasks : s # t => ledger'[s] = ledger[s]
      /\ ledger'[t] # Held /\ ledger'[t] # Unused
  BY SettleLedger, Zenon
<1>2. /\ rowLock = None /\ UNCHANGED <<rowLock, status, pc, view, sent, queue>>
      /\ work[m] \in {"confirm", "refund"}
      /\ work'[m] = "done" /\ \A k \in Messages : k # m => work'[k] = work[k]
  BY DEF IInv, TypeOK, Settles, Confirm, Refund, Move
<1>3. quota'.exists /\ quota.exists
  <2>1. quota'.exists
    BY DEF Settles, Confirm, Refund, AfterConfirm, AfterRefund, Row
  <2>2. quota.exists
    BY <1>1 DEF IInv, CommitInv
  <2> QED
    BY <2>1, <2>2
<1>4. LockInv'
  BY <1>2, <1>3, NoneAssumption DEF IInv, LockInv
<1>5. CommitInv'
  BY <1>1, <1>2, <1>3 DEF IInv, CommitInv
<1>6. SendInv'
  <2>1. m \notin queue /\ ~(m[2] > sent[m[1]])
    BY <1>2 DEF IInv, SendInv
  <2> QED
    BY <1>2, <2>1 DEF IInv, TypeOK, SendInv
<1>7. sent[t] = 1 => m[2] = 1 /\ ledger[t] = Held
  <2>1. m[2] <= sent[t] /\ m[2] \in Nat /\ m[2] >= 1
    BY SettlerAdded DEF Messages
  <2>2. sent[t] = 1 => m[2] = 1
    BY <2>1
  <2> QED
    BY <1>2, <2>2 DEF IInv, WorkInv, WorksOnHold
<1>8. ASSUME NEW k \in Messages PROVE WorksOnHold(k)'
  <2>1. WorksOnHold(k) /\ k[1] \in Tasks
    BY DEF IInv, WorkInv, Messages
  <2>2. CASE k[1] # t
    <3>1. k # m
      BY <2>2
    <3> QED
      BY <1>1, <1>2, <2>1, <2>2, <3>1 DEF WorksOnHold
  <2>3. CASE k = m
    BY <1>1, <1>2, <2>3 DEF WorksOnHold
  <2>4. CASE k[1] = t /\ k # m
    <3>1. ~(sent[t] = 1 /\ k[2] = 1)
      <4>1. m = <<m[1], m[2]>> /\ k = <<k[1], k[2]>>
        BY DEF Messages
      <4> QED
        BY <1>7, <2>4, <4>1
    <3> QED
      BY <1>1, <1>2, <2>1, <2>4, <3>1 DEF WorksOnHold
  <2> QED
    BY <2>2, <2>3, <2>4
<1>9. LedgerInv'
  <2>1. /\ sent[t] \in Nat /\ sent[t] > 0
        /\ Cardinality(Settlers(t)') = Cardinality(Settlers(t)) + 1
        /\ Cardinality(Settlers(t)) \in Nat
        /\ Len(ledger'[t]) = Len(ledger[t]) + 1 /\ Len(ledger[t]) \in Nat \ {0}
        /\ \A s \in Tasks : s # t => Settlers(s)' = Settlers(s)
    BY SettlerAdded, SettleLedger, Zenon
  <2>2. Len(ledger[t]) = 1 + Cardinality(Settlers(t))
    BY <1>1, <2>1 DEF IInv, LedgerInv
  <2>3. /\ Len(ledger'[t]) = 1 + Cardinality(Settlers(t)')
        /\ Len(ledger'[t]) # 1 /\ sent[t] # 0
    BY <2>1, <2>2
  <2>4. \A s \in Tasks : s # t =>
          /\ Len(ledger'[s]) = 1 => ledger'[s] = Held
          /\ sent'[s] = 0 => ledger'[s] \in {Unused, Charged}
          /\ ledger'[s] # Unused /\ sent'[s] > 0 =>
                Len(ledger'[s]) = 1 + Cardinality(Settlers(s)')
    BY <1>1, <1>2, <2>1 DEF IInv, LedgerInv
  <2>5. sent'[t] # 0
    BY <1>2, <2>3
  <2> QED
    BY <2>3, <2>4, <2>5 DEF LedgerInv
<1>10. StatusMatchesLedger'
  <2>1. Matches(t)'
    <3>1. sent[t] # 0
      BY SettlerAdded
    <3>2. sent[t] <= 1 => sent[t] = 1
      BY SettlerAdded
    <3>3. sent[t] = 1 => /\ ledger'[t] = Charged => status[t] = "SUCCESS"
                         /\ ledger'[t] = Returned => status[t] = "FAILED"
      <4> SUFFICES ASSUME sent[t] = 1
                   PROVE  /\ ledger'[t] = Charged => status[t] = "SUCCESS"
                          /\ ledger'[t] = Returned => status[t] = "FAILED"
        OBVIOUS
      <4>1. ledger'[t] = (IF work[m] = "confirm" THEN Charged ELSE Returned)
        BY <1>7, SettleLedger
      <4>2. /\ work[m] = "confirm" => status[t] = "SUCCESS"
            /\ work[m] = "refund" => status[t] = "FAILED"
        BY <1>7 DEF IInv, WorkInv, WorksOnHold
      <4> QED
        BY <1>2, <4>1, <4>2, RowsDiffer
    <3>4. status[t] # "absent"
      BY <1>1 DEF IInv, StatusMatchesLedger, Matches
    <3> QED
      BY <1>1, <1>2, <3>2, <3>3, <3>4 DEF Matches
  <2>2. \A s \in Tasks : s # t => Matches(s)'
    BY <1>1, <1>2 DEF IInv, StatusMatchesLedger, Matches
  <2> QED
    BY <2>1, <2>2 DEF StatusMatchesLedger
<1> QED
  BY <1>4, <1>5, <1>6, <1>8, <1>9, <1>10 DEF Control, WorkInv

LEMMA ControlViewer ==
    ASSUME IInv, NEW v \in Viewers, Viewer(v) \/ ViewerCrash(v)
    PROVE  Control'
<1>0. UNCHANGED <<rowLock, status, ledger, pc, sent, queue, work>>
  BY DEF Viewer, ViewerCrash, OpenAccount, GrantGift
<1>1. WorkInv' /\ LedgerInv' /\ StatusMatchesLedger'
  BY <1>0, RowsFrame
<1>2. SendInv'
  BY <1>0 DEF IInv, SendInv
<1>3. LockInv' /\ CommitInv'
  <2> USE NoneAssumption, GiftAssumption
      DEF IInv, TypeOK, LockInv, CommitInv, InTransaction
  <2>1. CASE OpenAccount(v)
    <3>1. CASE quota.exists
      BY <2>1, <3>1 DEF OpenAccount, Seen
    <3>2. CASE ~quota.exists
      <4>1. quota'.exists /\ rowLock = None /\ rowLock' = None
        BY <2>1, <3>2 DEF OpenAccount, Row
      <4>2. \A t \in Tasks : pc[t] # "checked"
        BY <3>2, <4>1
      <4> QED
        BY <2>1, <3>2, <4>1, <4>2 DEF OpenAccount
    <3> QED
      BY <3>1, <3>2
  <2>2. CASE GrantGift(v)
    <3>1. quota.exists /\ quota'.exists /\ rowLock = None
      BY <2>2 DEF GrantGift, Granted, Row
    <3> QED
      BY <2>2, <3>1 DEF GrantGift
  <2>3. CASE ViewerCrash(v)
    BY <2>3 DEF ViewerCrash, Seen
  <2> QED
    BY <2>1, <2>2, <2>3 DEF Viewer
<1> QED
  BY <1>1, <1>2, <1>3 DEF Control

\* The invariant is inductive.
LEMMA Preservation == IInv /\ [Next]_vars => IInv'
<1> SUFFICES ASSUME IInv, [Next]_vars PROVE IInv'
  OBVIOUS
<1>1. TypeOK'
  BY TypeStep DEF IInv
<1>2. ASSUME NEW t \in Tasks, Request(t) \/ Abort(t) \/ Redeliver(t)
      PROVE  Books' /\ Control'
  <2>1. CASE CommitSync(t) \/ CommitAsync(t)
    BY <2>1, BooksCommitSync, BooksCommitAsync, ControlCommit
  <2>2. CASE Dispatch(t)
    <3>1. UNCHANGED <<quota, ledger, spent>>
      BY <2>2 DEF Dispatch
    <3>2. SettledOnce'
      BY <2>2, <3>1, SettledKept
    <3> QED
      BY <2>2, <3>1, <3>2, BooksFrame, ControlDispatch DEF IInv
  <2>3. CASE Open(t) \/ Freeze(t) \/ GenerateInRequest(t) \/ Abort(t) \/ Redeliver(t)
    <3>1. UNCHANGED <<quota, ledger, spent, sent>>
      BY <2>3 DEF Open, Freeze, GenerateInRequest, Abort, Redeliver
    <3>2. SettledOnce'
      BY <3>1, SettledKept
    <3> QED
      BY <2>3, <3>1, <3>2, BooksFrame, ControlRequest DEF IInv
  <2> QED
    BY <1>2, <2>1, <2>2, <2>3 DEF Request
<1>3. ASSUME NEW m \in Messages, Worker(m) \/ WorkerFault(m)
      PROVE  Books' /\ Control'
  <2>1. CASE Settles(m)
    BY <2>1, BooksSettle, ControlSettle
  <2>2. CASE Receive(m) \/ Load(m) \/ Generate(m) \/ MarkFailed(m) \/ WorkerFault(m)
    <3>1. UNCHANGED <<quota, ledger, spent, sent>>
      BY <2>2 DEF Receive, Load, Generate, MarkFailed, WorkerFault, GenerateFails,
                  ConfirmFails, RefundFails, WorkerCrash
    <3>2. SettledOnce'
      BY <3>1, SettledKept
    <3> QED
      BY <2>2, <3>1, <3>2, BooksFrame, ControlWork DEF IInv
  <2> QED
    BY <1>3, <2>1, <2>2 DEF Worker, Settles
<1>4. ASSUME NEW v \in Viewers, Viewer(v) \/ ViewerCrash(v)
      PROVE  Books' /\ Control'
  <2>1. CASE Viewer(v)
    BY <2>1, BooksViewer, ControlViewer
  <2>2. CASE ViewerCrash(v)
    <3>1. UNCHANGED <<quota, ledger, spent, sent>>
      BY <2>2 DEF ViewerCrash
    <3>2. SettledOnce'
      BY <3>1, SettledKept
    <3> QED
      BY <2>2, <3>1, <3>2, BooksFrame, ControlViewer DEF IInv
  <2> QED
    BY <1>4, <2>1, <2>2
<1>5. ASSUME UNCHANGED vars PROVE Books' /\ Control'
  <2>1. UNCHANGED <<quota, rowLock, status, ledger, spent, pc, view, sent, queue, work>>
    BY <1>5 DEF vars
  <2>2. SettledOnce'
    BY <2>1, SettledKept
  <2>3. Books'
    BY <2>1, <2>2, BooksFrame DEF IInv
  <2>4. WorkInv' /\ LedgerInv' /\ StatusMatchesLedger'
    BY <2>1, RowsFrame
  <2>5. LockInv' /\ CommitInv' /\ SendInv'
    BY <2>1 DEF IInv, LockInv, CommitInv, SendInv, Seen
  <2> QED
    BY <2>3, <2>4, <2>5 DEF Control
<1>6. Books' /\ Control'
  BY <1>2, <1>3, <1>4, <1>5 DEF Next
<1> QED
  BY <1>1, <1>6 DEF IInv, Control

\* The invariant holds throughout every behaviour of the service.
THEOREM Invariance == Spec => []IInv
BY Initialization, Preservation, PTL DEF Spec

\* The committed row, the rows of the ledger and the places of the requests
\* and workers keep their types, whatever fails or races.
THEOREM TypesHold == Spec => []TypeOK
<1>1. IInv => TypeOK
  BY DEF IInv
<1> QED
  BY <1>1, Invariance, PTL

\* No interleaving of the grants, freezes, confirms and refunds loses credit,
\* and none creates any but by settling a task again: by its cost, each time.
THEOREM CreditConserved == Spec => []Conservation
<1>1. IInv => Conservation
  BY DEF IInv, Books
<1> QED
  BY <1>1, Invariance, PTL

\* The frozen column never exceeds the cost of the open holds, and falls short
\* of it by no more than the repeated settlements cost.
THEOREM FrozenIsBacked == Spec => []FrozenBacked
<1>1. IInv => FrozenBacked
  BY DEF IInv, Books
<1> QED
  BY <1>1, Invariance, PTL

\* The check made before the lock cannot let two requests spend one credit.
THEOREM NeverOverdrawn == Spec => []NoOverdraft
<1>1. IInv => NoOverdraft
  BY DEF IInv, Books
<1> QED
  BY <1>1, Invariance, PTL

\* A task is settled once, or has several messages and is settled at most once
\* by each of them.
THEOREM EachSettledOnce == Spec => []SettledOnce
<1>1. IInv => SettledOnce
  BY DEF IInv, Books
<1> QED
  BY <1>1, Invariance, PTL

\* A task with one message shows SUCCESS once it was charged and FAILED once
\* the credit went back; every task exists exactly when its hold does.
THEOREM StatusAgrees == Spec => []StatusMatchesLedger
<1>1. IInv => StatusMatchesLedger
  BY DEF IInv
<1> QED
  BY <1>1, Invariance, PTL
-----------------------------------------------------------------------------
(* The account: a commit, a first confirm or refund and a gift are each    *)
(* one step of it, and every other step leaves it as it is.                *)

\* An empty service is an empty account.
LEMMA AccountInit == Init => Account!Init
<1> SUFFICES ASSUME Init PROVE Account!Init
  OBVIOUS
<1>1. OpenHolds = {} /\ Settled = {}
  BY RowsDiffer DEF Init, OpenHolds, Settled
<1> QED
  BY <1>1 DEF Init, NoAccount, Account!Init

\* A step that writes neither the row nor the ledger is invisible.
LEMMA AccountStutters ==
    ASSUME UNCHANGED <<quota, ledger, spent>>
    PROVE  UNCHANGED Account!vars
BY DEF Account!vars, OpenHolds, Settled

\* The commit of an asynchronous request opens a hold.
LEMMA CommitAsyncHolds ==
    ASSUME IInv, NEW t \in Tasks, CommitAsync(t)
    PROVE  Account!Next
<1>1. /\ Seen.balance >= Cost[t] /\ ledger'[t] = Held
      /\ \A s \in Tasks : s # t => ledger'[s] = ledger[s]
      /\ t \notin OpenHolds /\ t \notin Settled
  BY Committing
<1>2. /\ t \notin OpenHolds \cup Settled
      /\ OpenHolds' = OpenHolds \cup {t} /\ Settled' = Settled
  BY <1>1, RowsDiffer DEF OpenHolds, Settled
<1>3. PICK a \in {Gift} \cup {0} :
         /\ a \in Nat
         /\ Seen.balance = quota.balance + a
         /\ Seen.total = quota.total + a
         /\ Seen.frozen = quota.frozen
         /\ quota.balance \in Int /\ quota.total \in Int /\ quota.frozen \in Int
  BY SeenRow
<1>4. /\ quota'.balance = quota.balance + a - Cost[t]
      /\ quota'.frozen = quota.frozen + Cost[t]
      /\ quota'.total = quota.total + a
      /\ spent' = spent
  <2>1. /\ quota'.balance = Seen.balance - Cost[t]
        /\ quota'.frozen = Seen.frozen + Cost[t]
        /\ quota'.total = Seen.total
        /\ spent' = spent
    BY DEF CommitAsync, AfterFreeze, Row
  <2>2. Cost[t] \in Int
    BY CostAssumption
  <2> QED
    BY <1>3, <2>1, <2>2
<1>5. Cost[t] <= quota.balance + a
  BY <1>1, <1>3, CostAssumption
<1>6. Account!Hold(t, a)
  BY <1>2, <1>4, <1>5 DEF Account!Hold, Account!Affordable
<1> QED
  BY <1>6 DEF Account!Next

\* The commit of a request that generated in line opens and captures one.
LEMMA CommitSyncPurchases ==
    ASSUME IInv, NEW t \in Tasks, CommitSync(t)
    PROVE  Account!Next
<1>1. /\ Seen.balance >= Cost[t] /\ ledger'[t] = Charged
      /\ \A s \in Tasks : s # t => ledger'[s] = ledger[s]
      /\ t \notin OpenHolds /\ t \notin Settled
  BY Committing
<1>2. /\ t \notin OpenHolds \cup Settled
      /\ OpenHolds' = OpenHolds /\ Settled' = Settled \cup {t}
  BY <1>1, RowsDiffer DEF OpenHolds, Settled
<1>3. PICK a \in {Gift} \cup {0} :
         /\ a \in Nat
         /\ Seen.balance = quota.balance + a
         /\ Seen.total = quota.total + a
         /\ Seen.frozen = quota.frozen
         /\ quota.balance \in Int /\ quota.total \in Int /\ quota.frozen \in Int
  BY SeenRow
<1>4. /\ quota'.balance = quota.balance + a - Cost[t]
      /\ quota'.frozen = quota.frozen
      /\ quota'.total = quota.total + a
      /\ spent' = spent + Cost[t]
  <2>1. quota' = Row(Seen.balance - Cost[t],
                     Clamped((quota.frozen + Cost[t]) - Cost[t]), Seen.total)
    BY <1>3 DEF CommitSync, AfterFreeze, AfterConfirm, Row
  <2>2. Clamped((quota.frozen + Cost[t]) - Cost[t]) = quota.frozen
    BY <1>3, CostAssumption, BooksBalanced DEF Clamped, BooksBalance
  <2>3. /\ quota'.balance = Seen.balance - Cost[t]
        /\ quota'.frozen = quota.frozen
        /\ quota'.total = Seen.total
    BY <2>1, <2>2 DEF Row
  <2>4. Cost[t] \in Int /\ spent' = spent + Cost[t]
    BY CostAssumption DEF CommitSync
  <2> QED
    BY <1>3, <2>3, <2>4
<1>5. Cost[t] <= quota.balance + a
  BY <1>1, <1>3, CostAssumption
<1>6. Account!Purchase(t, a)
  BY <1>2, <1>4, <1>5 DEF Account!Purchase, Account!Affordable
<1> QED
  BY <1>6 DEF Account!Next

\* As long as no task was settled again, the frozen credit covers the open
\* holds, and confirm captures one of them and refund releases one.
LEMMA SettleCloses ==
    ASSUME IInv, NEW m \in Messages, Settles(m), Repeats' = {}
    PROVE  Account!Next
<1> DEFINE t == m[1]
<1>1. /\ t \in Tasks /\ Cost[t] \in Nat
      /\ ledger[t] = Held /\ Repeats' = Repeats
      /\ OpenHolds' = OpenHolds \ {t}
      /\ HeldCredit' = HeldCredit - Cost[t] /\ HeldCredit' \in Nat
  BY SettleWeights, SettleLedger
<1>2. Repeated = 0
  <2>1. Repeats = {}
    BY <1>1
  <2> QED
    BY <2>1, WeightOfNone DEF Repeated
<1>3. quota.frozen >= Cost[t] /\ quota.frozen \in Int
  BY <1>1, <1>2, BooksBalanced DEF BooksBalance
<1>4. quota'.frozen = quota.frozen - Cost[t]
  BY <1>1, <1>3, SettleRow DEF Clamped
<1>5. /\ t \in OpenHolds /\ OpenHolds' = OpenHolds \ {t}
      /\ Settled' = Settled \cup {t}
  <2>1. ledger'[t] \in {Charged, Returned}
    BY <1>1, SettleLedger
  <2>2. \A s \in Tasks : s # t => ledger'[s] = ledger[s]
    BY SettleLedger, Zenon
  <2> QED
    BY <1>1, <2>1, <2>2 DEF OpenHolds, Settled
<1>6. CASE Confirm(m)
  <2>1. /\ quota'.balance = quota.balance /\ spent' = spent + Cost[t]
        /\ quota'.total = quota.total
    BY <1>6 DEF Confirm, AfterConfirm, Row
  <2>2. Account!Capture(t)
    BY <1>4, <1>5, <2>1 DEF Account!Capture
  <2> QED
    BY <1>1, <2>2 DEF Account!Next
<1>7. CASE Refund(m)
  <2>1. /\ quota'.balance = quota.balance + Cost[t] /\ spent' = spent
        /\ quota'.total = quota.total
    BY <1>7 DEF Refund, AfterRefund, Row
  <2>2. Account!Release(t)
    BY <1>4, <1>5, <2>1 DEF Account!Release
  <2> QED
    BY <1>1, <2>2 DEF Account!Next
<1> QED
  BY <1>6, <1>7 DEF Settles

\* Creating the row is invisible, the gift is a grant.
LEMMA ViewerGrants ==
    ASSUME IInv, NEW v \in Viewers, Viewer(v)
    PROVE  Account!Next \/ UNCHANGED Account!vars
<1>1. CASE OpenAccount(v)
  <2>1. /\ quota'.balance = quota.balance /\ quota'.frozen = quota.frozen
        /\ quota'.total = quota.total
    BY <1>1 DEF OpenAccount, Row, IInv, CommitInv, NoAccount
  <2> QED
    BY <1>1, <2>1 DEF OpenAccount, Account!vars, OpenHolds, Settled
<1>2. CASE GrantGift(v)
  <2>1. /\ quota'.balance = quota.balance + Gift
        /\ quota'.frozen = quota.frozen
        /\ quota'.total = quota.total + Gift
    BY <1>2 DEF GrantGift, Granted, Row
  <2>2. spent' = spent /\ OpenHolds' = OpenHolds /\ Settled' = Settled
    BY <1>2 DEF GrantGift, OpenHolds, Settled
  <2>3. Account!Grant(Gift)
    BY <2>1, <2>2 DEF Account!Grant
  <2> QED
    BY <2>3 DEF Account!Next
<1> QED
  BY <1>1, <1>2 DEF Viewer

LEMMA AccountStep ==
    IInv /\ [Next]_vars => [Repeats' = {} => Account!Next]_(Account!vars)
<1> SUFFICES ASSUME IInv, [Next]_vars, Repeats' = {}
             PROVE  Account!Next \/ UNCHANGED Account!vars
  OBVIOUS
<1>1. ASSUME NEW t \in Tasks, Request(t) \/ Abort(t) \/ Redeliver(t)
      PROVE  Account!Next \/ UNCHANGED Account!vars
  <2>1. CASE CommitSync(t) \/ CommitAsync(t)
    BY <2>1, CommitSyncPurchases, CommitAsyncHolds
  <2>2. CASE ~(CommitSync(t) \/ CommitAsync(t))
    <3>1. UNCHANGED <<quota, ledger, spent>>
      BY <1>1, <2>2 DEF Request, Open, Freeze, GenerateInRequest, Dispatch,
                        Abort, Redeliver
    <3> QED
      BY <3>1, AccountStutters
  <2> QED
    BY <2>1, <2>2
<1>2. ASSUME NEW m \in Messages, Worker(m) \/ WorkerFault(m)
      PROVE  Account!Next \/ UNCHANGED Account!vars
  <2>1. CASE Settles(m)
    BY <2>1, SettleCloses
  <2>2. CASE ~Settles(m)
    <3>1. UNCHANGED <<quota, ledger, spent>>
      BY <1>2, <2>2 DEF Worker, Receive, Load, Generate, MarkFailed, Settles,
            WorkerFault, GenerateFails, ConfirmFails, RefundFails, WorkerCrash
    <3> QED
      BY <3>1, AccountStutters
  <2> QED
    BY <2>1, <2>2
<1>3. ASSUME NEW v \in Viewers, Viewer(v)
      PROVE  Account!Next \/ UNCHANGED Account!vars
  BY <1>3, ViewerGrants
<1>4. ASSUME (\E v \in Viewers : ViewerCrash(v)) \/ UNCHANGED vars
      PROVE  UNCHANGED Account!vars
  <2>1. UNCHANGED <<quota, ledger, spent>>
    BY <1>4 DEF ViewerCrash, vars
  <2> QED
    BY <2>1, AccountStutters
<1> QED
  BY <1>1, <1>2, <1>3, <1>4 DEF Next

\* Every behaviour of the service, with its races, rollbacks, deliveries and
\* lost workers, is one of the freeze-then-confirm account up to the step, if
\* there is one, by which a second message settles a task again.
THEOREM ServiceImplementsAccount == Spec => ImplementsAccount
<1>1. Spec => []IInv
  BY Invariance
<1> QED
  BY <1>1, AccountInit, AccountStep, PTL DEF Spec, ImplementsAccount
=============================================================================
