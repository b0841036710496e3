---------------------------- MODULE QuotaAccount ----------------------------
(***************************************************************************)
(* What the freeze-then-confirm account of the AI studio promises, seen    *)
(* from one user: credit is granted, held for a task, and every hold is    *)
(* closed once, either captured (the task succeeded) or released (it       *)
(* failed).  Both the monolith (AiStudioQuota) and the stand-alone service *)
(* (StudioService) are compared with this module.                          *)
(***************************************************************************)
EXTENDS Integers

CONSTANTS
    Tasks,      \* the generation tasks a user may ask for
    Cost,       \* Cost[t] is what compute_cost charges for t
    Amounts,    \* the amounts a grant may have
    Opening     \* what the account is opened with

VARIABLES
    balance,    \* credit the user may still spend
    frozen,     \* credit held for tasks that have not finished
    spent,      \* credit captured by successful tasks
    total,      \* everything ever granted
    held,       \* the tasks whose hold is open
    closed      \* the tasks whose hold has been closed

vars == <<balance, frozen, spent, total, held, closed>>

-----------------------------------------------------------------------------
Init ==
    /\ balance = Opening /\ total = Opening
    /\ frozen = 0 /\ spent = 0
    /\ held = {}
    /\ closed = {}

Grant(a) ==
    /\ balance' = balance + a
    /\ total' = total + a
    /\ UNCHANGED <<frozen, spent, held, closed>>

\* A task is priced against the balance its transaction sees; a grant of a may
\* be part of that transaction (the first request opens the account).
Affordable(t, a) == t \notin held \cup closed /\ Cost[t] <= balance + a

Hold(t, a) ==
    /\ Affordable(t, a)
    /\ balance' = balance + a - Cost[t]
    /\ total' = total + a
    /\ frozen' = frozen + Cost[t]
    /\ held' = held \cup {t}
    /\ UNCHANGED <<spent, closed>>

Capture(t) ==
    /\ t \in held
    /\ frozen' = frozen - Cost[t]
    /\ spent' = spent + Cost[t]
    /\ held' = held \ {t}
    /\ closed' = closed \cup {t}
    /\ UNCHANGED <<balance, total>>

Release(t) ==
    /\ t \in held
    /\ frozen' = frozen - Cost[t]
    /\ balance' = balance + Cost[t]
    /\ held' = held \ {t}
    /\ closed' = closed \cup {t}
    /\ UNCHANGED <<spent, total>>

\* A hold opened and captured in one transaction.
Purchase(t, a) ==
    /\ Affordable(t, a)
    /\ balance' = balance + a - Cost[t]
    /\ total' = total + a
    /\ spent' = spent + Cost[t]
    /\ closed' = closed \cup {t}
    /\ UNCHANGED <<frozen, held>>

\* A hold opened and released in one transaction.
Void(t, a) ==
    /\ Affordable(t, a)
    /\ balance' = balance + a
    /\ total' = total + a
    /\ closed' = closed \cup {t}
    /\ UNCHANGED <<frozen, spent, held>>

Next ==
    \/ \E a \in Amounts : Grant(a)
    \/ \E t \in Tasks : Capture(t) \/ Release(t)
    \/ \E t \in Tasks, a \in Amounts \cup {0} :
          Hold(t, a) \/ Purchase(t, a) \/ Void(t, a)

Spec == Init /\ [][Next]_vars

=============================================================================
