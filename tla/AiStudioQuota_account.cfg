CONSTANTS
    t1 = t1
    t2 = t2
    t3 = t3
    r1 = r1
    Tasks = {t1, t2, t3}
    Cost <- MCCost
    Recharges = {r1}
    Amount <- MCAmount
    Gift = 4
    PerUserQuota = 4
    MaxAttempts = 2
    Inline = {t1}
    Faults = TRUE
    None = None
SPECIFICATION FairSpec
INVARIANTS OutcomeMatchesLedger LedgerReconciles
PROPERTIES ImplementsAccount RequestsEnd
CHECK_DEADLOCK FALSE
