CONSTANTS
    Callers = {c1, c2, c3}
    FailureThreshold = 2
    SuccessThreshold = 2
    Recovery = 1
    Nobody = Nobody
SPECIFICATION FairSpec
INVARIANTS ClosedIsFresh
PROPERTIES IsAtomic OpensOnStrikes Recovers
