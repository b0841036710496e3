CONSTANTS
    t1 = t1
    t2 = t2
    t3 = t3
    Tasks = {t1, t2, t3}
    Cost <- MCCost
    Viewers = {v1}
    Gift = 5
    Inline = {}
    Delivered = {}
    Copies = 1
    Faults = FALSE
    None = None
SPECIFICATION Spec
INVARIANT FailedRunGivesBack
CHECK_DEADLOCK FALSE
