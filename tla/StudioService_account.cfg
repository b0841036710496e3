CONSTANTS
    t1 = t1
    t2 = t2
    t3 = t3
    Tasks = {t1, t2, t3}
    Cost <- MCCost
    Viewers = {v1, v2}
    Gift = 5
    Inline = {t1}
    Delivered = {t1, t2}
    Copies = 2
    Faults = TRUE
    None = None
SPECIFICATION FairSpec
INVARIANTS TypeOK Conservation FrozenBacked NoOverdraft SettledOnce StatusMatchesLedger
PROPERTIES ImplementsAccount RequestsEnd
CHECK_DEADLOCK FALSE
