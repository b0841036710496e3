CONSTANTS
    l1 = l1
    l2 = l2
    l3 = l3
    Locks = {l1, l2, l3}
    Thread <- MCThread
    TTL = 4
    AutoRenewal = TRUE
    Late = 2
    MaxDepth = 2
    None = None
SPECIFICATION FairSpec
INVARIANTS MutualExclusion IInv
PROPERTIES HandedOver AbandonedIsFreed
