CONSTANTS
    Threads = {t1, t2, t3}
    MinSize = 2
    MaxSize = 3
    Pools = 2
    Conns = {1, 2, 3, 4, 5, 6, 7, 8, 9}
    None = None
SPECIFICATION Spec
SYMMETRY Perms
INVARIANTS Sound CountNearTruth WaitHasEnd
