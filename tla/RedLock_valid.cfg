CONSTANTS
    p1 = p1
    p2 = p2
    Procs = {p1, p2}
    N = 3
    Quorum = 2
    TTL = 2
    None = None
SPECIFICATION Spec
INVARIANTS ValidHolderIsAlone IInv
SYMMETRY Swap
