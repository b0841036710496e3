CONSTANTS
    Events = {e1, e2, m1}
    Manual = {m1}
    Users = {u1}
    Sweeps = {s1, s2}
    Window = 1
    Escalations <- MCTwoRules
    Horizon = 1
    None = None
SPECIFICATION Spec
INVARIANTS SuppressedWasAnnounced CountsEvents
PROPERTIES OncePerWindow EscalatedAnew NeverReopened
CONSTRAINT Few
SYMMETRY Alike
CHECK_DEADLOCK FALSE
