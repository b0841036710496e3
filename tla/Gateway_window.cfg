CONSTANTS
    Workers = {w1, w2}
    Paths = {"export", "other"}
    Rules <- MCRules
    Default <- MCDefault
    Stall = 1
    MaxAge = 4
SPECIFICATION FairGateway
INVARIANTS BurstBounded
PROPERTIES RefusedAtLimit NotBanned
