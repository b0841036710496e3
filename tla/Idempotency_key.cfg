CONSTANTS
    c1 = c1
    c2 = c2
    d1 = d1
    Calls = {c1, c2, d1}
    Payload <- MCPayload
    None = None
SPECIFICATION Spec
INVARIANTS AtMostOnce ReplayIsGenuine OnePayload AnswersHappened
SYMMETRY Retries
CHECK_DEADLOCK FALSE
