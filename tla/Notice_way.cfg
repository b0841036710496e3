CONSTANTS
    Alerts = {a1}
    Contents = {c1}
    Content <- MCContent
    Channels = {mail, chat}
    Workers = {w1, w2}
    Unsure = {a1}
    MaxAttempts = 3
    MaxLapses = 1
    NoJob = NoJob
SPECIFICATION FairNotice
INVARIANTS OncePerLife
PROPERTIES SentIsTried Settles
CHECK_DEADLOCK FALSE
