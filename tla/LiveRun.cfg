SPECIFICATION FairSpec
CONSTANTS
    Jobs = {a, b}
    Connections = {c1, c2}
    NoJob = NoJob
CHECK_DEADLOCK FALSE
INVARIANTS
    LiveIsPolled
    ShownEndHappened
PROPERTY EndIsShown
