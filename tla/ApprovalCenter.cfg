SPECIFICATION Spec
CONSTANTS
    Specs = {s1}
    Runs = {r1}
    Crps = {c1}
    Patches = {}
    None = None
    MaxCalls = 2
INVARIANTS
    ToldIsRecorded
PROPERTIES
    RecordIsFinal
    DeadSessionIsLeft
    DecidedLeavesInbox
