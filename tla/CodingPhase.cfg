SPECIFICATION FairSpec
CONSTANTS
    Specs = {s1}
    Pipelines = {p1, p2}
    None = None
INVARIANTS
    StatusIsEarned
    EndedCoderEndsRun
PROPERTY CoderRunsEnd
