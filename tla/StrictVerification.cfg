SPECIFICATION FairSpec
CONSTANTS
    Pipelines = {p1, p2}
    None = None
    MaxCrashes = 1
CHECK_DEADLOCK FALSE
INVARIANTS
    PassIsEvidenced
    GateOpensOnPass
    GivesUpOnOthers
    VerifiesProposal
PROPERTIES
    ImplementsLifecycle
    PipelinesEnd
