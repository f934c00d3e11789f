SPECIFICATION FairSpec
CONSTANTS
    Jobs = {j1, j2}
    Projects = {p1, p2}
    DomainOf <- OneDomain
    None = None
CHECK_DEADLOCK FALSE
INVARIANTS
    RecordIsHonest
    CodedIsValidated
PROPERTIES
    ProgressStays
    RunsEnd
