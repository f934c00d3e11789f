SPECIFICATION Spec
CONSTANTS
    Specs = {s1}
    Runs = {}
    Crps = {c1}
    Patches = {}
    None = None
    Mrps = {m1}
    t1 = t1
    t2 = t2
    Trees = {t1, t2}
    Payloads <- VerifierPayloads
    Strict = TRUE
    MaxEvidence = 2
    MaxReviews = 2
INVARIANTS
    OpenCrpIdsUnresolved
    PackMirrorsLog
    ReadyIsEvidenced
PROPERTY NoMergeWithoutResolution
