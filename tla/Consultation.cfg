SPECIFICATION Spec
CONSTANTS
    Specs = {s1}
    Runs = {r1, r2}
    Crps = {c1, c2}
    Patches = {p1}
    None = None
SYMMETRY Symmetry
INVARIANTS
    TypeOK
    ValidatedBeforeCodegen
    HighCrpBlocksRun
    ResolvedIffVcr
    UnstampedOnlyByCrp
PROPERTY TerminalIsFinal
