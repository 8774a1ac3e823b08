SPECIFICATION Spec
CONSTANTS
    v1 = v1
    v2 = v2
    bad = bad
    None = None
    Version = {v1, v2, bad}
    ValidVersion = {v1, v2}
    Overlap = FALSE
INVARIANTS
    TypeOK
    StackStaysUp
    RestartSafe
    ExitMeansLoaded
PROPERTY
    Converges
