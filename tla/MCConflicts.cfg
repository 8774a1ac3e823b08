SPECIFICATION Spec
CONSTANTS
    p1 = p1
    p2 = p2
    x = x
    y = y
    d1 = d1
    d2 = d2
    d3 = d3
    None = None
    Provider = {p1, p2}
    Component = {x, y}
    Destination = {d1, d2, d3}
    Held <- MCHeld
CHECK_DEADLOCK FALSE
INVARIANTS
    TypeOK
    ConflictsExact
    NoConflictIsUniform
    ProvidersToldApart
