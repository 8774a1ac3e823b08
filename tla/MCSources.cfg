SPECIFICATION Spec
CONSTANTS
    p1 = p1
    p2 = p2
    c1 = c1
    c2 = c2
    pol1 = pol1
    pol2 = pol2
    k1 = k1
    k2 = k2
    None = None
    Malformed = Malformed
    Provider = {p1, p2}
    Catalog = {c1, c2}
    Policy = {pol1, pol2}
    Key = {k1, k2}
    Component <- MCComponent
    Destination <- MCDestination
    Digest <- MCDigest
    SnapshotDoc <- MCSnapshotDoc
    ManifestDoc <- MCManifestDoc
    MAX_EXPIRY_WINDOW = 1
    CLOCK_SKEW = 1
    MAX_ENTRIES = 2
    Time = {0, 3, 4}
    MaxGeneration = 2
INVARIANTS
    AccusationsAuthenticated
    ForeignStateNeverAccuses
    DeclarationsUnambiguous
    FreshnessCeiling
