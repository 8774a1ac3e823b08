SPECIFICATION Spec
CONSTANTS
    p1 = p1
    c1 = c1
    pol1 = pol1
    k1 = k1
    b1 = b1
    b2 = b2
    None = None
    Malformed = Malformed
    Torn = Torn
    Provider = {p1}
    Catalog = {c1}
    Policy = {pol1}
    Key = {k1}
    Component <- MCComponent
    Destination <- MCDestination
    Digest <- MCDigest
    SnapshotDoc <- MCSnapshotDoc
    ManifestDoc = {}
    sha256_digest <- MCDigestOf
    MAX_EXPIRY_WINDOW = 1
    CLOCK_SKEW = 0
    MAX_ENTRIES = 1
    U64 = 256
    Builder = {b1}
    Config <- MCDefective
    Time = {0, 1}
    OperatorKey = k1
    MaxSequence = 1
INVARIANT
    NoBuiltEntrySkipped
