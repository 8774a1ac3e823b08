SPECIFICATION Spec
CONSTANTS
    p1 = p1
    c1 = c1
    pol1 = pol1
    k1 = k1
    k2 = k2
    proc = proc
    None = None
    Malformed = Malformed
    Torn = Torn
    Provider = {p1}
    Catalog = {c1}
    Policy = {pol1}
    Key = {k1, k2}
    Component = {}
    Destination = {}
    Digest = {}
    SnapshotDoc = {}
    ManifestDoc <- MCManifestDoc
    MAX_EXPIRY_WINDOW = 1
    CLOCK_SKEW = 0
    MAX_ENTRIES = 0
    Process = {proc}
    Draft <- MCDraft
INVARIANTS
    TypeOK
    AnnouncedKeyStored
    OneOperator
PROPERTY
    Recovers
