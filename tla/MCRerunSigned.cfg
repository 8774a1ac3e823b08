SPECIFICATION Spec
CONSTANTS
    p1 = p1
    c1 = c1
    pol1 = pol1
    k1 = k1
    droplet = droplet
    elsewhere = elsewhere
    r1 = r1
    r2 = r2
    None = None
    Malformed = Malformed
    Provider = {p1}
    Catalog = {c1}
    Policy = {pol1}
    Key = {k1}
    Component = {}
    Destination = {}
    Digest <- MCDigest
    SnapshotDoc <- MCSnapshotDoc
    ManifestDoc <- MCManifestDoc
    sha256_digest <- MCDigestOf
    MAX_EXPIRY_WINDOW = 1
    CLOCK_SKEW = 0
    MAX_ENTRIES = 0
    U64 = 256
    Host = {droplet, elsewhere}
    Droplet = droplet
    Record = {r1, r2}
    Config <- MCConfig
    Manifest <- MCManifest
    Signed <- MCSigned
    Live = {}
    FirstWeb = {"down"}
    Time = {0, 1}
    OperatorKey = k1
    SIBLING_BACKFILL_MAX = 2
    MaxSequence = 2
    MaxRecords = 1
    Adverse = {}
INVARIANT
    RerunOfLiveAborts
