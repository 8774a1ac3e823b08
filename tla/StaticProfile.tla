--------------------------- MODULE StaticProfile ---------------------------
(***************************************************************************)
(* The documents of the static-snapshot / Ed25519 profile and the pure     *)
(* verdicts src/src/verify.rs reaches on them.                             *)
(*                                                                         *)
(* A document is the byte string somebody serves; here it is a record of   *)
(* what the code can learn from those bytes.  `digest` is the SHA-256 of   *)
(* the bytes, `signer` the only key under which the embedded signature     *)
(* verifies (None: unsigned, or verifies under no key).  `parses` is the   *)
(* strict decode, `in_profile` the size bound, version and profile checks  *)
(* taken together, and `dup_keys` a repeated key the strict decode does    *)
(* not see because it sits inside a lossily decoded entry or descriptor.   *)
(***************************************************************************)
EXTENDS Integers, Sequences, FiniteSets

CONSTANTS
    Provider,           \* providerId values
    Catalog,            \* catalogId values
    Policy,             \* digests of catalog policies
    Digest,             \* digests of snapshot bytes
    Key,                \* Ed25519 operator keys
    Component,          \* componentId values of entries
    Destination,        \* digests of destination manifests entries pin
    None,               \* Rust's Option::None
    Malformed,          \* a field whose own validator rejects it
    SnapshotDoc,        \* every snapshot byte string that may be served
    ManifestDoc,        \* every manifest byte string that may be served
    MAX_EXPIRY_WINDOW,  \* longest expiresAt - generatedAt
    CLOCK_SKEW,         \* tolerance on both freshness comparisons
    MAX_ENTRIES         \* entries allowed in one snapshot

-----------------------------------------------------------------------------
(* Document shapes                                                         *)

(* What can be wrong with an entry; decode_entry rejects all of these.     *)
EntryDefect == {"shape", "component_id", "seat_type", "uri", "digest",
                "operator", "listed_at", "reviewed_at", "relationship",
                "placement", "evidence", "status"}

CatalogEntry == [component_id : Component, digest : Destination,
                 defects : SUBSET EntryDefect]

CatalogSnapshot ==
    [digest          : Digest,
     parses          : BOOLEAN,
     in_profile      : BOOLEAN,
     dup_keys        : BOOLEAN,
     signer          : Key \cup {None},
     provider_id     : Provider,
     catalog_id      : Catalog,
     sequence        : Nat,
     previous_digest : Digest \cup {None, Malformed},
     policy_digest   : Policy \cup {Malformed},
     generated_at    : Int \cup {Malformed},
     expires_at      : Int \cup {Malformed},
     entries         : Seq(CatalogEntry)]

CatalogDescriptor ==
    [catalog_id   : Catalog,
     fields_valid : BOOLEAN,        \* shape, ids, URIs and digest validate
     seat_types   : Seq({"*", "token", "neither"}),
     public       : BOOLEAN,        \* audience is exactly "public"
     policy       : Policy]

ProviderManifest ==
    [in_profile  : BOOLEAN,         \* decodes; seat, ids, operator valid
     dup_keys    : BOOLEAN,
     signer      : Key \cup {None},
     provider_id : Provider,
     operator    : Key,
     valid_until : Int \cup {Malformed},
     catalogs    : Seq(CatalogDescriptor),
     privacy_ok  : BOOLEAN]

(* Retained state is keyed per (providerId, catalogId).                    *)
Source == Provider \X Catalog
SourceOf(s) == <<s.provider_id, s.catalog_id>>

RetainedCatalogState ==
    [provider_id     : Provider,
     catalog_id      : Catalog,
     sequence        : Nat,
     digest          : Digest,
     previous_policy : Policy \cup {None}]

ASSUME DocAssumption ==
    /\ SnapshotDoc \subseteq CatalogSnapshot
    /\ ManifestDoc \subseteq ProviderManifest

(* SHA-256 is taken to be collision free on the documents that exist.      *)
ASSUME DigestAssumption ==
    \A s, t \in SnapshotDoc : s.digest = t.digest => s = t

ASSUME OptionAssumption ==
    /\ None \notin Digest \cup Policy \cup Key
    /\ None \notin RetainedCatalogState \cup ManifestDoc
    /\ Malformed \notin Digest \cup Policy \cup Int \cup {None}

ASSUME BoundAssumption ==
    MAX_EXPIRY_WINDOW \in Nat /\ CLOCK_SKEW \in Nat /\ MAX_ENTRIES \in Nat

-----------------------------------------------------------------------------
(* Provider manifests                                                      *)

(* Seeded defect: the signature is checked without the scan for duplicate  *)
(* keys.                                                                   *)
authentic_unscanned(doc, key) == doc.signer = key

(* signing_bytes rejects duplicate keys at any depth before the signature  *)
(* is checked against the operator key the manifest names.                 *)
authentic(doc, key) == ~doc.dup_keys /\ doc.signer = key

decode_descriptor(d) ==
    /\ d.fields_valid
    /\ \A i \in DOMAIN d.seat_types : d.seat_types[i] # "neither"
    /\ d.seat_types # <<>>
    /\ (\E i \in DOMAIN d.seat_types : d.seat_types[i] = "*")
           => Len(d.seat_types) = 1

decoded(m) == {i \in DOMAIN m.catalogs : decode_descriptor(m.catalogs[i])}

(* Seeded defect: duplicates are looked for among public catalogs only.    *)
duplicate_public_catalog(m) ==
    \E i, j \in {x \in decoded(m) : m.catalogs[x].public} :
        i # j /\ m.catalogs[i].catalog_id = m.catalogs[j].catalog_id

(* Every decoded descriptor counts, also one that is then skipped for its  *)
(* audience.                                                               *)
duplicate_catalog(m) ==
    \E i, j \in decoded(m) :
        i # j /\ m.catalogs[i].catalog_id = m.catalogs[j].catalog_id

verify_manifest(m, now) ==
    IF ~m.in_profile THEN "malformed"
    ELSE IF ~authentic(m, m.operator) THEN "unauthenticated"
    ELSE IF m.valid_until = Malformed THEN "malformed"
    ELSE IF m.valid_until <= now THEN "expired"
    ELSE IF duplicate_catalog(m) THEN "duplicate_catalog"
    ELSE IF decoded(m) = {} THEN "no_descriptors"
    ELSE IF ~m.privacy_ok THEN "privacy_profile"
    ELSE "ok"

(* VerifiedManifest.catalogs and .audience_skipped_ids, as index sets.     *)
public_catalogs(m, c) ==
    {i \in decoded(m) : m.catalogs[i].public /\ m.catalogs[i].catalog_id = c}
audience_skipped(m, c) ==
    {i \in decoded(m) : ~m.catalogs[i].public /\ m.catalogs[i].catalog_id = c}

(* The descriptor `catalogs.iter().find` returns: the first of them.       *)
descriptor(m, c) ==
    m.catalogs[CHOOSE i \in public_catalogs(m, c) :
                   \A j \in public_catalogs(m, c) : i <= j]

-----------------------------------------------------------------------------
(* Snapshots                                                               *)

(* Seeded defect: no check for a generatedAt in the future.                *)
dates_invalid_no_future(s, now) ==
    \/ Malformed \in {s.generated_at, s.expires_at}
    \/ s.expires_at <= s.generated_at
    \/ s.expires_at - s.generated_at > MAX_EXPIRY_WINDOW

dates_invalid(s, now) ==
    \/ s.generated_at = Malformed
    \/ s.expires_at = Malformed
    \/ s.expires_at <= s.generated_at
    \/ s.expires_at - s.generated_at > MAX_EXPIRY_WINDOW
    \/ s.generated_at > now + CLOCK_SKEW

expired(s, now) == s.expires_at + CLOCK_SKEW < now

(* Seeded defect: only the provider is compared.                           *)
same_provider(s, r) == r # None => r.provider_id = s.provider_id

(* State retained for another provider or catalog is a caller error.       *)
same_source(s, r) ==
    r # None => r.provider_id = s.provider_id /\ r.catalog_id = s.catalog_id

(* The snapshot cites the superseded policy the client still tolerates.    *)
policy_transition(s, m, r) ==
    /\ s.policy_digest # descriptor(m, s.catalog_id).policy
    /\ r # None
    /\ r.previous_policy = s.policy_digest

policy_pinned(s, m, r) ==
    /\ s.policy_digest # Malformed
    /\ \/ s.policy_digest = descriptor(m, s.catalog_id).policy
       \/ policy_transition(s, m, r)

well_chained(s) ==
    /\ s.sequence # 0
    /\ s.sequence = 1 => s.previous_digest = None
    /\ s.sequence > 1 => s.previous_digest \notin {None, Malformed}

(* Seeded defects of the comparison below: any bytes are a refresh under   *)
(* the retained sequence; any previousDigest makes a successor; an older   *)
(* sequence is a refresh; only direct successors are accepted.             *)
chain_outcome_no_jump(s, r) ==
    IF r = None THEN "FirstAcceptance"
    ELSE IF s.sequence < r.sequence THEN "rollback"
    ELSE IF s.digest = r.digest THEN "NoOpRefresh"
    ELSE IF s.previous_digest = r.digest THEN "Successor"
    ELSE "fork"
chain_outcome_no_digest(s, r) ==
    IF r # None /\ s.sequence = r.sequence THEN "NoOpRefresh"
    ELSE IF r # None /\ s.sequence < r.sequence THEN "rollback"
    ELSE IF r # None /\ s.sequence = r.sequence + 1
         THEN IF s.previous_digest = r.digest THEN "Successor" ELSE "fork"
    ELSE "FirstAcceptance"
chain_outcome_no_link(s, r) ==
    IF r # None /\ s.sequence < r.sequence THEN "rollback"
    ELSE IF r # None /\ s.sequence = r.sequence /\ s.digest # r.digest
         THEN "fork"
    ELSE "Successor"
chain_outcome_no_rollback(s, r) ==
    IF r = None THEN "FirstAcceptance"
    ELSE IF s.sequence = r.sequence /\ s.digest # r.digest THEN "fork"
    ELSE IF s.sequence = r.sequence + 1 /\ s.previous_digest # r.digest
         THEN "fork"
    ELSE "NoOpRefresh"

(* The four-case comparison with the retained acceptance.  Sequences are   *)
(* u64 in the code; `r.sequence + 1` is reached only below the snapshot's  *)
(* own sequence, so it never wraps and Nat loses nothing.                  *)
chain_outcome(s, r) ==
    IF r = None THEN "FirstAcceptance"
    ELSE IF s.sequence < r.sequence THEN "rollback"
    ELSE IF s.sequence = r.sequence
         THEN IF s.digest = r.digest THEN "NoOpRefresh" ELSE "fork"
    ELSE IF s.sequence = r.sequence + 1
         THEN IF s.previous_digest = r.digest THEN "Successor" ELSE "fork"
    ELSE IF s.previous_digest = r.digest THEN "inconsistent_jump"
    ELSE "ForwardJumpWithNote"

Accepting == {"FirstAcceptance", "NoOpRefresh", "Successor",
              "ForwardJumpWithNote"}

decode_entry(e) == e.defects = {}

(* Positions of the entries a client shows.                                *)
surviving(s) == {i \in DOMAIN s.entries : decode_entry(s.entries[i])}

duplicate_component(s) ==
    \E i, j \in surviving(s) :
        i # j /\ s.entries[i].component_id = s.entries[j].component_id

(* Seeded defect: freshness is judged before the signature.                *)
verify_snapshot_fresh_first(s, m, r, now) ==
    IF ~s.parses \/ ~s.in_profile THEN "malformed"
    ELSE IF s.provider_id # m.provider_id THEN "wrong_provider"
    ELSE IF dates_invalid(s, now) THEN "dates_invalid"
    ELSE IF expired(s, now) THEN "snapshot_expired"
    ELSE IF ~authentic(s, m.operator) THEN "unauthenticated"
    ELSE IF public_catalogs(m, s.catalog_id) = {} THEN "undeclared"
    ELSE IF ~same_source(s, r) THEN "wrong_retained_state"
    ELSE IF ~policy_pinned(s, m, r) THEN "policy_mismatch"
    ELSE IF ~well_chained(s) THEN "chain_malformed"
    ELSE chain_outcome(s, r)

(* The checks in the order the code makes them: schema, provider,          *)
(* signature, freshness, declaration, retained key, policy, chain, entries.*)
verify_snapshot(s, m, r, now) ==
    IF ~s.parses \/ ~s.in_profile THEN "malformed"
    ELSE IF s.provider_id # m.provider_id THEN "wrong_provider"
    ELSE IF ~authentic(s, m.operator) THEN "unauthenticated"
    ELSE IF dates_invalid(s, now) THEN "dates_invalid"
    ELSE IF expired(s, now) THEN "snapshot_expired"
    ELSE IF public_catalogs(m, s.catalog_id) = {}
         THEN IF audience_skipped(m, s.catalog_id) # {}
              THEN "audience_skipped" ELSE "undeclared"
    ELSE IF ~same_source(s, r) THEN "wrong_retained_state"
    ELSE IF ~policy_pinned(s, m, r) THEN "policy_mismatch"
    ELSE IF ~well_chained(s) THEN "chain_malformed"
    ELSE IF chain_outcome(s, r) \notin Accepting THEN chain_outcome(s, r)
    ELSE IF Len(s.entries) > MAX_ENTRIES THEN "too_many_entries"
    ELSE IF duplicate_component(s) THEN "duplicate_component"
    ELSE chain_outcome(s, r)

-----------------------------------------------------------------------------
(* Retained state                                                          *)

(* Rebuilding the state from the bytes of an accepted snapshot; None when  *)
(* the bytes are refused.  No signature is checked here.                   *)
from_snapshot_bytes(s, previous_policy) ==
    IF s.dup_keys \/ ~s.parses THEN None
    ELSE [provider_id     |-> s.provider_id,
          catalog_id      |-> s.catalog_id,
          sequence        |-> s.sequence,
          digest          |-> s.digest,
          previous_policy |-> previous_policy]

(* Seeded defects: the previous policy is never dropped; the digest kept   *)
(* is the one the snapshot names.                                          *)
after_acceptance_keeps_grace(r, s, transition) ==
    [provider_id |-> s.provider_id, catalog_id |-> s.catalog_id,
     sequence |-> s.sequence, digest |-> s.digest,
     previous_policy |-> IF r = None THEN None ELSE r.previous_policy]
after_acceptance_of_previous(r, s, transition) ==
    [provider_id |-> s.provider_id, catalog_id |-> s.catalog_id,
     sequence |-> s.sequence, digest |-> s.previous_digest,
     previous_policy |-> None]

(* The state to keep after accepting s: the previous policy survives only  *)
(* while snapshots still cite it.                                          *)
after_acceptance(r, s, transition) ==
    [provider_id     |-> s.provider_id,
     catalog_id      |-> s.catalog_id,
     sequence        |-> s.sequence,
     digest          |-> s.digest,
     previous_policy |-> IF transition /\ r # None
                         THEN r.previous_policy ELSE None]
=============================================================================
