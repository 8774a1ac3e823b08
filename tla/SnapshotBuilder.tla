-------------------------- MODULE SnapshotBuilder --------------------------
(***************************************************************************)
(* src/src/build.rs: an operator's config and the bytes of the previous    *)
(* snapshot become the bytes of the next one.                              *)
(***************************************************************************)
EXTENDS StaticProfile

CONSTANTS
    sha256_digest(_),   \* digest of the bytes with the given fields
    U64                 \* one more than the largest sequence a u64 holds

ASSUME U64Assumption == U64 \in Nat \ {0, 1}

(* A parsed config, entries with their manifestFile already hashed.  `fits`*)
(* says whether the finished document stays below MAX_SNAPSHOT_BYTES.      *)
SnapshotConfig ==
    [valid         : BOOLEAN,       \* catalogId, providerId, policyDigest
     provider_id   : Provider,
     catalog_id    : Catalog,
     policy_digest : Policy,
     expiry        : Nat,
     fits          : BOOLEAN,
     entries       : Seq(CatalogEntry)]

(* What the builder refuses in an entry.                                   *)
RefusedDefect == {"shape", "component_id", "uri", "digest", "operator",
                  "relationship", "placement", "evidence", "status"}

resolve_entry(e) == e.defects \cap RefusedDefect = {}

(* The previous file is read without its signature; only its catalog is    *)
(* compared with the config.                                               *)
usable_previous(config, previous) ==
    previous = None \/ /\ ~previous.dup_keys /\ previous.parses
                       /\ previous.catalog_id = config.catalog_id

(* A release build wraps at the end of u64.                                *)
next_sequence(previous) ==
    IF previous = None THEN 1 ELSE (previous.sequence + 1) % U64

(* Seeded defect: the link skips a generation.                             *)
link_skipping(previous) ==
    IF previous = None THEN None ELSE previous.previous_digest

(* What the next snapshot carries as previousDigest.                       *)
link(previous) == IF previous = None THEN None ELSE previous.digest

(* The signed snapshot, or None where the code returns an error.  Size,    *)
(* entry count and repeated components are left to the verifier.           *)
build_snapshot(config, previous, generated_at, key) ==
    LET prev == link(previous)
        n == next_sequence(previous)
        until == generated_at + config.expiry
    IN
    IF \/ ~config.valid
       \/ config.expiry \notin 1 .. MAX_EXPIRY_WINDOW
       \/ ~usable_previous(config, previous)
       \/ \E i \in DOMAIN config.entries : ~resolve_entry(config.entries[i])
    THEN None
    ELSE [digest |-> sha256_digest(<<config.provider_id, config.catalog_id, n,
                         prev, config.policy_digest, key, generated_at, until,
                         config.entries>>),
          parses |-> TRUE, in_profile |-> config.fits, dup_keys |-> FALSE,
          signer |-> key,
          provider_id |-> config.provider_id,
          catalog_id |-> config.catalog_id,
          sequence |-> n,
          previous_digest |-> prev,
          policy_digest |-> config.policy_digest,
          generated_at |-> generated_at,
          expires_at |-> until,
          entries |-> config.entries]
=============================================================================
