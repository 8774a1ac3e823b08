--------------------------- MODULE CatalogClient ---------------------------
(***************************************************************************)
(* A client of the verifier: it keeps one manifest per provider and the    *)
(* retained state of section 8 per (provider, catalog), and every step     *)
(* hands some served bytes to verify_manifest or verify_snapshot.          *)
(*                                                                         *)
(* The network decides which bytes arrive, in which order and how often,   *)
(* so every document of the universe may be served at every step: stale,   *)
(* forged, repeated, or for another source.  The clock is read afresh by   *)
(* every call and may go backwards.  A rejected document changes nothing.  *)
(*                                                                         *)
(* `generation` and `accepted` are history: the code does not keep them.   *)
(***************************************************************************)
EXTENDS StaticProfile

CONSTANTS
    Time,           \* clock readings
    MaxGeneration   \* bound: policy changes a source goes through

ASSUME TimeAssumption == Time \subseteq Int /\ MaxGeneration \in Nat

VARIABLES
    manifest,       \* manifest[p]: the manifest in use for provider p, or None
    retained,       \* retained[k]: RetainedCatalogState of source k, or None
    generation,     \* generation[k]: how often a previous policy was recorded
    accepted        \* every acceptance so far

vars == <<manifest, retained, generation, accepted>>

Acceptance == [doc : SnapshotDoc, at : Time, transition : BOOLEAN,
               generation : 0 .. MaxGeneration]

(* One type invariant: retained[k] is also about k and no other source.    *)
TypeOK ==
    /\ manifest \in [Provider -> ManifestDoc \cup {None}]
    /\ \A p \in Provider :
          manifest[p] # None => manifest[p].provider_id = p
    /\ retained \in [Source -> RetainedCatalogState \cup {None}]
    /\ \A k \in Source : retained[k] # None =>
          <<retained[k].provider_id, retained[k].catalog_id>> = k
    /\ generation \in [Source -> 0 .. MaxGeneration]
    /\ accepted \subseteq Acceptance

Init ==
    /\ manifest = [p \in Provider |-> None]
    /\ retained = [k \in Source |-> None]
    /\ generation = [k \in Source |-> 0]
    /\ accepted = {}

(* The declared policy of a source the client follows is not the one it    *)
(* declared in the manifest that m replaces.                               *)
policy_changes(k, m) ==
    LET old == manifest[m.provider_id] IN
    /\ k[1] = m.provider_id
    /\ old # None
    /\ retained[k] # None
    /\ public_catalogs(old, k[2]) # {}
    /\ public_catalogs(m, k[2]) # {}
    /\ descriptor(old, k[2]).policy # descriptor(m, k[2]).policy

(* A manifest that verifies replaces the one in use; the client records    *)
(* the superseded declaration in the retained state of every source whose  *)
(* policy it changes, as RetainedCatalogState::previous_policy asks.       *)
FetchManifest(m, now) ==
    /\ verify_manifest(m, now) = "ok"
    /\ \A k \in Source : policy_changes(k, m) => generation[k] < MaxGeneration
    /\ manifest' = [manifest EXCEPT ![m.provider_id] = m]
    /\ retained' = [k \in Source |->
          IF policy_changes(k, m)
          THEN [retained[k] EXCEPT !.previous_policy =
                    descriptor(manifest[m.provider_id], k[2]).policy]
          ELSE retained[k]]
    /\ generation' = [k \in Source |->
          IF policy_changes(k, m) THEN generation[k] + 1 ELSE generation[k]]
    /\ UNCHANGED accepted

(* Verify s as published under p's manifest, against the state retained    *)
(* for k.  The caller may hand over the state of another source, but never *)
(* forgets state it has.  The manifest is verified again at `now` first.   *)
Refresh(s, p, k, now) ==
    LET r == retained[k]
        source == SourceOf(s)
        transition == policy_transition(s, manifest[p], r)
    IN
    /\ r = None => retained[source] = None
    /\ manifest[p] # None
    /\ verify_manifest(manifest[p], now) = "ok"
    /\ verify_snapshot(s, manifest[p], r, now) \in Accepting
    /\ retained' = [retained EXCEPT ![source] =
                        after_acceptance(r, s, transition)]
    /\ accepted' = accepted \cup
          {[doc |-> s, at |-> now, transition |-> transition,
            generation |-> generation[source]]}
    /\ UNCHANGED <<manifest, generation>>

Next ==
    \/ \E m \in ManifestDoc, now \in Time : FetchManifest(m, now)
    \/ \E s \in SnapshotDoc, p \in Provider, k \in Source, now \in Time :
          Refresh(s, p, k, now)

Spec == Init /\ [][Next]_vars

-----------------------------------------------------------------------------
(* Safety                                                                  *)

(* However the served bytes are reordered, repeated or mixed, the client   *)
(* never accepts two different snapshots of one source under one sequence  *)
(* number (verify.rs, the fork rejection).                                 *)
NoForkAccepted ==
    \A a, b \in accepted :
        SourceOf(a.doc) = SourceOf(b.doc) /\ a.doc.sequence = b.doc.sequence
            => a.doc.digest = b.doc.digest

(* Two accepted snapshots with neighbouring sequence numbers are linked,   *)
(* also when refreshes, jumps and policy changes lie between them: a       *)
(* successor is accepted only with the retained digest as previousDigest.  *)
NeighboursChain ==
    \A a, b \in accepted :
        SourceOf(a.doc) = SourceOf(b.doc)
            /\ b.doc.sequence = a.doc.sequence + 1
            => b.doc.previous_digest = a.doc.digest

(* The transition grace closes for good: within one recorded previous      *)
(* policy, once a snapshot citing the current policy has been accepted, no *)
(* later snapshot of the source is accepted under the superseded one       *)
(* (after_acceptance drops previous_policy).                               *)
GraceClosesForGood ==
    \A a, b \in accepted :
        /\ SourceOf(a.doc) = SourceOf(b.doc)
        /\ a.generation = b.generation
        /\ a.doc.sequence < b.doc.sequence
        /\ b.transition
        => a.transition

(* The 90-day ceiling cannot be stretched by dating a snapshot ahead or by *)
(* skewed clocks: the moments at which one snapshot is accepted are never  *)
(* further apart than the window and both skew allowances.                 *)
FreshnessCeiling ==
    \A a, b \in accepted :
        a.doc.digest = b.doc.digest
            => b.at - a.at <= MAX_EXPIRY_WINDOW + 2 * CLOCK_SKEW

(* Verdicts that say something about what the operator published.          *)
Accusation == {"dates_invalid", "snapshot_expired", "undeclared",
               "audience_skipped", "policy_mismatch", "chain_malformed",
               "rollback", "fork", "inconsistent_jump", "too_many_entries",
               "duplicate_component"}
ManifestAccusation == {"expired", "duplicate_catalog", "no_descriptors",
                       "privacy_profile"}

(* Nobody can make the client blame an operator with bytes the operator    *)
(* did not sign: a verdict about the published content is reached only for *)
(* a document that carries the operator's signature and no repeated key    *)
(* (verify.rs checks the signature first).                                 *)
AccusationsAuthenticated ==
    /\ \A m \in ManifestDoc, now \in Time :
          verify_manifest(m, now) \in ManifestAccusation
              => m.signer = m.operator /\ ~m.dup_keys
    /\ \A s \in SnapshotDoc, p \in Provider, k \in Source, now \in Time :
          manifest[p] # None
              /\ verify_snapshot(s, manifest[p], retained[k], now)
                     \in Accusation
              => s.signer = manifest[p].operator /\ ~s.dup_keys

(* State kept for another provider or catalog never turns into a chain     *)
(* accusation: against the state of any source but its own a snapshot is   *)
(* rejected for that, or for something unrelated to the chain.             *)
ForeignStateNeverAccuses ==
    \A s \in SnapshotDoc, p \in Provider, k \in Source, now \in Time :
        manifest[p] # None /\ retained[k] # None /\ k # SourceOf(s)
            => verify_snapshot(s, manifest[p], retained[k], now) \notin
                   Accepting \cup {"rollback", "fork", "inconsistent_jump",
                                   "policy_mismatch"}

(* A client that stops and restarts rebuilds the state it had from the     *)
(* bytes of a snapshot it accepted: from_snapshot_bytes agrees with        *)
(* after_acceptance on every accepted document.                            *)
RetainedStateReloads ==
    \A k \in Source :
        retained[k] # None =>
            \E a \in accepted :
                from_snapshot_bytes(a.doc, retained[k].previous_policy)
                    = retained[k]

(* In a manifest in use a catalog has one declaration: the first match     *)
(* verify_snapshot takes is the only one, and no catalog is both public    *)
(* and skipped for its audience.                                           *)
DeclarationsUnambiguous ==
    \A p \in Provider, c \in Catalog :
        manifest[p] # None =>
            Cardinality(public_catalogs(manifest[p], c)
                            \cup audience_skipped(manifest[p], c)) <= 1

-----------------------------------------------------------------------------
(* The client implements the chain it promises.                            *)

Chain == INSTANCE AcceptedChain WITH
    Number <- {s.sequence : s \in SnapshotDoc},
    Block  <- {s.digest : s \in SnapshotDoc},
    Link   <- [d \in {s.digest : s \in SnapshotDoc} |->
                  (CHOOSE s \in SnapshotDoc : s.digest = d).previous_digest],
    head   <- [k \in Source |->
                  IF retained[k] = None THEN None
                  ELSE [sequence |-> retained[k].sequence,
                        digest   |-> retained[k].digest]],
    ledger <- {<<SourceOf(a.doc), a.doc.sequence, a.doc.digest>> :
                  a \in accepted}

(* Every step of the client is a step of AcceptedChain or leaves head and  *)
(* ledger alone.                                                           *)
ImplementsAcceptedChain == Chain!Spec
=============================================================================
