---------------------------- MODULE MCDocuments ----------------------------
(***************************************************************************)
(* Constructors for the document universes of the CatalogClient runs.  A   *)
(* digest is the tuple of the fields that tell two documents apart, so it  *)
(* is injective by construction and can be named by a later document.      *)
(***************************************************************************)
EXTENDS CatalogClient

CONSTANTS p1, p2, c1, c2, pol1, pol2, k1, k2

(* A well-formed snapshot, signed by key, with no entries.                 *)
Snapshot(p, c, n, prev, pol, key, from, until) ==
    [digest          |-> <<p, c, n, prev, pol, key, from, until>>,
     parses          |-> TRUE,
     in_profile      |-> TRUE,
     dup_keys        |-> FALSE,
     signer          |-> key,
     provider_id     |-> p,
     catalog_id      |-> c,
     sequence        |-> n,
     previous_digest |-> prev,
     policy_digest   |-> pol,
     generated_at    |-> from,
     expires_at      |-> until,
     entries         |-> <<>>]

(* The same, live at time 0 in every run but the one about freshness.      *)
Fresh(p, c, n, prev, pol, key) == Snapshot(p, c, n, prev, pol, key, 0, 1)

(* Other bytes, told apart from s by a tag.                                *)
Variant(s, tag) == [s EXCEPT !.digest = <<tag, s.digest>>]

(* The bytes of s with a key repeated inside an entry.                     *)
Doubled(s) == [Variant(s, "dup_keys") EXCEPT !.dup_keys = TRUE]

Declares(c, pol) ==
    [catalog_id |-> c, fields_valid |-> TRUE, seat_types |-> <<"*">>,
     public |-> TRUE, policy |-> pol]

Manifest(p, key, descriptors) ==
    [in_profile  |-> TRUE,
     dup_keys    |-> FALSE,
     signer      |-> key,
     provider_id |-> p,
     operator    |-> key,
     valid_until |-> 100,
     catalogs    |-> descriptors,
     privacy_ok  |-> TRUE]

MCDigest == {s.digest : s \in SnapshotDoc}
=============================================================================
