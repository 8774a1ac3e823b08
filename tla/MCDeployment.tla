---------------------------- MODULE MCDeployment ----------------------------
(***************************************************************************)
(* One droplet, one older machine that may serve a chain already, and two  *)
(* times at which a snapshot can be built, so that every sequence number   *)
(* has more than one candidate.                                            *)
(***************************************************************************)
EXTENDS ChainDeployment

CONSTANTS p1, c1, pol1, k1, droplet, elsewhere, r1, r2

MCDigestOf(fields) == fields

MCConfig == [valid |-> TRUE, provider_id |-> p1, catalog_id |-> c1,
             policy_digest |-> pol1, expiry |-> 1, fits |-> TRUE,
             entries |-> <<>>]

MCManifest ==
    [in_profile |-> TRUE, dup_keys |-> FALSE, signer |-> k1,
     provider_id |-> p1, operator |-> k1, valid_until |-> 100,
     catalogs |-> <<[catalog_id |-> c1, fields_valid |-> TRUE,
                     seat_types |-> <<"*">>, public |-> TRUE,
                     policy |-> pol1]>>,
     privacy_ok |-> TRUE]

Built(s, at) == build_snapshot(Config, s, at, k1)
Successors(S) == {Built(s, at) : s \in S, at \in Time}

First == Successors({None})
Second == Successors(First)

(* What can be built up to MaxSequence.                                    *)
MCSnapshotDoc ==
    First \cup (IF MaxSequence >= 2 THEN Second ELSE {})
          \cup (IF MaxSequence >= 3 THEN Successors(Second) ELSE {})

MCDigest == {s.digest : s \in SnapshotDoc}

(* The other machine serves the first snapshot built at time 0.            *)
MCLive == {Built(None, 0)}

(* The first snapshot signed locally, and the second beside the first.     *)
Signed1 == BuiltTree(Built(None, 1))
Signed2 == Overlay(BuiltTree(Built(None, 0)),
                   BuiltTree(Built(Built(None, 0), 0)))
MCSigned == {Signed1, Signed2}

(* signed/ after a first snapshot that was never published and a second    *)
(* that chains onto the one CI published instead.                          *)
Stale2 == Overlay(Signed1, BuiltTree(Built(Built(None, 0), 0)))
MCStaleSigned == {Stale2}

MCManifestDoc == {MCManifest}
=============================================================================
