---------------------------- MODULE MCPublisher ----------------------------
(***************************************************************************)
(* One operator, one config, two build times: every sequence can be built  *)
(* with different bytes, which is all it takes to fork.                    *)
(***************************************************************************)
EXTENDS SnapshotPublisher

CONSTANTS p1, c1, pol1, k1, b1, b2

(* The digest of a document is the tuple of its fields.                    *)
MCDigestOf(fields) == fields

Lists(entries) == [valid |-> TRUE, provider_id |-> p1, catalog_id |-> c1,
                   policy_digest |-> pol1, expiry |-> 1, fits |-> TRUE,
                   entries |-> entries]

MCConfig == {Lists(<<>>)}

(* Configs whose only entry has one defect, for the run about entries.     *)
MCDefective ==
    {Lists(<<[component_id |-> "x", digest |-> "d", defects |-> {defect}]>>) :
        defect \in {"seat_type", "relationship"}}
MCComponent == {"x"}
MCDestination == {"d"}

Successors(S) == {build_snapshot(c, s, at, k1) :
                      c \in Config, s \in S, at \in Time}
                     \ {None}

First == Successors({None})
Second == Successors(First)

(* Every snapshot the operator could build.                                *)
MCSnapshotDoc ==
    First \cup (IF MaxSequence >= 2 THEN Second ELSE {})
          \cup (IF MaxSequence >= 3 THEN Successors(Second) ELSE {})

MCDigest == {s.digest : s \in SnapshotDoc}
=============================================================================
