----------------------------- MODULE MCSources -----------------------------
(***************************************************************************)
(* Three sources that share as much as they can: two catalogs of one       *)
(* provider, and a second provider run with the same operator key and the  *)
(* same catalog name.  Every snapshot may be checked against any manifest  *)
(* and any retained state, and the manifests include badly declared ones.  *)
(* The clock shows 0, the last moment a snapshot dated ahead may still be  *)
(* accepted, or one later than that.                                       *)
(***************************************************************************)
EXTENDS MCDocuments

Chain2(p, c) ==
    LET s == Fresh(p, c, 1, None, pol1, k1) IN
    {s, Fresh(p, c, 2, s.digest, pol1, k1)}

(* An entry that decodes, and one a client skips.                          *)
Shown(i) == [component_id |-> i, digest |-> "d", defects |-> {}]
Hidden(i) == [component_id |-> i, digest |-> "d", defects |-> {"seat_type"}]

(* Snapshots whose entries decide: two shown entries of one component, a   *)
(* shown one beside a hidden one, and more than MAX_ENTRIES.               *)
WithEntries ==
    LET second == CHOOSE s \in Chain2(p1, c1) : s.sequence = 2
        s == Fresh(p1, c1, 3, second.digest, pol1, k1)
    IN
    {[Variant(s, "twice") EXCEPT !.entries = <<Shown("x"), Shown("x")>>],
     [Variant(s, "hidden") EXCEPT !.entries = <<Shown("x"), Hidden("x")>>],
     [Variant(s, "many") EXCEPT !.entries =
                                  <<Shown("x"), Hidden("x"), Hidden("x")>>]}

(* Bytes no operator signed, each wrong in what a later check looks at,    *)
(* and bytes of another version of the profile.                            *)
Unsigned ==
    LET s == Fresh(p1, c1, 1, None, pol1, None) IN
    {[Variant(s, "dates") EXCEPT !.expires_at = Malformed],
     [Variant(s, "sequence") EXCEPT !.sequence = 0],
     [Variant(s, "policy") EXCEPT !.policy_digest = Malformed],
     Doubled(Fresh(p1, c1, 1, None, pol2, k1)),
     [Fresh(p1, c1, 1, None, pol2, k1) EXCEPT !.in_profile = FALSE]}

(* First snapshots dated ahead, at the limit of what both skews and the    *)
(* window allow, beyond it, and out of order.                              *)
Dated ==
    {Snapshot(p1, c1, 1, None, pol1, k1, d[1], d[2]) :
        d \in {<<1, 2>>, <<2, 3>>, <<2, 4>>, <<3, 3>>, <<4, 3>>}}

MCSnapshotDoc ==
    Chain2(p1, c1) \cup Chain2(p1, c2) \cup Chain2(p2, c1)
    \cup WithEntries \cup Unsigned \cup Dated

Private(c) == [Declares(c, pol2) EXCEPT !.public = FALSE]
Broken(c) == [Declares(c, pol2) EXCEPT !.seat_types = <<"*", "token">>]
Vague(c) == [Declares(c, pol2) EXCEPT !.seat_types = <<"neither">>]

(* One manifest per provider that declares all, and for p1 the ways one    *)
(* can be declared wrongly, expired, or forged.                            *)
MCManifestDoc ==
    LET full == Manifest(p1, k1, <<Declares(c1, pol1), Declares(c2, pol1)>>) IN
    {full,
     Manifest(p2, k1, <<Declares(c1, pol1)>>),
     [full EXCEPT !.catalogs = <<Declares(c1, pol1), Private(c1)>>],
     [full EXCEPT !.catalogs = <<Broken(c1), Declares(c1, pol1), Private(c2)>>],
     [full EXCEPT !.catalogs = <<Broken(c1), Vague(c2)>>],
     [full EXCEPT !.catalogs = <<Declares(c1, pol1), Declares(c1, pol1)>>,
                  !.signer = k2],
     [full EXCEPT !.valid_until = 0, !.dup_keys = TRUE],
     [full EXCEPT !.valid_until = 0],
     [full EXCEPT !.valid_until = Malformed],
     [full EXCEPT !.privacy_ok = FALSE],
     [full EXCEPT !.in_profile = FALSE]}

MCDestination == {"d"}
MCComponent == {"x"}
=============================================================================
