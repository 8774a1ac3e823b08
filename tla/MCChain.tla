------------------------------ MODULE MCChain ------------------------------
(***************************************************************************)
(* One source, two policies, a tree of signed snapshots three deep with    *)
(* every fork in it, a gap, and documents an outsider could serve.         *)
(***************************************************************************)
EXTENDS MCDocuments

Genesis == {Fresh(p1, c1, 1, None, pol, k1) : pol \in Policy}

Second == {Fresh(p1, c1, 2, s.digest, pol, k1) : s \in Genesis, pol \in Policy}

(* Third in line, and a snapshot that skips 2 but claims to follow 1.      *)
Third ==
    {Fresh(p1, c1, 3, s.digest, pol, k1) : s \in Second, pol \in Policy}
    \cup {Fresh(p1, c1, 3, s.digest, pol2, k1) : s \in Genesis}

Forged ==
    LET s == Fresh(p1, c1, 1, None, pol1, None) IN
    {s, Doubled(Fresh(p1, c1, 2, s.digest, pol1, k1)),
     [Fresh(p1, c1, 1, None, pol2, k2) EXCEPT !.generated_at = Malformed]}

MCSnapshotDoc == Genesis \cup Second \cup Third \cup Forged

(* The two policies, and a manifest that has dropped the catalog.          *)
MCManifestDoc ==
    {Manifest(p1, k1, <<Declares(c1, pol)>>) : pol \in Policy}
    \cup {Manifest(p1, k1, <<Declares(c2, pol1)>>)}
=============================================================================
