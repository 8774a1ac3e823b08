----------------------------- MODULE MCConflicts -----------------------------
(***************************************************************************)
(* Up to three snapshots of two providers with up to two entries each, and *)
(* three digests, so that one component can be bound three ways.           *)
(***************************************************************************)
EXTENDS EntryConflicts

CONSTANTS p1, p2, x, y, d1, d2, d3

Bound(c) == {[component_id |-> c, digest |-> d] : d \in Destination}

MCEntries == {<<>>} \cup {<<e>> : e \in Bound(x) \cup Bound(y)}
                    \cup {<<e, f>> : e \in Bound(x), f \in Bound(y)}

MCSnapshot == [provider_id : Provider, entries : MCEntries]

MCHeld == {<<>>} \cup {<<a>> : a \in MCSnapshot}
                 \cup {<<a, b>> : a, b \in MCSnapshot}
                 \cup {<<a, b, c>> : a, b, c \in MCSnapshot}
=============================================================================
