--------------------------- MODULE EntryConflicts ---------------------------
(***************************************************************************)
(* What a client does with several verified snapshots at once: the         *)
(* cross-catalog check within one provider and the conflict check between  *)
(* two sources (src/src/verify.rs), both a scan of all entries that keeps  *)
(* the first digest seen of every component, and the check of the bytes    *)
(* fetched for an entry against the digest it pins.                        *)
(***************************************************************************)
EXTENDS Integers, Sequences, FiniteSets

CONSTANTS
    Provider,       \* providerId values
    Component,      \* componentId values
    Destination,    \* digests of destination manifests
    None,           \* no binding yet
    Held            \* the snapshots a client may hold, in some order

Entry == [component_id : Component, digest : Destination]

(* What verify_snapshot hands out: its entries name no component twice.    *)
VerifiedSnapshot ==
    {s \in [provider_id : Provider, entries : Seq(Entry)] :
        \A a, b \in DOMAIN s.entries :
            s.entries[a].component_id = s.entries[b].component_id => a = b}

ASSUME ConflictsAssumption ==
    Held \subseteq Seq(VerifiedSnapshot) /\ None \notin Destination

VARIABLES
    check,          \* "catalogs" or "sources": the function called
    held,           \* its argument: verified snapshots
    i, j,           \* the entry the scan looks at
    bindings,       \* first digest seen of each component
    conflicted,     \* components seen with another digest
    verdict         \* the result, or how far the call is

vars == <<check, held, i, j, bindings, conflicted, verdict>>
input == <<check, held>>

Verdict == {"NoConflict", "Conflicts", "DifferentProviders"}

TypeOK ==
    /\ check \in {"catalogs", "sources"}
    /\ held \in Seq(VerifiedSnapshot)
    /\ i \in Nat \ {0} /\ j \in Nat \ {0}
    /\ bindings \in [Component -> Destination \cup {None}]
    /\ conflicted \subseteq Component
    /\ verdict \in Verdict \cup {"called", "scanning"}

(* source_conflicts compares two sources, whoever provides them.           *)
Init ==
    /\ check \in {"catalogs", "sources"} /\ held \in Held
    /\ check = "sources" => Len(held) = 2
    /\ i = 1 /\ j = 1
    /\ bindings = [c \in Component |-> None]
    /\ conflicted = {}
    /\ verdict = IF check = "sources" THEN "scanning" ELSE "called"

-----------------------------------------------------------------------------
(* Seeded defect: only the second is compared with the first.              *)
one_provider_first_two ==
    2 \in DOMAIN held => held[2].provider_id = held[1].provider_id

one_provider ==
    \A a \in DOMAIN held : held[a].provider_id = held[1].provider_id

(* cross_catalog_equivocation looks at the providers first.                *)
CompareProviders ==
    /\ verdict = "called"
    /\ verdict' = IF one_provider THEN "scanning" ELSE "DifferentProviders"
    /\ UNCHANGED <<input, i, j, bindings, conflicted>>

(* Seeded defect: a component not seen before counts as a conflict.        *)
conflicts_unbound(e) == bindings[e.component_id] # e.digest

(* Some(digest) if *digest != entry.manifest.digest.                       *)
conflicts(e) == bindings[e.component_id] \notin {None, e.digest}

(* One turn of the inner loop.                                             *)
ScanEntry ==
    /\ verdict = "scanning"
    /\ i <= Len(held) /\ j <= Len(held[i].entries)
    /\ LET e == held[i].entries[j] IN
          IF conflicts(e)
            THEN /\ conflicted' = conflicted \cup {e.component_id}
                 /\ UNCHANGED bindings
            ELSE /\ bindings' = [bindings EXCEPT ![e.component_id] = e.digest]
                 /\ UNCHANGED conflicted
    /\ j' = j + 1
    /\ UNCHANGED <<input, i, verdict>>

(* Seeded defect: every set starts with no bindings.                       *)
NextSet_fresh ==
    /\ verdict = "scanning"
    /\ i <= Len(held) /\ j > Len(held[i].entries)
    /\ i' = i + 1 /\ j' = 1
    /\ bindings' = [c \in Component |-> None]
    /\ UNCHANGED <<input, conflicted, verdict>>

(* Seeded defect: the next set is entered before its first entry.          *)
NextSet_zero ==
    /\ verdict = "scanning"
    /\ i <= Len(held) /\ j > Len(held[i].entries)
    /\ i' = i + 1 /\ j' = 0
    /\ UNCHANGED <<input, bindings, conflicted, verdict>>

NextSet ==
    /\ verdict = "scanning"
    /\ i <= Len(held) /\ j > Len(held[i].entries)
    /\ i' = i + 1 /\ j' = 1
    /\ UNCHANGED <<input, bindings, conflicted, verdict>>

Return ==
    /\ verdict = "scanning" /\ i > Len(held)
    /\ verdict' = IF conflicted = {} THEN "NoConflict" ELSE "Conflicts"
    /\ UNCHANGED <<input, i, j, bindings, conflicted>>

Next == CompareProviders \/ ScanEntry \/ NextSet \/ Return

Spec == Init /\ [][Next]_vars

-----------------------------------------------------------------------------
(* Fetched bytes, by their digest, against the digest an entry pins.       *)

verify_destination(bytes, pinned_digest) ==
    IF ~bytes.fits THEN "entry_manifest_unavailable"
    ELSE IF bytes.digest # pinned_digest THEN "entry_manifest_mismatch"
    ELSE "ok"

-----------------------------------------------------------------------------
(* Properties                                                              *)

(* Where the entries of the argument are.                                  *)
Position == UNION {{a} \X DOMAIN held[a].entries : a \in DOMAIN held}
EntryAt(p) == held[p[1]].entries[p[2]]

(* Two of the entries bind c to different digests.                         *)
Disagree(P, c) ==
    \E p, q \in P : /\ EntryAt(p).component_id = c
                    /\ EntryAt(q).component_id = c
                    /\ EntryAt(p).digest # EntryAt(q).digest

(* Detection is complete and accuses nobody wrongly: after the scan the    *)
(* conflicted components are exactly those bound to more than one digest   *)
(* by any two snapshots, however many bindings there are and in whatever   *)
(* order, although only the first digest of each is remembered.            *)
ConflictsExact ==
    verdict \in {"NoConflict", "Conflicts"} =>
        conflicted = {c \in Component : Disagree(Position, c)}

(* A verdict of NoConflict means what a user takes it to mean: whichever   *)
(* catalog of the provider an entry was found in, the same fetched bytes   *)
(* pass or fail for the same reason.                                       *)
NoConflictIsUniform ==
    verdict = "NoConflict" =>
        \A p, q \in Position, fits \in BOOLEAN, d \in Destination :
            LET bytes == [fits |-> fits, digest |-> d] IN
            EntryAt(p).component_id = EntryAt(q).component_id =>
                verify_destination(bytes, EntryAt(p).digest)
                    = verify_destination(bytes, EntryAt(q).digest)

(* Disagreement between providers is never reported as equivocation of     *)
(* one, and the cross-catalog check never keeps silent about a span of     *)
(* providers.                                                              *)
ProvidersToldApart ==
    (check = "catalogs" /\ verdict \in Verdict) =>
        (verdict = "DifferentProviders"
            <=> \E a, b \in DOMAIN held :
                    held[a].provider_id # held[b].provider_id)
=============================================================================
