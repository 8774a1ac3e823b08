------------------------------- MODULE MCDesk -------------------------------
(***************************************************************************)
(* Two possible operator keys, a draft that names each, one of them signed *)
(* before by the other, and a draft with a repeated key.                   *)
(***************************************************************************)
EXTENDS OperatorDesk

CONSTANTS p1, c1, pol1, k1, k2, proc

Naming(operator, signer, dup_keys) ==
    [in_profile |-> TRUE, dup_keys |-> dup_keys, signer |-> signer,
     provider_id |-> p1, operator |-> operator, valid_until |-> 1,
     catalogs |-> <<[catalog_id |-> c1, fields_valid |-> TRUE,
                     seat_types |-> <<"*">>, public |-> TRUE,
                     policy |-> pol1]>>,
     privacy_ok |-> TRUE]

MCDraft == {Naming(k1, None, FALSE), Naming(k2, k1, FALSE),
            Naming(k1, None, TRUE)}

MCManifestDoc == MCDraft \cup {[d EXCEPT !.signer = k] : d \in MCDraft, k \in Key}
=============================================================================
