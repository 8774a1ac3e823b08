--------------------------- MODULE AcceptedChain ---------------------------
(***************************************************************************)
(* What a client of the static-snapshot profile promises its user, with no *)
(* documents, keys, clocks or policies: per source, the sequence numbers   *)
(* it accepts only grow, each names one snapshot for good, and a snapshot  *)
(* that directly follows the current one must chain onto it.               *)
(***************************************************************************)
EXTENDS Naturals

CONSTANTS
    Source,     \* sources a client follows
    Number,     \* sequence numbers
    Block,      \* snapshot digests
    Link,       \* Link[d]: the previous digest the snapshot d carries
    None

VARIABLES
    head,       \* head[k]: the current [sequence, digest] of k, or None
    ledger      \* every <<k, n, d>> ever made current

vars == <<head, ledger>>

Init == head = [k \in Source |-> None] /\ ledger = {}

(* Make d the current snapshot of k, under number n.                       *)
Advance(k, n, d) ==
    /\ head[k] # None =>
          /\ n > head[k].sequence
          /\ n = head[k].sequence + 1 => Link[d] = head[k].digest
    /\ head' = [head EXCEPT ![k] = [sequence |-> n, digest |-> d]]
    /\ ledger' = ledger \cup {<<k, n, d>>}

Next == \E k \in Source, n \in Number, d \in Block : Advance(k, n, d)

Spec == Init /\ [][Next]_vars
=============================================================================
