---------------------------- MODULE SnapshotLog ----------------------------
(***************************************************************************)
(* What the directory of an operator who runs build-snapshot promises,     *)
(* with no files, crashes or repeated commands: one snapshot per number is *)
(* retained for good, linked to the one before it unless it was built from *)
(* a predecessor taken from elsewhere, and only retained snapshots go on   *)
(* line.                                                                   *)
(***************************************************************************)
EXTENDS Naturals

CONSTANTS
    Number,     \* sequence numbers, from 1
    Snapshot,   \* records with at least sequence, digest, previous_digest
    None

VARIABLES
    log,        \* log[n]: the snapshot retained under n, or None
    online,     \* every snapshot ever put on line
    foreign     \* snapshots built from a predecessor not in the log

vars == <<log, online, foreign>>

Init == log = [n \in Number |-> None] /\ online = {} /\ foreign = {}

(* s is built from a predecessor the log does not hold.                    *)
BuildElsewhere(s) == foreign' = foreign \cup {s} /\ UNCHANGED <<log, online>>

(* Retain s under its own number, which is free, and, unless it was built  *)
(* elsewhere, after its predecessor.                                       *)
Retain(s) ==
    /\ log[s.sequence] = None
    /\ (s.sequence > 1 /\ s \notin foreign) =>
          /\ log[s.sequence - 1] # None
          /\ s.previous_digest = log[s.sequence - 1].digest
    /\ log' = [log EXCEPT ![s.sequence] = s]
    /\ UNCHANGED <<online, foreign>>

GoOnline(s) ==
    /\ log[s.sequence] = s
    /\ online' = online \cup {s}
    /\ UNCHANGED <<log, foreign>>

Next == \E s \in Snapshot : BuildElsewhere(s) \/ Retain(s) \/ GoOnline(s)

Spec == Init /\ [][Next]_vars
=============================================================================
