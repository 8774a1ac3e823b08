-------------------------- MODULE SnapshotPublisher -------------------------
(***************************************************************************)
(* `onym-discovery build-snapshot` on the directory an operator publishes  *)
(* from (src/src/main.rs): two immutable retention siblings, then the two  *)
(* mutable latest files, each write a truncation followed by the bytes.    *)
(* A run may die between any two of these steps, and the operator chooses  *)
(* freely what to build: with or without --previous, at any time, and from *)
(* any predecessor, be it a file of this directory or one fetched from the *)
(* live site.                                                              *)
(*                                                                         *)
(* A .sig file holds the 64 signature bytes of one document; it is         *)
(* represented by that document.                                           *)
(***************************************************************************)
EXTENDS SnapshotBuilder

CONSTANTS
    Builder,        \* concurrent build-snapshot processes
    Config,         \* configs an operator builds from
    Time,           \* values of --generated-at
    OperatorKey,    \* the seed's key
    Torn,           \* contents of a file written only in part
    MaxSequence     \* bound: longest chain built

ASSUME PublisherAssumption ==
    /\ Config \subseteq SnapshotConfig
    /\ Time \subseteq Nat /\ OperatorKey \in Key
    /\ Torn \notin SnapshotDoc /\ Torn # None
    /\ None \notin SnapshotDoc
    /\ MaxSequence \in Nat /\ MaxSequence < U64

(* SnapshotDoc holds every snapshot the operator could build.              *)
ASSUME BuildAssumption ==
    /\ \A d \in SnapshotDoc : d.sequence \in 1 .. MaxSequence
    /\ \A config \in Config, at \in Time, previous \in SnapshotDoc \cup {None} :
          LET d == build_snapshot(config, previous, at, OperatorKey) IN
          d = None \/ d.sequence > MaxSequence \/ d \in SnapshotDoc

VARIABLES
    fs,             \* contents of each file: a document, Torn, or None
    job,            \* job[b]: the run b is in, or None
    published,      \* history: documents put on line from this directory
    foreign         \* history: documents some run built from a predecessor
                    \* the directory did not hold at that moment

vars == <<fs, job, published, foreign>>

(* One file name per role and, for siblings, per sequence.                 *)
Latest == <<"latest", 0>>
LatestSig == <<"latest_sig", 0>>
Sibling(n) == <<"sibling", n>>
SiblingSig(n) == <<"sibling_sig", n>>

File == {Latest, LatestSig}
          \cup {Sibling(n) : n \in 1 .. MaxSequence}
          \cup {SiblingSig(n) : n \in 1 .. MaxSequence}

Document == {Latest} \cup {Sibling(n) : n \in 1 .. MaxSequence}

(* Seeded defect: the latest files are written before the siblings.        *)
path_latest_first(j) ==
    <<Latest, LatestSig, Sibling(j.doc.sequence),
      SiblingSig(j.doc.sequence)>>[j.step]

(* The files of a run in the order it writes them; the first two are       *)
(* written by write_immutable.                                             *)
path(j) ==
    <<Sibling(j.doc.sequence), SiblingSig(j.doc.sequence), Latest,
      LatestSig>>[j.step]

TypeOK ==
    /\ fs \in [File -> SnapshotDoc \cup {None, Torn}]
    /\ job \in [Builder -> {None} \cup
                   [doc : SnapshotDoc, step : 1 .. 4,
                    phase : {"check", "truncate", "fill"}, calm : BOOLEAN]]
    /\ published \subseteq SnapshotDoc
    /\ foreign \subseteq SnapshotDoc

Init ==
    /\ fs = [f \in File |-> None]
    /\ job = [b \in Builder |-> None]
    /\ published = {}
    /\ foreign = {}

(* --previous is any path: what it holds is any snapshot, from here or     *)
(* from elsewhere.  A file that is missing or torn does not parse, and     *)
(* that run ends before it writes.                                         *)
Previous == {None} \cup SnapshotDoc

(* The snapshots the directory itself holds.                               *)
held == {fs[f] : f \in Document}

(* Read the config and --previous, build and sign in memory.  Nothing      *)
(* interrupts a calm run.                                                  *)
Build(b, config, previous, at, calm) ==
    LET doc == build_snapshot(config, previous, at, OperatorKey) IN
    /\ job[b] = None
    /\ doc # None
    /\ doc.sequence <= MaxSequence
    /\ job' = [job EXCEPT ![b] = [doc |-> doc, step |-> 1, phase |-> "check",
                                 calm |-> calm]]
    /\ foreign' = IF previous \in {None} \cup held THEN foreign
                  ELSE foreign \cup {doc}
    /\ UNCHANGED <<fs, published>>

(* Seeded defect: the run does not end with the fourth file.               *)
next_step_endless(j) ==
    [j EXCEPT !.step = j.step + 1,
              !.phase = IF j.step = 1 THEN "check" ELSE "truncate"]

(* What follows the file just written or found in place: siblings are      *)
(* checked first, the latest files are simply written.                     *)
next_step(j) ==
    IF j.step = 4 THEN None
    ELSE [j EXCEPT !.step = j.step + 1,
                   !.phase = IF j.step = 1 THEN "check" ELSE "truncate"]

(* Seeded defect: a file that exists is taken for the one to be written.   *)
write_immutable_any(b) ==
    LET j == job[b] IN
    /\ j # None /\ j.phase = "check"
    /\ job' = [job EXCEPT ![b] =
          IF fs[path(j)] # None THEN next_step(j)
          ELSE [j EXCEPT !.phase = "truncate"]]
    /\ UNCHANGED <<fs, published, foreign>>

(* Seeded defect: a file that differs is overwritten.                      *)
write_immutable_over(b) ==
    LET j == job[b] IN
    /\ j # None /\ j.phase = "check"
    /\ job' = [job EXCEPT ![b] =
          IF fs[path(j)] = j.doc THEN next_step(j)
          ELSE [j EXCEPT !.phase = "truncate"]]
    /\ UNCHANGED <<fs, published, foreign>>

(* Seeded defect: a file that exists is refused, equal bytes or not.       *)
write_immutable_once(b) ==
    LET j == job[b] IN
    /\ j # None /\ j.phase = "check"
    /\ job' = [job EXCEPT ![b] = IF fs[path(j)] # None THEN None
                                ELSE [j EXCEPT !.phase = "truncate"]]
    /\ UNCHANGED <<fs, published, foreign>>

(* write_immutable: read the file, then compare.  Equal bytes are a no-op, *)
(* other bytes end the run, a missing file is written next.                *)
write_immutable(b) ==
    LET j == job[b] IN
    /\ j # None /\ j.phase = "check"
    /\ \/ /\ fs[path(j)] = j.doc
          /\ job' = [job EXCEPT ![b] = next_step(j)]
       \/ /\ fs[path(j)] = None
          /\ job' = [job EXCEPT ![b].phase = "truncate"]
       \/ /\ fs[path(j)] \notin {None, j.doc}
          /\ job' = [job EXCEPT ![b] = None]
    /\ UNCHANGED <<fs, published, foreign>>

(* std::fs::write: open with truncation, then write.                       *)
Truncate(b) ==
    LET j == job[b] IN
    /\ j # None /\ j.phase = "truncate"
    /\ fs' = [fs EXCEPT ![path(j)] = Torn]
    /\ job' = [job EXCEPT ![b].phase = "fill"]
    /\ UNCHANGED <<published, foreign>>

Fill(b) ==
    LET j == job[b] IN
    /\ j # None /\ j.phase = "fill"
    /\ fs' = [fs EXCEPT ![path(j)] = j.doc]
    /\ job' = [job EXCEPT ![b] = next_step(j)]
    /\ UNCHANGED <<published, foreign>>

(* The process dies where it stands; what it wrote stays.                  *)
Crash(b) ==
    /\ job[b] # None /\ ~job[b].calm
    /\ job' = [job EXCEPT ![b] = None]
    /\ UNCHANGED <<fs, published, foreign>>

Idle == \A b \in Builder : job[b] = None

(* After a refusal the operator follows the message for a sibling that was *)
(* never published, because it was never finished: removes the file.       *)
RemoveTorn(n) ==
    /\ Idle
    /\ \E f \in {Sibling(n), SiblingSig(n)} :
          fs[f] = Torn /\ fs' = [fs EXCEPT ![f] = None]
    /\ UNCHANGED <<job, published, foreign>>

(* The embedded and the detached signature agree.                          *)
verify_detached_sig(document, sig_file) ==
    document \notin {None, Torn} /\ sig_file = document

(* The directory goes on line; the verify gate checks the latest pair.     *)
Publish ==
    /\ Idle
    /\ verify_detached_sig(fs[Latest], fs[LatestSig])
    /\ published' = published \cup {fs[Latest]}
    /\ UNCHANGED <<fs, job, foreign>>

Step(b) == write_immutable(b) \/ Truncate(b) \/ Fill(b) \/ Crash(b)

Next ==
    \/ \E b \in Builder, config \in Config, at \in Time, calm \in BOOLEAN :
          \E previous \in Previous : Build(b, config, previous, at, calm)
    \/ \E b \in Builder : Step(b)
    \/ \E n \in 1 .. MaxSequence : RemoveTorn(n)
    \/ Publish

(* The operator repeats a run whose siblings nothing contradicts, with the *)
(* original time and predecessor, and it is left alone.                    *)
Retry(b, config, previous, at) ==
    LET doc == build_snapshot(config, previous, at, OperatorKey) IN
    /\ Build(b, config, previous, at, TRUE)
    /\ {fs[Sibling(doc.sequence)], fs[SiblingSig(doc.sequence)]}
          \subseteq {None, doc}

(* A run goes on until it ends; the operator removes torn siblings and     *)
(* repeats what did not work, and is not interrupted every time.           *)
Fairness ==
    /\ WF_vars(\E b \in Builder : Step(b))
    /\ \A n \in 1 .. MaxSequence : SF_vars(RemoveTorn(n))
    /\ SF_vars(\E b \in Builder, config \in Config, at \in Time :
          \E previous \in Previous : Retry(b, config, previous, at))

Spec == Init /\ [][Next]_vars /\ Fairness

-----------------------------------------------------------------------------
(* Properties                                                              *)

(* A retention sibling names one snapshot forever: once its bytes are      *)
(* complete no run, refused, crashed or finished, changes them             *)
(* (main.rs, write_immutable).                                             *)
SiblingNeverRewritten ==
    [][\A n \in 1 .. MaxSequence : \A f \in {Sibling(n), SiblingSig(n)} :
          fs[f] \in SnapshotDoc => fs'[f] = fs[f]]_fs

(* The latest snapshot is always retained: whenever latest holds complete  *)
(* bytes, crash or not, both siblings of its sequence hold the same ones   *)
(* (siblings are written first).                                           *)
LatestIsRetained ==
    LET d == fs[Latest] IN
    d \in SnapshotDoc =>
        fs[Sibling(d.sequence)] = d /\ fs[SiblingSig(d.sequence)] = d

(* Whatever the operator builds from, forgets or repeats, and wherever     *)
(* runs die, one directory never puts two snapshots on line under one      *)
(* sequence number.                                                        *)
PublishedForkFree ==
    \A d, e \in published : d.sequence = e.sequence => d = e

(* Published neighbours are linked, also if the operator forgot --previous *)
(* or passed an older snapshot in between, and a run died and was repeated *)
(* with other arguments: the only way to break a link is to build from a   *)
(* predecessor this directory did not hold.  A directory emptied before    *)
(* every build (the deploy's out/) holds no predecessor, and this promises *)
(* it nothing: there the link is the verify gate's (ChainDeployment).      *)
PublishedNeighboursChain ==
    \A d \in published, e \in published \ foreign :
        e.sequence = d.sequence + 1 => e.previous_digest = d.digest

(* Whatever dead runs left behind, repeating the build leads to a latest   *)
(* snapshot and .sig that the verify gate accepts, without a fork.         *)
Recovers == []<>verify_detached_sig(fs[Latest], fs[LatestSig])

(* "A builder must not emit entries a conforming verifier would skip":     *)
(* every entry of a snapshot about to be written survives decode_entry.    *)
NoBuiltEntrySkipped ==
    \A b \in Builder :
        job[b] # None => surviving(job[b].doc) = DOMAIN job[b].doc.entries
(* The snapshots retained: what the complete siblings hold.                *)
Retained == [n \in 1 .. MaxSequence |->
                IF fs[Sibling(n)] \in SnapshotDoc THEN fs[Sibling(n)] ELSE None]

Log == INSTANCE SnapshotLog WITH
    Number <- 1 .. MaxSequence, Snapshot <- SnapshotDoc,
    log <- Retained, online <- published, foreign <- foreign

(* The directory implements the log it promises: files appear truncated,   *)
(* are filled, compared and removed, runs die and are repeated, and all of *)
(* it retains snapshots one by one, linked to the one retained before them *)
(* unless they were built from elsewhere, and puts retained ones on line   *)
(* (main.rs, build-snapshot).                                              *)
ImplementsSnapshotLog == Log!Spec
=============================================================================
