-------------------------- MODULE ChainDeployment --------------------------
(***************************************************************************)
(* One publish after another of deploy/onym: ci-assemble.sh fetches the    *)
(* live snapshot, decides between chaining and genesis, builds or adopts a *)
(* snapshot and verifies it; ci-deploy.sh uploads file by file, brings up  *)
(* the vhost and only then moves the DNS record.  deploy.yml serializes    *)
(* the runs.  A run may die between any two steps, for any reason.         *)
(*                                                                         *)
(* Genesis and skip_signing are inputs of each run.  What may happen       *)
(* beyond failing fetches and dying runs is chosen with Adverse.           *)
(***************************************************************************)
EXTENDS SnapshotBuilder

CONSTANTS
    Host,           \* machines the name may resolve to
    Droplet,        \* the one this repository deploys to
    Record,         \* identifiers of A records in the Cloudflare zone
    Config,         \* the committed config
    Manifest,       \* the provider manifest published with every snapshot
    Signed,         \* trees that may be committed under deploy/onym/signed
    Live,           \* chains another machine may serve already: its latest
    FirstWeb,       \* what the droplet may answer before the first deploy
    Time,           \* clock readings
    OperatorKey,
    SIBLING_BACKFILL_MAX,
    MaxSequence,    \* bound: longest chain published
    MaxRecords,     \* bound: A records the name has at first
    Adverse         \* environment events allowed, see below

(* "cf": the Cloudflare zone cannot be queried; "probe": the droplet does  *)
(* not answer the direct probe although it serves; "certificate": the      *)
(* certificate of an earlier deploy is issued while a later run is busy;   *)
(* "genesis": genesis is declared although another machine serves a chain; *)
(* "mixed": at first, records lead to the droplet and to another machine;  *)
(* "stale": they come to, because a run died between moving one and        *)
(* deleting the others, or because a DELETE was refused.                   *)
ASSUME DeploymentAssumption ==
    /\ Droplet \in Host /\ Config \in SnapshotConfig
    /\ Manifest \in ManifestDoc
    /\ Live \subseteq SnapshotDoc
    /\ FirstWeb \subseteq {"down", "http", "https"}
    /\ Adverse \subseteq {"cf", "probe", "certificate", "genesis", "mixed",
                     "stale"}
    /\ SIBLING_BACKFILL_MAX \in Nat \ {0}
    /\ MaxSequence \in Nat /\ MaxSequence < U64 /\ MaxRecords \in Nat
    /\ None \notin Host
    /\ None \notin SnapshotDoc /\ Time \subseteq Nat

(* SnapshotDoc holds every snapshot a run could build.                     *)
ASSUME BuildAssumption ==
    /\ \A d \in SnapshotDoc : d.sequence \in 1 .. MaxSequence
    /\ \A at \in Time, previous \in SnapshotDoc \cup {None} :
          LET d == build_snapshot(Config, previous, at, OperatorKey) IN
          d = None \/ d.sequence > MaxSequence \/ d \in SnapshotDoc

VARIABLES
    site,           \* site[h][f]: the snapshot file f that h holds, or None
    web,            \* web[h]: "down", "http" (vhost, no certificate), "https"
    records,        \* records[i]: the host A record i points to, or None
    run,            \* the publish in progress, or None
    observed        \* history: latest snapshots clients have been served

vars == <<site, web, records, run, observed>>

listed == {i \in Record : records[i] # None}
pointed == {records[i] : i \in listed}

(* Every A record points at this deploy's own droplet.                     *)
ours == pointed \subseteq {Droplet}

Latest == <<"latest", 0>>
Sibling(n) == <<"sibling", n>>
File == {Latest} \cup {Sibling(n) : n \in 1 .. MaxSequence}
Tree == [File -> SnapshotDoc \cup {None}]
NoFiles == [f \in File |-> None]

(* A run that adopts signed/ without a latest snapshot aborts at once.     *)
ASSUME SignedAssumption ==
    Signed \subseteq {t \in Tree : t[Latest] # None}

(* Files of `over` copied on top of those of `tree`.                       *)
Overlay(tree, over) ==
    [f \in File |-> IF over[f] = None THEN tree[f] ELSE over[f]]

(* The latest snapshot beside its own sibling, as build-snapshot leaves    *)
(* them in an empty directory.                                             *)
BuiltTree(s) == [NoFiles EXCEPT ![Latest] = s, ![Sibling(s.sequence)] = s]

(* A publish: how far it is, its inputs, the snapshot it chains onto, what *)
(* it assembled, the files to upload, the records to delete.               *)
Run == [pc : {"fetch", "sign", "upload", "dns", "extras", "health"},
        genesis : BOOLEAN, committed : Signed \cup {None},
        prev : SnapshotDoc \cup {None}, tree : Tree,
        todo : SUBSET File, extras : SUBSET Record]

ASSUME RunAssumption == None \notin Run

TypeOK ==
    /\ site \in [Host -> Tree]
    /\ web \in [Host -> {"down", "http", "https"}]
    /\ records \in [Record -> Host \cup {None}]
    /\ run = None \/
          /\ run \in Run
          /\ run.todo \subseteq {f \in File : run.tree[f] # None}
    /\ observed \subseteq SnapshotDoc

(* Before the first deploy the name leads nowhere, to another machine, or  *)
(* already to the droplet, which serves none of the files: no vhost yet,   *)
(* or one that the droplet's own stack provides, with or without a         *)
(* certificate (deploy/onym/README.md, "Prerequisites").                   *)
Init ==
    /\ run = None /\ observed = {}
    /\ web \in {[h \in Host |-> IF h = Droplet THEN w ELSE "https"] :
                   w \in FirstWeb}
    /\ records \in [Record -> Host \cup {None}]
    /\ Cardinality(listed) <= MaxRecords
    /\ Droplet \notin pointed \/ ours \/ "mixed" \in Adverse
    /\ site \in {[h \in Host |->
                      IF h \in pointed \ {Droplet} THEN t ELSE NoFiles] :
                    t \in {NoFiles} \cup {BuiltTree(s) : s \in Live}}

Goto(pc) == run' = [run EXCEPT !.pc = pc]
At(pc) == run # None /\ run.pc = pc

(* The workflow is dispatched; a second dispatch waits for this one.       *)
Dispatch(genesis, committed) ==
    /\ run = None
    /\ genesis => \/ "genesis" \in Adverse
                  \/ \A h \in Host \ {Droplet} : site[h][Latest] = None
    /\ run' = [pc |-> "fetch", genesis |-> genesis, committed |-> committed,
               prev |-> None, tree |-> NoFiles, todo |-> {}, extras |-> {}]
    /\ UNCHANGED <<site, web, records, observed>>

(* Any step of a run may fail, or its machine may die.                     *)
Abort ==
    /\ run # None /\ run' = None
    /\ run.extras = {} \/ "stale" \in Adverse
    /\ UNCHANGED <<site, web, records, observed>>

-----------------------------------------------------------------------------
(* ci-assemble.sh: the previous snapshot                                   *)

(* cf_a_records: records exist (0), there are none (1), unavailable (2).   *)
cf_a_records ==
    {IF listed = {} THEN 1 ELSE 0} \cup (IF "cf" \in Adverse THEN {2} ELSE {})

(* The machines that may answer to the name: without a record of its own,  *)
(* those a wildcard record of the domain leads to.                         *)
answering == IF listed = {} THEN Host \ {Droplet} ELSE pointed

Serves(h) == web[h] = "https" /\ site[h][Latest] # None

(* The probe of the droplet's own address answers 200.                     *)
probe_200 == {Serves(Droplet)} \cup (IF "probe" \in Adverse THEN {FALSE} ELSE {})

(* Proceed with sequence 1.                                                *)
StartGenesis ==
    /\ Goto("sign")
    /\ UNCHANGED <<site, web, records, observed>>

(* curl exit 6: the name did not resolve.                                  *)
GenesisUnresolved ==
    /\ At("fetch") /\ run.genesis
    /\ \E cf \in cf_a_records : cf # 0
    /\ StartGenesis

(* Seeded defect: the direct probe is left out.                            *)
genesis_recovery_unprobed(cf, probed) == cf = 0 /\ ours

(* genesis_recovery_or_die, where it does not die.                         *)
genesis_recovery(cf, probed) == cf = 0 /\ ours /\ ~probed

(* The name did not resolve although there is a record, or it resolved and *)
(* the fetch failed or answered with an unexpected status.  DROPLET_IP is  *)
(* set; without it the run aborts.                                         *)
GenesisRecovery ==
    /\ At("fetch") /\ run.genesis
    /\ \E cf \in cf_a_records, probed \in probe_200 :
          genesis_recovery(cf, probed)
    /\ StartGenesis

(* A clean 404 from a host that serves the name without a snapshot.        *)
Genesis404 ==
    /\ At("fetch") /\ run.genesis
    /\ \E h \in answering : web[h] = "https" /\ site[h][Latest] = None
    /\ \E cf \in cf_a_records : cf = 0 => ours
    /\ StartGenesis

(* Seeded defect: the predecessor's bytes are not kept.                    *)
kept_unpinned(h, prev, found) ==
    [f \in File |->
        IF \E n \in found : f = Sibling(n) THEN site[h][f] ELSE None]

(* The siblings assembled beside the new snapshot: the predecessor from    *)
(* the exact bytes fetched, and those older ones that could be fetched.    *)
kept(h, prev, found) ==
    [f \in File |->
        IF f = Sibling(prev.sequence) THEN prev
        ELSE IF \E n \in found : f = Sibling(n) THEN site[h][f] ELSE None]

backfill(prev) ==
    {n \in 1 .. prev.sequence - 1 :
        n > prev.sequence - SIBLING_BACKFILL_MAX}

(* The live snapshot was fetched; genesis would be refused.                *)
ChainOntoLive ==
    /\ At("fetch") /\ ~run.genesis
    /\ \E h \in answering :
          /\ Serves(h)
          /\ \E found \in SUBSET backfill(site[h][Latest]) :
                run' = [run EXCEPT
                          !.pc = "sign",
                          !.prev = site[h][Latest],
                          !.tree = kept(h, site[h][Latest], found)]
    /\ UNCHANGED <<site, web, records, observed>>

-----------------------------------------------------------------------------
(* ci-assemble.sh: sign or adopt, verify, lay out                          *)

(* Seeded defect: the gate verifies without the previous snapshot.         *)
verify_gate_unchained(s, prev, now) ==
    verify_snapshot(s, Manifest, None, now) \in Accepting

(* `verify manifest` and `verify snapshot --previous`, as a client would,  *)
(* but without --previous-policy.                                          *)
verify_gate(s, prev, now) ==
    LET r == IF prev = None THEN None ELSE from_snapshot_bytes(prev, None) IN
    /\ verify_manifest(Manifest, now) = "ok"
    /\ prev # None => r # None
    /\ verify_snapshot(s, Manifest, r, now) \in Accepting

(* Seeded defect: rsync --delete, every name is touched.                  *)
to_upload_all(tree) == File

to_upload(tree) == {f \in File : tree[f] # None}

LayOut(out, now) ==
    /\ verify_gate(out[Latest], run.prev, now)
    /\ run' = [run EXCEPT
          !.pc = "upload",
          !.tree = Overlay(run.tree, out),
          !.todo = to_upload(Overlay(run.tree, out))]
    /\ UNCHANGED <<site, web, records, observed>>

(* A new snapshot is built in an empty out/ from what was fetched.         *)
SignInCI(now) ==
    LET s == build_snapshot(Config, run.prev, now, OperatorKey) IN
    /\ At("sign") /\ run.committed = None
    /\ s # None /\ s.sequence <= MaxSequence
    /\ LayOut(BuiltTree(s), now)

(* skip_signing: everything committed under signed/ is laid out.           *)
AdoptSigned(now) ==
    /\ At("sign") /\ run.committed # None
    /\ LayOut(run.committed, now)

-----------------------------------------------------------------------------
(* ci-deploy.sh                                                            *)

(* rsync without --delete; each file lands at once, the order is left open.*)
Upload(f) ==
    /\ At("upload") /\ f \in run.todo
    /\ site' = [site EXCEPT ![Droplet][f] = run.tree[f]]
    /\ run' = [run EXCEPT !.todo = @ \ {f}]
    /\ UNCHANGED <<web, records, observed>>

(* Seeded defect: nothing confirms that the vhost answers.                 *)
EnsureVhost_unconfirmed ==
    /\ At("upload") /\ run.todo = {}
    /\ Goto("dns")
    /\ UNCHANGED <<site, web, records, observed>>

(* ensure-caddy-vhost.sh, and the probe that must see the vhost answer.    *)
EnsureVhost ==
    /\ At("upload") /\ run.todo = {}
    /\ web' = [web EXCEPT ![Droplet] = IF @ = "down" THEN "http" ELSE @]
    /\ Goto("dns")
    /\ UNCHANGED <<site, records, observed>>

(* Seeded defect: the records beside the first one are left alone.         *)
UpsertRecord_keeps_extras ==
    /\ At("dns")
    /\ run' = [run EXCEPT !.pc = "extras"]
    /\ \E i \in IF listed = {} THEN Record ELSE listed :
          \E h \in {Droplet, records[i]} :
             records' = [records EXCEPT ![i] = h]
    /\ UNCHANGED <<site, web, observed>>

(* PUT over the record listed first, or POST a new one.  Neither call     *)
(* notices that Cloudflare refused it.                                     *)
UpsertRecord ==
    /\ At("dns")
    /\ \/ /\ listed = {} /\ run' = [run EXCEPT !.pc = "extras"]
          /\ \E i \in Record, h \in {Droplet, None} :
                records' = [records EXCEPT ![i] = h]
       \/ \E i \in listed :
             /\ run' = [run EXCEPT !.pc = "extras", !.extras = listed \ {i}]
             /\ \E h \in {Droplet, records[i]} :
                   records' = [records EXCEPT ![i] = h]
    /\ UNCHANGED <<site, web, observed>>

(* DELETE of a record that was listed beside the first; it may be refused. *)
DeleteExtra ==
    /\ At("extras")
    /\ \E i \in run.extras :
          /\ run' = [run EXCEPT !.extras = @ \ {i}]
          /\ \E h \in {None} \cup
                   (IF "stale" \in Adverse THEN {records[i]} ELSE {}) :
                records' = [records EXCEPT ![i] = h]
    /\ UNCHANGED <<site, web, observed>>

(* Waiting for the record to propagate ends in a warning at worst.         *)
AwaitHealth ==
    /\ At("extras") /\ run.extras = {}
    /\ Goto("health")
    /\ UNCHANGED <<site, web, records, observed>>

(* The live bytes are the bytes assembled: the run succeeds.               *)
Health ==
    /\ At("health")
    /\ \E h \in answering :
          Serves(h) /\ site[h][Latest] = run.tree[Latest]
    /\ run' = None
    /\ UNCHANGED <<site, web, records, observed>>

-----------------------------------------------------------------------------
(* The environment                                                         *)

(* Caddy obtains its certificate once the name points at the droplet.      *)
IssueCertificate ==
    /\ web[Droplet] = "http" /\ Droplet \in pointed
    /\ (\E pc \in {"fetch", "sign", "upload"} : At(pc))
           => "certificate" \in Adverse
    /\ web' = [web EXCEPT ![Droplet] = "https"]
    /\ UNCHANGED <<site, records, run, observed>>

(* A client fetches the snapshot the name leads to.                        *)
ClientFetch ==
    /\ \E h \in pointed :
          Serves(h) /\ observed' = observed \cup {site[h][Latest]}
    /\ UNCHANGED <<site, web, records, run>>

Next ==
    \/ \E genesis \in BOOLEAN, committed \in Signed \cup {None} :
          Dispatch(genesis, committed)
    \/ Abort
    \/ GenesisUnresolved
    \/ GenesisRecovery
    \/ Genesis404
    \/ ChainOntoLive
    \/ \E now \in Time : SignInCI(now) \/ AdoptSigned(now)
    \/ \E f \in File : Upload(f)
    \/ EnsureVhost
    \/ UpsertRecord
    \/ DeleteExtra
    \/ AwaitHealth
    \/ Health
    \/ IssueCertificate
    \/ ClientFetch

Spec == Init /\ [][Next]_vars

-----------------------------------------------------------------------------
(* Properties                                                              *)

(* A published chain is never forked or restarted: over all runs, crashed  *)
(* or not, signed in CI or not, declared genesis or not, clients are never *)
(* served two snapshots under one sequence number.  It rests on Adverse    *)
(* being empty: the zone can be read, the probe answers, no certificate    *)
(* arrives while a run is busy, genesis is declared truthfully, and the    *)
(* name leads to one machine when a run begins.  Without any one of these  *)
(* TLC finds a fork.                                                       *)
NoForkServed ==
    \A d, e \in observed : d.sequence = e.sequence => d = e

(* Snapshots served under neighbouring numbers are linked.                 *)
ServedNeighboursChain ==
    \A d, e \in observed :
        e.sequence = d.sequence + 1 => e.previous_digest = d.digest

(* s may be served after d: it is d, or comes later and does not skip the  *)
(* link to a direct predecessor.                                           *)
Succeeds(s, d) ==
    /\ SourceOf(s) = SourceOf(d)
    /\ s # d =>
          /\ s.sequence > d.sequence
          /\ s.sequence = d.sequence + 1 => s.previous_digest = d.digest

(* The name never goes back: what it leads to may be served after all that *)
(* clients were served before, whatever died or moved in between.  Only    *)
(* the machine a run is leaving, with records of it still to delete, may   *)
(* lag behind (ci-deploy.sh, the deletion of extra A records).             *)
NoRollbackServed ==
    \A d \in observed, h \in pointed :
        Serves(h) => \/ Succeeds(site[h][Latest], d)
                     \/ h # Droplet /\ At("extras") /\ run.extras # {}

(* Every publish preserves its predecessor: once the upload is complete    *)
(* the droplet retains the exact bytes the new snapshot was chained onto.  *)
PredecessorRetained ==
    (run # None /\ run.pc \in {"dns", "extras", "health"} /\ run.prev # None)
        => site[Droplet][Sibling(run.prev.sequence)] = run.prev

(* The record is the last piece of state a deploy creates: no step makes   *)
(* one lead to the droplet before its vhost answers and every file of the  *)
(* run, siblings included, is there to be served, whatever died before     *)
(* (ci-deploy.sh).                                                         *)
RecordIsLast ==
    [][(\E i \in Record : records[i] # Droplet /\ records'[i] = Droplet)
          => /\ web[Droplet] # "down"
             /\ \A f \in File :
                   run.tree[f] # None => site[Droplet][f] = run.tree[f]]_records

(* The builder and the verifier agree on a whole chain: whatever a run     *)
(* found live, what it builds onto it is never refused by its own verify   *)
(* gate (build.rs, ci-assemble.sh).                                        *)
OwnBuildPasses ==
    At("sign") =>
        \A now \in Time :
            LET s == build_snapshot(Config, run.prev, now, OperatorKey) IN
            s # None /\ s.sequence <= MaxSequence
                => verify_gate(s, run.prev, now)

(* "a skip_signing: true re-run of the same committed artifacts cannot     *)
(* succeed": with the committed snapshot already live, the run aborts      *)
(* before it uploads anything.                                             *)
RerunOfLiveAborts ==
    At("upload") => run.tree[Latest] # run.prev
=============================================================================
