# TLA+ specifications of onym-discovery

onym-discovery publishes *catalogs*: signed, hash-chained JSON snapshots under
a signed provider manifest, verified offline by clients. The repository holds
the verifier and builder (`src/`), the command line around them
(`src/main.rs`), and the scripts and workflow that publish one provider
(`deploy/onym`, `.github/workflows/deploy.yml`). These modules model the code;
file and line references below are to the repository.

## Inventory

| Part | State | Operations | Interacts with |
|---|---|---|---|
| Verifier, `src/verify.rs` | none, pure | `verify_manifest`, `verify_snapshot`, `from_snapshot_bytes`, `after_acceptance`, `verify_detached_sig`, `verify_destination`, conflict detection | called by the client, the CLI and the deploy's verify gate |
| A client of the verifier | a manifest per provider, `RetainedCatalogState` per (provider, catalog) | fetch a manifest, refresh a catalog | served bytes, the clock |
| Builder, `src/build.rs` | none, pure | `build_snapshot`, `resolve_entry` | bytes of the previous snapshot, config |
| `build-snapshot`, `src/main.rs` | the output directory | two `write_immutable` siblings, two plain writes | builder, other runs in the same directory |
| `keygen`, `fingerprint`, `sign-manifest`, `verify manifest` | the seed, the manifest and its `.sig` | plain writes | the operator, who repeats what failed |
| `ci-assemble.sh` | fetched previous snapshot, served tree | fetch, genesis decision, siblings, sign or adopt, verify gate, layout | live site, Cloudflare, the CLI |
| `ci-deploy.sh` | droplet's web root, A records | rsync, vhost, probe, DNS, health | droplet, Cloudflare |
| `ensure-caddy-vhost.sh` | three files and a container | write, validate, apply, roll back | onym-infra's own deploy |
| `deploy.yml` | one run at a time | dispatch with `genesis`, `skip_signing` | both scripts |

What is hard here: served bytes arrive late, repeated, mixed up or forged;
retained state and a policy transition span many calls; a process or a CI run
may die between any two writes and is then repeated by a person who chooses the
inputs; the deploy decides "nothing is published" from failures; several
systems (droplet, resolver, Cloudflare, certificate) change at different times.

What makes each part correct:

* client: one linked chain per source, no rollback, a bounded transition
  grace, a bounded lifetime of each snapshot, no accusation without the
  operator's signature, retained state that survives a restart;
* builder and `build-snapshot`: one snapshot per sequence number in one
  directory, linked to the directory's own predecessor when it is built from
  that, with the latest always retained, whatever crashes;
* the conflict scan: exactly the components bound to two digests, in whatever
  order the snapshots come;
* the operator's files: an announced key is never lost, one operator ever goes on
  line, a manifest and its `.sig` agree again after a repeated command;
* the vhost script: the shared Caddy always has a config it can load and files it
  could be started from, exit 0 means served, a swept host comes back;
* deployment: clients see one linked chain across all runs; each publish keeps
  its predecessor's bytes; a run points the name at the droplet last.

`PROJECT.json` lists the hazards line by line and the properties aimed at them.

## Modules

| Module | Models |
|---|---|
| `StaticProfile` | document shapes and the pure verdicts of `verify.rs`, checks in the code's order |
| `AcceptedChain` | abstract: per source a head that moves forward along links, and a ledger of what was accepted |
| `CatalogClient` | a client of the verifier; refines `AcceptedChain` |
| `EntryConflicts` | `cross_catalog_equivocation`, `source_conflicts`, `conflicting_digests` turn by turn, and `verify_destination` |
| `SnapshotBuilder` | `build_snapshot`, `resolve_entry` |
| `SnapshotLog` | abstract: one snapshot per number, retained for good after its predecessor or built from elsewhere; only retained ones go on line |
| `SnapshotPublisher` | `build-snapshot` on a directory: crashes, torn files, concurrent runs, retries; refines `SnapshotLog` |
| `OperatorDesk` | `keygen`, `fingerprint`, `sign-manifest`, `verify manifest` on one directory |
| `ChainDeployment` | deploys one after another: assemble, upload, DNS, health, with failures |
| `CaddyVhost` | `ensure-caddy-vhost.sh` run after run, the running container, onym-infra's sweep |
| `Discovery` | `ChainDeployment` and a polling client of the verifier, with fairness |
| `*_proofs` | theorems about `CatalogClient`, `EntryConflicts`, `SnapshotPublisher`, `OperatorDesk`, `ChainDeployment`, `CaddyVhost`, `Discovery`; `ServedChain_proofs` is about `ChainDeployment` too: the chain clients are served |
| `MCDocuments`, `MC*` | instances for TLC |

`CatalogClient`, `SnapshotBuilder` and `OperatorDesk` extend `StaticProfile`;
`SnapshotPublisher` and `ChainDeployment` extend `SnapshotBuilder`; `Discovery`
extends `ChainDeployment`. The deployment runs the real
`build_snapshot` and the real `verify_snapshot` operators in its sign and
verify-gate steps.

**Documents.** A document stands for a byte string: a record of what the code
can learn from the bytes. `digest` is their SHA-256, taken as collision free on
the documents that exist (`DigestAssumption`). `signer` is the key under which
the embedded signature verifies; Ed25519 is ideal. Well-formedness of ids, URIs,
timestamps and of the JSON itself is a Boolean or the value `Malformed`; times
are integers. `dup_keys` is a repeated key inside a lossily decoded part, which
only the scan of `canonical.rs` notices.

**Client.** `manifest` and `retained` are the state the doc comments of
`RetainedCatalogState` ask a caller to keep; `FetchManifest` and `Refresh` are
one call each. Any document may be served at any step, the clock is any
reading. A rejection changes nothing and is not a step. `generation` and
`accepted` are history variables. `FetchManifest` is external to the
repository: no code in it keeps a manifest, so the recording of a superseded
policy follows the doc comment (`verify.rs:165-168`). The grace is modelled as the
code has it: `after_acceptance` keeps the previous policy for as long as accepted
snapshots cite it, so it may last several generations, and closes with the first
snapshot under the current policy.

**Publisher.** `fs` holds a document, nothing, or `Torn` per file; `job` is the
position of a run among check, truncation and fill of its four files. A `.sig`
is represented by the document it signs. A `calm` run is one that nothing
interrupts; it may still be refused. `--previous` is any path (`main.rs:176-179`),
so `Previous` is any snapshot or none, and the history variable `foreign` notes
what was built from a snapshot the directory did not hold at that time. The
directory's own guarantees, one snapshot per number and a retained latest, do not
depend on it; the link between neighbours does. In a directory that is kept, as in
the manual runbook after its backfill, predecessors are at hand and the link
holds. CI builds each sequence in an emptied `out/` from fetched bytes
(`ci-assemble.sh:465-468`, `544-547`): there everything is `foreign`, and the link
is what the verify gate enforces (`ServedNeighboursChain` of `ChainDeployment`).

**Operator desk.** `fs` holds the seed, the manifest and its `.sig`, `job` the
command in progress. The signed output may be the input of the next command.
Nobody compares the operator a draft names with the key, as in the code; the
gate (`verify manifest --sig`) does.

**Conflicts.** `held` is the argument, `bindings` the map of first digests and
`conflicted` the set under construction; a step is a turn of the inner loop.
`check` tells the two callers apart: only the cross-catalog check looks at
providers.

**Vhost.** `disk` holds the three files, `caddy` what the container runs (its
mounts and the config it loaded), which are two things on purpose: every failure
the script's comments recount is a difference between them. A file is written,
the container changed and the files rolled back in separate steps, and `Die`
ends a run between any two without a rollback. `unapplied` records that a run
left files which a container with the mounts has not loaded; `exposed`, that a run
died between writing the snippet and having it validated, until its files are
replaced for good (a later run that is rolled back puts them back).

**Deployment.** `site`, `web`, `records` are the machines, their https state and
the A records; `run` is the run in progress. A step of the script is an action;
`Abort` ends a run anywhere. Failed fetches need no cause: the genesis actions
do not require that the live site is down. `observed` collects the latest
snapshots clients were served. Before the first run the A records lead nowhere, to
other machines, or to the droplet already, which holds none of the files and
answers nothing, http or https (`FirstWeb`); the guide's own starting point is such
a record with nothing served (`deploy/onym/README.md:60-63`). `Adverse` switches on what the scripts do not
survive; each member is an assumption of the passing run when it is absent:

* `cf`: the Cloudflare zone cannot be read while genesis is declared;
* `probe`: the direct probe of the droplet fails although the droplet serves;
* `certificate`: an earlier deploy's certificate is issued between the probe
  and the upload of a recovery;
* `genesis`: the operator declares genesis for a name whose chain another
  machine serves (a move, not a first deploy);
* `mixed`: at first, records lead to the droplet and to another machine at once;
* `stale`: they come to, because the run dies between the PUT and the DELETEs or
  because Cloudflare refuses a DELETE.

With any one of them in `Adverse`, TLC finds two snapshots served under one
sequence number. So `NoForkServed`, `ServedNeighboursChain` and `NoRollbackServed`
of `MCDeploy` are about crashes inside uploads, repeated runs, adopted trees and
moved records, and say nothing of these events. `cf` and `stale` contradict what
the deploy guide promises (`deploy/onym/README.md:250-264`, `422-424`). To see them,
set `Adverse` in `MCDeploy.cfg`:

* with `cf`, the name does not resolve, the zone cannot be read and genesis is
  declared; the run passes over it with a message (`ci-assemble.sh:352-354`) and
  forks a served chain, where the guide says that it aborts;
* with `stale`, a run takes over a chain from another machine, moves one of its two
  records and dies; the guide's plain re-dispatch of a CI-signing run ("immune")
  reads the other machine and signs a second snapshot under a served number.

**System.** `Discovery` adds the client's `retained` state and `calm`: a calm run
still ends where a script dies on a check, but is not interrupted. The client
refreshes through whatever the records point to at that moment.

Bounds, all in guards or constants: `MaxGeneration` (policy changes per source),
`MaxSequence` (length of a built chain), `MaxRecords` (initial A records), and
the finite document universes of the MC modules.

## Runs

Passing runs:

* **MCChain** – one source; honest, forked, unlinked, jumping and doubled
  snapshots up to sequence 3 and two manifests with different policies. Three
  sequence numbers are enough to have a predecessor, a successor and a jump
  around every snapshot; two alternatives per number are enough to fork.
* **MCSources** – two providers, two catalogs and two keys, so that every
  mismatch of source, key and declaration occurs, with manifests that declare a
  catalog twice or for a non-public audience, and snapshots with all
  combinations of valid, reversed, too long and future dates around window and
  skew.
* **MCPublisher** – one builder, sequences to 2, two build times (two candidate
  documents for each number and predecessor), any predecessor, crashes anywhere. With two members
  of `Builder` the second of two processes overwrites the sibling of the first
  (`write_immutable` reads, and writes later); nothing in the code enforces one.
  `ImplementsSnapshotLog` is the refinement: the complete siblings are the log. It
  implies `PublishedForkFree`, which is stated and proved but not checked again.
* **MCDeploy** – the chain starts on the droplet or is taken over from another
  machine; no, one or two A records, which may lead to the droplet from the start,
  in any state of its web server; sequences to 3; committed trees; genesis;
  refused PUTs; aborts anywhere except between PUT and DELETE. Two build times
  make every repeat a potential fork. `Adverse` is empty. `NoRollbackServed`
  compares what is served now with all that was served before, so it spans runs;
  `OwnBuildPasses` ties the builder to the verifier along the chain a run finds.
  `RecordIsLast` is about the step that makes a record lead to the droplet: by then
  the vhost answers and every file of the run is there. It does not say that the
  name never leads to an empty droplet, because it may at first.
* **MCDiscovery** – the same machines and records without committed trees, and a
  client. `NoFalseAlarm` says that what the name leads to is always acceptable to
  a client that followed it, freshness aside; only while records are being moved
  may it see a rollback. `GoesLive`: unless another machine holds the name
  without a snapshot, dispatches bring the droplet on line for good, also when the
  name led to the empty droplet before the first one (with no vhost there yet; a vhost
  of onym-infra's before the first deploy is in `MCDeploy` only). `CatchesUp`:
  once the site rests, the client comes to hold what it serves. Three sequence
  numbers let it miss one.
* **MCVhost** – two snippets that load and one that does not, every mixture of
  native vhost and foreign override, runs that die or fail anywhere, onym-infra
  deploying between runs. `ExitMeansLoaded` excludes what `MCVhostStale` shows,
  by the history variable `unapplied`; `Converges` excludes it too. `RestartSafe`
  is about the files instead of the container: after rollbacks of rollbacks, what
  is on disk between runs could be started, except for what `exposed` notes.
  `Overlap` is `FALSE`: onym-infra does not deploy during a run. With `TRUE`,
  `ExitMeansLoaded` fails, `StackStaysUp` and `RestartSafe` still hold. Nothing is
  claimed of files that are not the script's: an override that onym-infra or
  somebody on the box puts there after the script has looked is overwritten, though
  it "must NEVER be" (`ensure-caddy-vhost.sh:90-95`), and a rollback removes it.
* **MCConflicts** – up to three snapshots of two providers with up to two
  entries and three digests: three different bindings of one component, in every
  order and with every snapshot empty. The call ends, so deadlock is not checked.
* **MCDesk** – two keys, drafts that name each, one of them signed before by the
  other key, and a draft with a repeated JSON key.

Each property has a seeded defect in `PROJECT.json` ("mutants") that makes its
run fail, so the property is sensitive to the code it is about.

Runs that find a disagreement between the code and what the repository says of
it (details and quotations under "findings"):

* **MCEntries** – the builder emits entries with an empty `seatType` or a bad
  date, which verifiers skip.
* **MCRerunSigned** – the deploy guide says a re-run of live signed artifacts
  aborts; it is a no-op refresh and deploys.
* **MCSignedSiblings** – a stale sibling under `signed/` overwrites the
  predecessor's bytes.
* **MCVhostStale** – a run that dies between replacing the snippet and the
  reload makes the next one exit 0 with "already in place (files AND running
  container)" while the old vhost runs.

Deadlock is checked in every run but MCConflicts. Safety properties do not use
the fairness that a specification states.

**Fairness.** A command or a script, once started, goes on or dies: `WF` of its
steps and its death together. That a person or the workflow starts something
again is not in the code; the guides ask for it ("re-run", "remove the file",
"re-dispatch"), and liveness is stated under it:

* `SnapshotPublisher`: the operator removes torn siblings and repeats a build
  that nothing contradicts, again and again left alone by crashes (`SF`, since
  crashes and refusals disable and enable these).
* `OperatorDesk`: a torn seed is removed, a key generated, a draft that names it
  signed, and not interrupted every time.
* `CaddyVhost`: again and again a publish with a snippet that loads runs without
  a failure of docker or ssh. Nothing is assumed of onym-infra.
* `Discovery`: dispatches with and without genesis occur in quiet conditions
  again and again, Cloudflare does not refuse every call, Caddy keeps asking for
  its certificate, the client keeps polling.

## Proofs

`CatalogClient_proofs` proves, for all documents, sources, clocks, windows and
skews, from the assumptions `DocAssumption`, `DigestAssumption`,
`OptionAssumption`, `BoundAssumption`, `TimeAssumption`:

* `TypeCorrect`, and from the inductive invariant `IInv` (theorem `Inductive`)
  `NoFork`, `Neighbours`, `GraceCloses`, `Freshness`, `Accusations`,
  `ForeignState`, `Reloads`, `Unambiguous`;
* `Implements`: `CatalogClient` implements `AcceptedChain`.

The safety invariants are not inductive: nothing in them ties the retained
state to what was accepted. `IInv` adds that the retained state of a source is
its latest acceptance (no acceptance has a higher number), that this document
was accepted, that the recorded previous policy agrees with the transition
flags of the acceptances in the current generation, and that each acceptance
passed the checks of `verify_snapshot` at its time. `AcceptedPasses` and
`OutcomeOrders` extract from the nested verdict what an acceptance implies;
`AcceptPreserves` and `FetchPreserves` are the two steps, one named step per
conjunct; `AcceptAdvances` is the step of the refinement.

`SnapshotPublisher_proofs` proves `TypeOK` for any number of processes, and
under `OneBuilder` (one process at a time, the operator's duty)
`LatestIsRetained`, `SiblingNeverRewritten`, `PublishedForkFree` and
`PublishedNeighboursChain` for all configs, times and lengths. They rest on the
inductive `PubInv`: the siblings a run has passed hold what it builds and the one
it is about to write is missing or torn (`JobsKnow`), complete latest bytes are in
both siblings, what was published is still in its sibling, and each complete
sibling carries its number and, unless it is `foreign`, is linked to the complete
one before it. A build from a document the directory holds is linked because that
document is, and stays, in its sibling (`HeldRetained`). From
`BuildAssumption` the universe of documents is closed under building.

`DirectoryIsALog` maps each step to a step of `SnapshotLog` or a stutter: only the
write that completes a sibling extends the log, and only from a torn one.

`ChainDeployment_proofs` proves `TypeOK` and `RecordIsLast` under every adverse
event and from every start, and `PredecessorRetained` under `SignedAgrees`: no
committed tree holds, under the number of a snapshot that the gate lets its latest
follow, other bytes than that snapshot. A tree with the sibling of its direct
predecessor, as the runbook's backfill leaves it, satisfies this, since only that
predecessor is linked. An older sibling does if no second snapshot of its number is
ever made, since the gate would let the latest jump over that one too; the tree of
`MCSignedSiblings` does not.
The invariant follows the tree of a run through assembly, layout and upload: what is
no longer to be uploaded is on the droplet, and the predecessor is pinned in it.

`ServedChain_proofs` proves, for any machines, records, committed trees and length
of the chain and under `Adverse = {}`, that clients are never served a fork
(`ChainNeverForks`), that served neighbours are linked (`ServedChainIsLinked`) and
that the name never goes back (`ServedNeverGoesBack`). Each member of `Adverse`
breaks the first, so the assumption cannot be weaker in these terms. None of the
three is inductive: they speak of served snapshots and say nothing of what will be
served. `ChainInv` ties the history to the machines:

* `OneOrigin`: the machines other than the droplet serve one snapshot at most,
  and nothing a run does changes it;
* `OneMachine`: the name leads to the droplet and elsewhere at once only while a
  run has records to delete;
* `ChainedRun`: a run that starts over does so where no other machine serves a chain
  and the droplet is not `Public` yet (named, with a certificate and a snapshot); any
  other extends the older machine's snapshot if the name does not lead to the
  droplet yet, and otherwise the droplet's latest until the upload replaces it;
* `Leads(d)`, for every snapshot served: the older chain comes before d, and what
  the droplet serves may follow d. `LeadsStep` shows that no step takes it back.

`GateSucceeds` connects the verifier to this: what passes the verify gate may
follow the predecessor, whoever signed it.

`OwnBuildIsAccepted` holds under every adverse event. Its hypothesis `Agreed` is
all that `build_snapshot` leaves to the verifier: the manifest verifies, is by the
same provider and key, declares the catalog under the policy of the config, and the
document is not too large and repeats no component. Then every check of
`verify_snapshot` passes on what is built, against any snapshot of the provider that
a run can have fetched (`BuiltMeetsGate`, `OwnSnapshots`).

`Discovery_proofs` adds the client. `SystemTypeCorrect` needs no assumption.
`NoClientAlarmed` proves `NoFalseAlarm` under `Adverse = {}` and two conditions on
what deploys do not produce: the older machine's chain would be accepted by a new
client (`Vetted`), and the latest snapshot of a committed tree names no
predecessor but the one before it (`Linked`). The second is needed because the gate
compares with the live predecessor only: a snapshot that jumps ahead of it and names
an older one passes, and a client that was away since that older one reads it as an
`inconsistent_jump`. What CI builds is always `Linked`. Besides `ChainInv` the
invariant says that what is, or will be, served passed the gate (`GatePassed`) and
that the client retains a served snapshot (`RetainsServed`).

`CaddyVhost_proofs` proves `TypeOK` and `StackStaysUp` with no assumption but
that `None` is not a run: a run past the validation has files that a recreated container can load
(`Validated`), and a reload takes effect only if Caddy can load the config.
`RestartSafe` needs none either: `Restorable` follows which of the files on disk
and their backup could be started, through both rollbacks. For `Overlap = FALSE`,
`ExitMeansLoaded` is proved: the invariant says which files a run has in
place at each step (`FilesInPlace`) and, past the reload, that the container has
loaded them (`Applied`).

`EntryConflicts_proofs` proves for any snapshots in any order that the scan is
exact (`ConflictsExact`), from the invariant that up to the position of the scan
`bindings` holds the digest of some entry seen and `conflicted` exactly the
components seen twice; `NoConflictIsUniform` follows, and `ProvidersToldApart`.

`OperatorDesk_proofs` proves `TypeOK`, and for one command at a time
(`OneProcess`) `AnnouncedKeyStored` and `OneOperator`: once a seed is complete no
command is under way that writes another.

Every safety invariant, action property and refinement of the passing runs is
proved under the assumptions named above. Only model-checked: all liveness, that is
`Recovers` of both directories, `GoesLive`, `CatchesUp` and `Converges`, and the four
violations. Out of the prover's reach: liveness under fairness, `ENABLED`,
induction over data (so results about recursive definitions) and `RECURSIVE`
operators, of which there are none.

## Not modelled

Field syntax, canonical JSON bytes and Ed25519 (abstracted as above); the mode
of the seed file; the source sanity checks of the assembly, which abort before
anything is fetched; host-key pinning, cache purge and log output; the manifest
and the detached signatures in the deployment's upload; resolver caches; a
restart of the Caddy container outside the script and onym-infra's deploy; the
continuity walk after a forward jump, which no code in the repository performs.
`EnsureVhost` of the deployment is `ensure-caddy-vhost.sh` taken as one step that
succeeds or aborts; `CaddyVhost` is checked by itself and the two are not
composed.

## Plan

What is left, most important first:

1. Detached signatures and the manifest in the upload: which mixtures of files
   a client may fetch in the middle of a deploy, and what it then reports.
2. A refinement from `CaddyVhost` to the step `EnsureVhost`, so that a deploy's
   vhost may go stale or be swept between deploys.
3. A resolver that answers with an old address for a while after a move.
4. `NoForkServed` with members of `Adverse` present, for operators who exclude
   them otherwise (a zone without other machines, for instance).
