------------------------- MODULE ServedChain_proofs -------------------------
(***************************************************************************)
(* Without the events of Adverse, clients of the name are never served a   *)
(* fork or anything older than before: for any machines, records,          *)
(* committed trees and length of the chain.  The invariant follows what    *)
(* leads from one served snapshot to the next: the older machine's chain,  *)
(* the droplet's latest snapshot, and the run that reads one of them and   *)
(* replaces the other.  At the end, under all events: builder and verify   *)
(* gate agree on every snapshot a run may have fetched.                    *)
(***************************************************************************)
EXTENDS ChainDeployment_proofs

(* The latest snapshot on the droplet, and that on the machines the name   *)
(* may have led to before.                                                 *)
head == site[Droplet][Latest]
Origin == {site[h][Latest] : h \in Host \ {Droplet}} \ {None}

(* There is one older chain at most, served wherever the name leads but    *)
(* the droplet.                                                            *)
OneOrigin ==
    /\ \A o, p \in Origin : o = p
    /\ \A o \in Origin, h \in pointed \ {Droplet} : site[h][Latest] = o
    /\ pointed = {} => Origin = {}

(* Clients that follow the name find a snapshot on the droplet.            *)
Public == Droplet \in pointed /\ web[Droplet] = "https" /\ head # None

(* Once the name leads to the droplet it leads nowhere else, except while  *)
(* a run still has records to delete; none of those it keeps is another's. *)
OneMachine ==
    /\ Droplet \in pointed /\ pointed # {Droplet}
          => At("extras") /\ run.extras # {}
    /\ At("extras") =>
          /\ pointed # {} => \E i \in Record \ run.extras : records[i] # None
          /\ Droplet \in pointed =>
                \A i \in Record \ run.extras : records[i] \in {Droplet, None}
    /\ run # None /\ run.pc # "extras" => run.extras = {}

(* A run that starts over does so where nothing is served; any other       *)
(* extends the snapshot that will be the latest until it is replaced.      *)
ChainedRun ==
    run # None =>
        /\ run.genesis => Origin = {}
        /\ run.pc = "fetch" => run.prev = None
        /\ run.pc # "fetch" /\ run.prev = None =>
              /\ run.genesis
              /\ run.pc = "sign" \/ (run.pc = "upload" /\ Latest \in run.todo)
                    => ~Public
        /\ run.pc # "fetch" /\ run.prev # None =>
              /\ run.pc \in {"sign", "upload", "dns"} /\ Droplet \notin pointed
                    => run.prev \in Origin
              /\ run.pc = "sign" \/ (run.pc = "upload" /\ Latest \in run.todo)
                    => (Droplet \in pointed => head = run.prev)
              /\ run.pc # "sign" => Succeeds(run.tree[Latest], run.prev)

(* d has been served, and what the name leads to may be served after it.   *)
Leads(d) ==
    /\ \A o \in Origin : Succeeds(d, o)
    /\ ~Public => d \in Origin
    /\ Droplet \in pointed => Succeeds(head, d)

ChainInv ==
    DeployInv /\ OneOrigin /\ OneMachine /\ ChainedRun
              /\ \A o \in Origin : Leads(o)

(* What clients have been served is one chain, read with gaps.             *)
OneChainServed ==
    /\ \A d \in observed : Leads(d)
    /\ \A d, e \in observed : Succeeds(d, e) \/ Succeeds(e, d)

-----------------------------------------------------------------------------
(* Snapshots in order                                                      *)

LEMMA SucceedsIsTransitive ==
    ASSUME NEW s \in SnapshotDoc, NEW d \in SnapshotDoc, NEW c \in SnapshotDoc,
           Succeeds(s, d), Succeeds(d, c)
    PROVE  Succeeds(s, c)
<1>1. s.sequence \in Nat /\ d.sequence \in Nat /\ c.sequence \in Nat
    BY DocFacts
<1>2. CASE s = d \/ d = c
    BY <1>2
<1>3. CASE s # d /\ d # c
    BY <1>1, <1>3 DEF Succeeds
<1> QED
    BY <1>2, <1>3

(* Whatever passes the verify gate may be served after the predecessor,    *)
(* whoever built it.                                                       *)
LEMMA GateSucceeds ==
    ASSUME NEW s \in SnapshotDoc, NEW prev \in SnapshotDoc, NEW now \in Time,
           verify_gate(s, prev, now)
    PROVE  Succeeds(s, prev)
<1> DEFINE r == from_snapshot_bytes(prev, None)
<1>1. prev # None
    BY DocFacts
<1>2. r # None /\ verify_snapshot(s, Manifest, r, now) \in Accepting
    BY <1>1 DEF verify_gate
<1>3. /\ r.sequence = prev.sequence /\ r.digest = prev.digest
      /\ r.provider_id = prev.provider_id /\ r.catalog_id = prev.catalog_id
    BY <1>2 DEF from_snapshot_bytes
<1> HIDE DEF r
<1>4. chain_outcome(s, r) \in Accepting /\ same_source(s, r)
    BY <1>2 DEF verify_snapshot, Accepting
<1>5. SourceOf(s) = SourceOf(prev)
    BY <1>2, <1>3, <1>4 DEF same_source, SourceOf
<1>6. s.sequence \in Nat /\ prev.sequence \in Nat
    BY DocFacts
<1>7. \/ s.digest = prev.digest
      \/ /\ s.sequence > prev.sequence
         /\ s.sequence = prev.sequence + 1 => s.previous_digest = prev.digest
    BY <1>2, <1>3, <1>4, <1>6 DEF chain_outcome, Accepting
<1> QED
    BY <1>5, <1>7, DigestAssumption DEF Succeeds

-----------------------------------------------------------------------------
(* What each step does to the run and to the rest                          *)

Still == UNCHANGED <<site, web, records, observed>>

(* The run goes on from one point to another with the same inputs.         *)
Continues(from, to) ==
    /\ run # None /\ run.pc = from
    /\ run' # None /\ run'.pc = to
    /\ run'.genesis = run.genesis

(* ... and with the same predecessor.                                      *)
Carries(from, to) == Continues(from, to) /\ run'.prev = run.prev

LEMMA RunIsNotNone == \A r \in Run : r # None
BY RunAssumption

LEMMA BeginFacts ==
    ASSUME NEW genesis \in BOOLEAN, NEW committed \in Signed \cup {None},
           Dispatch(genesis, committed), Adverse = {}
    PROVE  /\ Still /\ run = None /\ run' # None
           /\ run'.pc = "fetch" /\ run'.prev = None /\ run'.extras = {}
           /\ run'.genesis => Origin = {}
<1>1. run' = [pc |-> "fetch", genesis |-> genesis, committed |-> committed,
              prev |-> None, tree |-> NoFiles, todo |-> {}, extras |-> {}]
    BY DEF Dispatch
<1>2. run' \in Run
    BY <1>1, TreeFacts DEF Run
<1>3. run' # None
    BY <1>2, RunIsNotNone
<1>4. genesis => Origin = {}
    BY DEF Dispatch, Origin
<1> QED
    BY <1>1, <1>3, <1>4 DEF Dispatch, Still

LEMMA EndFacts ==
    ASSUME Abort \/ Health, Adverse = {}
    PROVE  /\ Still /\ run # None /\ run' = None
           /\ run.pc = "extras" => run.extras = {}
BY DEF Abort, Health, At, Still

(* Starting over happens where no record is, or where the droplet alone is *)
(* named and serves nothing.                                               *)
LEMMA GenesisFacts ==
    ASSUME TypeOK, GenesisUnresolved \/ GenesisRecovery \/ Genesis404,
           Adverse = {}
    PROVE  /\ Still /\ Carries("fetch", "sign") /\ run'.extras = run.extras
           /\ run.genesis
           /\ \/ pointed = {}
              \/ pointed \subseteq {Droplet} /\ ~Serves(Droplet)
<1>1. /\ run # None /\ run.pc = "fetch" /\ run' = [run EXCEPT !.pc = "sign"]
      /\ Still
    BY GenesisSteps DEF At, Still
<1>2. run \in Run
    BY <1>1, TypeFacts
<1>3. run' \in Run
    BY <1>1, <1>2 DEF Run
<1>4. Carries("fetch", "sign") /\ run'.extras = run.extras
    BY <1>1, <1>2, <1>3, RunIsNotNone DEF Carries, Continues, Run
<1>5. /\ cf_a_records = {IF listed = {} THEN 1 ELSE 0}
      /\ probe_200 = {Serves(Droplet)}
    BY DEF cf_a_records, probe_200
<1>6. listed = {} => pointed = {}
    BY DEF pointed
<1>7. CASE GenesisUnresolved
    BY <1>1, <1>4, <1>5, <1>6, <1>7 DEF GenesisUnresolved
<1>8. CASE GenesisRecovery
    BY <1>1, <1>4, <1>5, <1>8 DEF GenesisRecovery, genesis_recovery, ours
<1>9. CASE Genesis404
    <2>1. listed = {} \/ ours
        BY <1>5, <1>9 DEF Genesis404
    <2>2. CASE listed = {}
        BY <1>1, <1>4, <1>6, <1>9, <2>2 DEF Genesis404
    <2>3. CASE listed # {} /\ ours
        <3>1. ~Serves(Droplet)
            BY <1>9, <2>3 DEF Genesis404, answering, ours, Serves
        <3> QED
            BY <1>1, <1>4, <1>9, <2>3, <3>1 DEF Genesis404, ours
    <2> QED
        BY <2>1, <2>2, <2>3
<1> QED
    BY <1>7, <1>8, <1>9

LEMMA ChainFacts ==
    ASSUME TypeOK, ChainOntoLive
    PROVE  /\ Still /\ Continues("fetch", "sign") /\ run'.extras = run.extras
           /\ run'.prev \in SnapshotDoc
           /\ \E h \in answering : Serves(h) /\ run'.prev = site[h][Latest]
<1>1. run # None /\ run.pc = "fetch" /\ Still
    BY DEF ChainOntoLive, At, Still
<1>2. PICK h \in answering : /\ Serves(h)
          /\ \E found \in SUBSET backfill(site[h][Latest]) :
                run' = [run EXCEPT !.pc = "sign",
                          !.prev = site[h][Latest],
                          !.tree = kept(h, site[h][Latest], found)]
    BY DEF ChainOntoLive
<1>3. PICK found : run' = [run EXCEPT !.pc = "sign",
                             !.prev = site[h][Latest],
                             !.tree = kept(h, site[h][Latest], found)]
    BY <1>2
<1>4. site[h][Latest] \in SnapshotDoc
    BY <1>2, TypeFacts, FileFacts DEF Serves
<1>5. kept(h, site[h][Latest], found) \in Tree
    BY <1>2, <1>4, TypeFacts DEF kept, Tree
<1>6. run \in Run
    BY <1>1, TypeFacts
<1>7. run' \in Run
    BY <1>3, <1>4, <1>5, <1>6 DEF Run
<1>8. /\ run'.pc = "sign" /\ run'.prev = site[h][Latest]
      /\ run'.genesis = run.genesis /\ run'.extras = run.extras
    BY <1>3, <1>6 DEF Run
<1> QED
    BY <1>1, <1>2, <1>4, <1>7, <1>8, RunIsNotNone DEF Continues

(* The tree laid out has a latest snapshot that passed the gate.           *)
LEMMA LayOutFacts ==
    ASSUME DeployInv, NEW now \in Time, SignInCI(now) \/ AdoptSigned(now)
    PROVE  /\ Still /\ Carries("sign", "upload") /\ run'.extras = run.extras
           /\ Latest \in run'.todo /\ run'.tree[Latest] \in SnapshotDoc
           /\ verify_gate(run'.tree[Latest], run.prev, now)
           /\ \/ \E t \in Signed : run'.tree[Latest] = t[Latest]
              \/ run'.tree[Latest] =
                    build_snapshot(Config, run.prev, now, OperatorKey)
<1>1. run # None /\ run.pc = "sign"
    BY SignSteps DEF At
<1>2. PICK out \in Tree :
          /\ LayOut(out, now) /\ out[Latest] \in SnapshotDoc
          /\ out \in Signed \/ \E s \in SnapshotDoc :
                /\ out = BuiltTree(s)
                /\ s = build_snapshot(Config, run.prev, now, OperatorKey)
    BY SignSteps
<1> DEFINE tree == Overlay(run.tree, out)
<1>3. /\ run' = [run EXCEPT !.pc = "upload", !.tree = tree,
                            !.todo = to_upload(tree)]
      /\ Still /\ verify_gate(out[Latest], run.prev, now)
    BY <1>2 DEF LayOut, Still
<1>4. run \in Run /\ run.tree \in Tree
    BY <1>1, TypeFacts DEF DeployInv, Run
<1>5. tree \in Tree /\ tree[Latest] = out[Latest]
    <2>1. out[Latest] # None
        BY <1>2, DocFacts
    <2>2. tree \in Tree /\ \A f \in File :
              tree[f] = IF out[f] = None THEN run.tree[f] ELSE out[f]
        BY <1>4, TreeFacts
    <2> HIDE DEF tree
    <2> QED
        BY <2>1, <2>2, FileFacts
<1>6. out[Latest] = build_snapshot(Config, run.prev, now, OperatorKey)
          \/ out \in Signed
    BY <1>2, TreeFacts
<1> HIDE DEF tree
<1>7. to_upload(tree) = {f \in File : tree[f] # None}
    BY DEF to_upload
<1>8. run' \in Run
    BY <1>3, <1>4, <1>5, <1>7 DEF Run
<1>9. Carries("sign", "upload")
    BY <1>1, <1>3, <1>4, <1>8, RunIsNotNone DEF Carries, Continues, Run
<1>10. run'.extras = run.extras /\ run'.tree = tree /\ run'.todo = to_upload(tree)
    BY <1>3, <1>4 DEF Run
<1>11. Latest \in run'.todo
    BY <1>2, <1>5, <1>7, <1>10, FileFacts, DocFacts
<1> QED
    BY <1>2, <1>3, <1>5, <1>6, <1>9, <1>10, <1>11

LEMMA UploadFacts ==
    ASSUME TypeOK, NEW f \in File, Upload(f)
    PROVE  /\ UNCHANGED <<web, records, observed>>
           /\ Carries("upload", "upload") /\ run'.extras = run.extras
           /\ run'.tree = run.tree
           /\ \A h \in Host \ {Droplet} : site'[h] = site[h]
           /\ IF f = Latest
                THEN /\ Latest \in run.todo /\ Latest \notin run'.todo
                     /\ head' = run.tree[Latest]
                ELSE /\ Latest \in run'.todo <=> Latest \in run.todo
                     /\ head' = head
<1>1. /\ run # None /\ run.pc = "upload" /\ f \in run.todo
      /\ site' = [site EXCEPT ![Droplet][f] = run.tree[f]]
      /\ run' = [run EXCEPT !.todo = @ \ {f}]
      /\ UNCHANGED <<web, records, observed>>
    BY DEF Upload, At
<1>2. run \in Run /\ site \in [Host -> Tree] /\ Droplet \in Host
    BY <1>1, TypeFacts
<1>3. run' \in Run /\ run'.todo = run.todo \ {f}
    BY <1>1, <1>2 DEF Run
<1>4. /\ Carries("upload", "upload") /\ run'.extras = run.extras
      /\ run'.tree = run.tree
    BY <1>1, <1>2, <1>3, RunIsNotNone DEF Carries, Continues, Run
<1>5. \A h \in Host \ {Droplet} : site'[h] = site[h]
    BY <1>1, <1>2
<1>6. head' = IF f = Latest THEN run.tree[Latest] ELSE head
    BY <1>1, <1>2, FileFacts DEF Tree, head
<1> QED
    BY <1>1, <1>3, <1>4, <1>5, <1>6

LEMMA VhostFacts ==
    ASSUME TypeOK, EnsureVhost
    PROVE  /\ UNCHANGED <<site, records, observed>>
           /\ Carries("upload", "dns") /\ run'.extras = run.extras
           /\ run'.tree = run.tree
           /\ web'[Droplet] = "https" <=> web[Droplet] = "https"
           /\ \A h \in Host \ {Droplet} : web'[h] = web[h]
<1>1. /\ run # None /\ run.pc = "upload" /\ run' = [run EXCEPT !.pc = "dns"]
      /\ web' = [web EXCEPT ![Droplet] = IF @ = "down" THEN "http" ELSE @]
      /\ UNCHANGED <<site, records, observed>>
    BY DEF EnsureVhost, At, Goto
<1>2. /\ run \in Run /\ Droplet \in Host
      /\ web \in [Host -> {"down", "http", "https"}]
    BY <1>1, TypeFacts
<1>3. run' \in Run
    BY <1>1, <1>2 DEF Run
<1>4. /\ Carries("upload", "dns") /\ run'.extras = run.extras
      /\ run'.tree = run.tree
    BY <1>1, <1>2, <1>3, RunIsNotNone DEF Carries, Continues, Run
<1>5. web'[Droplet] = IF web[Droplet] = "down" THEN "http" ELSE web[Droplet]
    BY <1>1, <1>2
<1>6. \A h \in Host \ {Droplet} : web'[h] = web[h]
    BY <1>1, <1>2
<1> QED
    BY <1>1, <1>4, <1>5, <1>6

LEMMA UpsertFacts ==
    ASSUME TypeOK, UpsertRecord
    PROVE  /\ UNCHANGED <<site, web, observed>>
           /\ Carries("dns", "extras") /\ run'.tree = run.tree
           /\ \/ /\ listed = {} /\ run'.extras = run.extras
                 /\ \E i \in Record, h \in {Droplet, None} :
                       records' = [records EXCEPT ![i] = h]
              \/ \E i \in listed :
                    /\ run'.extras = listed \ {i}
                    /\ \E h \in {Droplet, records[i]} :
                          records' = [records EXCEPT ![i] = h]
<1>1. run # None /\ run.pc = "dns" /\ UNCHANGED <<site, web, observed>>
    BY DEF UpsertRecord, At
<1>2. run \in Run
    BY <1>1, TypeFacts
<1>3. ASSUME NEW x \in SUBSET Record, run' = [run EXCEPT !.pc = "extras",
                                                         !.extras = x]
      PROVE  /\ Carries("dns", "extras") /\ run'.tree = run.tree
             /\ run'.extras = x
    <2>1. run' \in Run
        BY <1>2, <1>3 DEF Run
    <2> QED
        BY <1>1, <1>2, <1>3, <2>1, RunIsNotNone DEF Carries, Continues, Run
<1>4. CASE /\ listed = {} /\ run' = [run EXCEPT !.pc = "extras"]
           /\ \E i \in Record, h \in {Droplet, None} :
                 records' = [records EXCEPT ![i] = h]
    <2>1. run' = [run EXCEPT !.pc = "extras", !.extras = run.extras]
        BY <1>2, <1>4 DEF Run
    <2>2. run.extras \in SUBSET Record
        BY <1>2 DEF Run
    <2> QED
        BY <1>1, <1>3, <1>4, <2>1, <2>2
<1>5. CASE \E i \in listed :
               /\ run' = [run EXCEPT !.pc = "extras", !.extras = listed \ {i}]
               /\ \E h \in {Droplet, records[i]} :
                     records' = [records EXCEPT ![i] = h]
    <2>1. PICK i \in listed :
              /\ run' = [run EXCEPT !.pc = "extras", !.extras = listed \ {i}]
              /\ \E h \in {Droplet, records[i]} :
                    records' = [records EXCEPT ![i] = h]
        BY <1>5
    <2>2. listed \ {i} \in SUBSET Record
        BY DEF listed
    <2>3. /\ Carries("dns", "extras") /\ run'.tree = run.tree
          /\ run'.extras = listed \ {i}
        BY <1>3, <2>1, <2>2
    <2> QED
        BY <1>1, <2>1, <2>3
<1> QED
    BY <1>4, <1>5 DEF UpsertRecord

LEMMA DeleteFacts ==
    ASSUME TypeOK, DeleteExtra, Adverse = {}
    PROVE  /\ UNCHANGED <<site, web, observed>>
           /\ Carries("extras", "extras") /\ run'.tree = run.tree
           /\ \E i \in run.extras :
                 /\ i \in Record /\ run'.extras = run.extras \ {i}
                 /\ records' = [records EXCEPT ![i] = None]
<1>1. run # None /\ run.pc = "extras" /\ UNCHANGED <<site, web, observed>>
    BY DEF DeleteExtra, At
<1>2. run \in Run /\ run.extras \subseteq Record
    BY <1>1, TypeFacts DEF Run
<1>3. PICK i \in run.extras :
          /\ run' = [run EXCEPT !.extras = @ \ {i}]
          /\ records' = [records EXCEPT ![i] = None]
    BY DEF DeleteExtra
<1>4. run' \in Run
    BY <1>2, <1>3 DEF Run
<1>5. /\ Carries("extras", "extras") /\ run'.tree = run.tree
      /\ run'.extras = run.extras \ {i}
    BY <1>1, <1>2, <1>3, <1>4, RunIsNotNone DEF Carries, Continues, Run
<1> QED
    BY <1>1, <1>2, <1>3, <1>5

LEMMA AwaitFacts ==
    ASSUME TypeOK, AwaitHealth
    PROVE  /\ Still /\ Carries("extras", "health") /\ run'.tree = run.tree
           /\ run.extras = {} /\ run'.extras = {}
<1>1. /\ run # None /\ run.pc = "extras" /\ run.extras = {}
      /\ run' = [run EXCEPT !.pc = "health"] /\ Still
    BY DEF AwaitHealth, At, Goto, Still
<1>2. run \in Run
    BY <1>1, TypeFacts
<1>3. run' \in Run
    BY <1>1, <1>2 DEF Run
<1> QED
    BY <1>1, <1>2, <1>3, RunIsNotNone DEF Carries, Continues, Run

LEMMA CertFacts ==
    ASSUME TypeOK, IssueCertificate, Adverse = {}
    PROVE  /\ UNCHANGED <<site, records, run, observed>>
           /\ Droplet \in pointed
           /\ run # None => run.pc \notin {"fetch", "sign", "upload"}
           /\ \A h \in Host \ {Droplet} : web'[h] = web[h]
BY TypeFacts DEF IssueCertificate, At

-----------------------------------------------------------------------------
(* The invariant                                                           *)

LEMMA PointedFacts ==
    ASSUME TypeOK
    PROVE  /\ pointed = {records[i] : i \in Record} \ {None}
           /\ None \notin pointed /\ None # Droplet
           /\ listed = {} <=> pointed = {}
<1>1. pointed = {records[i] : i \in Record} \ {None}
    BY DEF pointed, listed
<1>2. None # Droplet
    BY DeploymentAssumption
<1>3. listed = {} <=> pointed = {}
    BY DEF pointed
<1> QED
    BY <1>1, <1>2, <1>3

LEMMA ChainInit ==
    ASSUME Adverse = {}
    PROVE  Init => ChainInv /\ OneChainServed
<1> SUFFICES ASSUME Init PROVE ChainInv /\ OneChainServed
    OBVIOUS
<1>0. DeployInv /\ TypeOK
    BY DeployInit DEF DeployInv
<1>1. PICK t : site = [h \in Host |->
                          IF h \in pointed \ {Droplet} THEN t ELSE NoFiles]
    BY DEF Init
<1>2. NoFiles[Latest] = None
    BY FileFacts DEF NoFiles
<1>3. \A h \in Host : site[h][Latest] =
          IF h \in pointed \ {Droplet} THEN t[Latest] ELSE None
    BY <1>1, <1>2
<1>4. \A o \in Origin : o = t[Latest]
    BY <1>3 DEF Origin
<1>5. pointed \subseteq Host
    BY <1>0, TypeFacts
<1>6. OneOrigin
    <2>1. pointed = {} => Origin = {}
        BY <1>3 DEF Origin
    <2> QED
        BY <1>3, <1>4, <1>5, <2>1 DEF OneOrigin
<1>7. /\ Droplet \in pointed => pointed = {Droplet}
      /\ run = None /\ observed = {}
    BY DEF Init, ours
<1>8. OneMachine /\ ChainedRun
    BY <1>7 DEF OneMachine, ChainedRun, At
<1>9. \A o \in Origin : Leads(o)
    <2>1. Origin # {} => Droplet \notin pointed
        BY <1>3, <1>7 DEF Origin
    <2> QED
        BY <1>4, <2>1 DEF Leads, Succeeds
<1> QED
    BY <1>0, <1>6, <1>7, <1>8, <1>9 DEF ChainInv, OneChainServed

(* No run touches the machines the name led to before.                     *)
LEMMA OriginStays ==
    ASSUME TypeOK, [Next]_vars
    PROVE  /\ \A h \in Host \ {Droplet} : site'[h] = site[h]
           /\ Origin' = Origin
<1>1. CASE site' = site
    BY <1>1 DEF Origin
<1>2. ASSUME NEW f \in File, Upload(f)
      PROVE  \A h \in Host \ {Droplet} : site'[h] = site[h]
    BY <1>2, UploadFacts
<1>3. (\A h \in Host \ {Droplet} : site'[h] = site[h]) => Origin' = Origin
    BY DEF Origin
<1> QED
    BY <1>1, <1>2, <1>3
       DEF Next, Dispatch, Abort, GenesisUnresolved, GenesisRecovery,
           Genesis404, StartGenesis, ChainOntoLive, SignInCI, AdoptSigned,
           LayOut, EnsureVhost, UpsertRecord, DeleteExtra, AwaitHealth,
           Health, IssueCertificate, ClientFetch, vars

(* Where the name leads after a step: nowhere new but to the droplet, and  *)
(* nowhere at all only if it did so before.                                *)
LEMMA RecordSteps ==
    ASSUME TypeOK, OneMachine, [Next]_vars, Adverse = {}
    PROVE  /\ pointed' \ {Droplet} \subseteq pointed
           /\ pointed' = {} => pointed = {}
           /\ Droplet \in pointed => Droplet \in pointed'
           /\ Droplet \in pointed' /\ Droplet \notin pointed => At("dns")
<1>p. /\ pointed = {records[i] : i \in Record} \ {None}
      /\ listed = {} <=> pointed = {}
      /\ None # Droplet
    BY PointedFacts
<1>q. pointed' = {records'[i] : i \in Record} \ {None}
    BY DEF pointed, listed
<1>r. records \in [Record -> Host \cup {None}]
    BY TypeFacts
<1>1. CASE records' = records
    BY <1>1, <1>p, <1>q
<1>2. CASE UpsertRecord
    <2>1. At("dns")
        BY <1>2 DEF UpsertRecord
    <2>2. Droplet \in pointed => pointed = {Droplet}
        BY <2>1 DEF OneMachine, At
    <2>3. CASE listed = {} /\ \E i \in Record, h \in {Droplet, None} :
                                 records' = [records EXCEPT ![i] = h]
        BY <1>p, <1>q, <1>r, <2>1, <2>3
    <2>4. CASE \E i \in listed : \E h \in {Droplet, records[i]} :
                  records' = [records EXCEPT ![i] = h]
        <3>0. PICK i \in listed : \E h \in {Droplet, records[i]} :
                  records' = [records EXCEPT ![i] = h]
            BY <2>4
        <3>1. PICK h \in {Droplet, records[i]} :
                  records' = [records EXCEPT ![i] = h]
            BY <3>0
        <3>2. i \in Record /\ records[i] # None /\ h # None
            BY <1>p, <3>1 DEF listed
        <3>3. records'[i] = h /\ \A j \in Record \ {i} : records'[j] = records[j]
            BY <1>r, <3>1, <3>2
        <3>4. h \in pointed'
            BY <1>q, <3>2, <3>3
        <3>5. Droplet \in pointed => h = Droplet
            BY <1>p, <2>2, <3>1, <3>2
        <3>6. pointed' \ {Droplet} \subseteq pointed
            BY <1>p, <1>q, <3>1, <3>2, <3>3
        <3> QED
            BY <2>1, <3>4, <3>5, <3>6
    <2> QED
        BY <1>2, <2>3, <2>4, UpsertFacts
<1>3. CASE DeleteExtra
    <2>1. PICK i \in run.extras : i \in Record
                                  /\ records' = [records EXCEPT ![i] = None]
        BY <1>3, DeleteFacts
    <2>2. records'[i] = None /\ \A j \in Record \ {i} : records'[j] = records[j]
        BY <1>r, <2>1
    <2>3. pointed' \subseteq pointed
        BY <1>p, <1>q, <2>1, <2>2
    <2>4. At("extras")
        BY <1>3 DEF DeleteExtra
    <2>5. /\ pointed # {} => \E j \in Record \ run.extras : records[j] # None
          /\ Droplet \in pointed =>
                \A j \in Record \ run.extras : records[j] \in {Droplet, None}
        BY <2>4 DEF OneMachine
    <2>6. \A j \in Record \ run.extras : records[j] # None => records[j] \in pointed'
        BY <1>q, <2>1, <2>2
    <2> QED
        BY <2>3, <2>5, <2>6
<1> QED
    BY <1>1, <1>2, <1>3
       DEF Next, Dispatch, Abort, GenesisUnresolved, GenesisRecovery,
           Genesis404, StartGenesis, ChainOntoLive, SignInCI, AdoptSigned,
           LayOut, Upload, EnsureVhost, AwaitHealth, Health,
           IssueCertificate, ClientFetch, vars

LEMMA OneOriginStep ==
    ASSUME TypeOK, OneOrigin, OneMachine, [Next]_vars, Adverse = {}
    PROVE  OneOrigin'
<1>1. /\ \A h \in Host \ {Droplet} : site'[h] = site[h]
      /\ Origin' = Origin
    BY OriginStays
<1>2. pointed' \ {Droplet} \subseteq pointed /\ (pointed' = {} => pointed = {})
    BY RecordSteps
<1>3. pointed \subseteq Host
    BY TypeFacts
<1>4. \A o \in Origin', h \in pointed' \ {Droplet} : site'[h][Latest] = o
    BY <1>1, <1>2, <1>3 DEF OneOrigin
<1> QED
    BY <1>1, <1>2, <1>4 DEF OneOrigin

LEMMA OneMachineStep ==
    ASSUME DeployInv, OneMachine, [Next]_vars, Adverse = {}
    PROVE  OneMachine'
<1>t. TypeOK
    BY DEF DeployInv
<1>p. /\ pointed = {records[i] : i \in Record} \ {None}
      /\ listed = {} <=> pointed = {}
      /\ None # Droplet
    BY <1>t, PointedFacts
<1>q. pointed' = {records'[i] : i \in Record} \ {None}
    BY DEF pointed, listed
<1>r. records \in [Record -> Host \cup {None}]
    BY <1>t, TypeFacts
<1>s. /\ pointed' \ {Droplet} \subseteq pointed
      /\ pointed' = {} => pointed = {}
      /\ Droplet \in pointed => Droplet \in pointed'
    BY <1>t, RecordSteps
<1>m. /\ Droplet \in pointed /\ pointed # {Droplet}
            => At("extras") /\ run.extras # {}
      /\ run # None /\ run.pc # "extras" => run.extras = {}
    BY DEF OneMachine
(* The run moves on, the records stay.                                     *)
<1>k. ASSUME UNCHANGED records,
             ~(At("extras") /\ run.extras # {}),
             run' # None => run'.pc # "extras" /\ run'.extras = {}
      PROVE  OneMachine'
    <2>1. pointed' = pointed
        BY <1>k, <1>p, <1>q
    <2> QED
        BY <1>k, <1>m, <2>1 DEF OneMachine, At
<1>1. ASSUME NEW genesis \in BOOLEAN, NEW committed \in Signed \cup {None},
             Dispatch(genesis, committed)
      PROVE  OneMachine'
    BY <1>k, <1>m, <1>1, BeginFacts DEF Still, At
<1>2. CASE Abort \/ Health
    BY <1>k, <1>m, <1>2, EndFacts DEF Still, At
<1>3. CASE GenesisUnresolved \/ GenesisRecovery \/ Genesis404
    BY <1>k, <1>m, <1>t, <1>3, GenesisFacts DEF Still, At, Carries, Continues
<1>4. CASE ChainOntoLive
    BY <1>k, <1>m, <1>t, <1>4, ChainFacts DEF Still, At, Continues
<1>5. ASSUME NEW now \in Time, SignInCI(now) \/ AdoptSigned(now)
      PROVE  OneMachine'
    BY <1>k, <1>m, <1>5, LayOutFacts DEF Still, At, Carries, Continues
<1>6. ASSUME NEW f \in File, Upload(f) PROVE OneMachine'
    BY <1>k, <1>m, <1>t, <1>6, UploadFacts DEF At, Carries, Continues
<1>7. CASE EnsureVhost
    BY <1>k, <1>m, <1>t, <1>7, VhostFacts DEF At, Carries, Continues
<1>8. CASE UpsertRecord
    <2>1. /\ run # None /\ run.pc = "dns" /\ run.extras = {} /\ web' = web
          /\ run' # None /\ run'.pc = "extras"
        BY <1>m, <1>t, <1>8, UpsertFacts DEF Carries, Continues
    <2>2. Droplet \in pointed => pointed = {Droplet}
        BY <1>m, <2>1 DEF At
    <2>3. CASE /\ listed = {} /\ run'.extras = run.extras
               /\ \E i \in Record, h \in {Droplet, None} :
                     records' = [records EXCEPT ![i] = h]
        <3>1. \A j \in Record : records'[j] \in {Droplet, None}
            BY <1>p, <1>r, <2>3
        <3>2. pointed' # {} => \E j \in Record : records'[j] # None
            BY <1>q
        <3>3. Droplet \in pointed' => pointed' = {Droplet}
            BY <1>q, <3>1
        <3> QED
            BY <1>m, <1>s, <2>1, <2>3, <3>1, <3>2, <3>3 DEF OneMachine, At
    <2>4. CASE \E i \in listed :
                  /\ run'.extras = listed \ {i}
                  /\ \E h \in {Droplet, records[i]} :
                        records' = [records EXCEPT ![i] = h]
        <3>1. PICK i \in listed :
                  /\ run'.extras = listed \ {i}
                  /\ \E h \in {Droplet, records[i]} :
                        records' = [records EXCEPT ![i] = h]
            BY <2>4
        <3>2. PICK h \in {Droplet, records[i]} :
                  records' = [records EXCEPT ![i] = h]
            BY <3>1
        <3>3. i \in Record /\ records[i] # None /\ h # None
            BY <1>p, <3>1, <3>2 DEF listed
        <3>4. records'[i] = h /\ \A j \in Record \ {i} : records'[j] = records[j]
            BY <1>r, <3>2, <3>3
        <3>5. \A j \in Record \ run'.extras : j = i \/ records'[j] = None
            BY <3>1, <3>4 DEF listed
        <3>6. Droplet \in pointed' => h = Droplet
            BY <1>p, <1>q, <2>2, <3>2, <3>3, <3>4
        <3>7. Droplet \in pointed' /\ run'.extras = {} => pointed' = {Droplet}
            BY <1>q, <3>4, <3>5, <3>6
        <3>8. i \in Record \ run'.extras /\ records'[i] # None
            BY <3>1, <3>3, <3>4
        <3>9. Droplet \in pointed' =>
                  \A j \in Record \ run'.extras : records'[j] \in {Droplet, None}
            BY <3>4, <3>5, <3>6
        <3> QED
            BY <1>m, <1>s, <2>1, <3>7, <3>8, <3>9 DEF OneMachine, At
    <2> QED
        BY <1>t, <1>8, <2>3, <2>4, UpsertFacts
<1>9. CASE DeleteExtra
    <2>1. /\ run # None /\ run.pc = "extras" /\ web' = web
          /\ run' # None /\ run'.pc = "extras"
        BY <1>t, <1>9, DeleteFacts DEF Carries, Continues
    <2>2. PICK i \in run.extras : /\ i \in Record
                                  /\ run'.extras = run.extras \ {i}
                                  /\ records' = [records EXCEPT ![i] = None]
        BY <1>t, <1>9, DeleteFacts
    <2>3. records'[i] = None /\ \A j \in Record \ {i} : records'[j] = records[j]
        BY <1>r, <2>2
    <2>4. pointed' \subseteq pointed
        BY <1>p, <1>q, <2>2, <2>3
    <2>5. /\ pointed # {} => \E j \in Record \ run.extras : records[j] # None
          /\ Droplet \in pointed =>
                \A j \in Record \ run.extras : records[j] \in {Droplet, None}
        BY <2>1 DEF OneMachine, At
    <2>6. pointed' # {} => \E j \in Record \ run'.extras : records'[j] # None
        BY <2>2, <2>3, <2>4, <2>5
    <2>7. Droplet \in pointed' =>
              \A j \in Record \ run'.extras : records'[j] \in {Droplet, None}
        BY <2>2, <2>3, <2>4, <2>5
    <2>8. Droplet \in pointed' /\ run'.extras = {} => pointed' = {Droplet}
        BY <1>q, <2>7
    <2> QED
        BY <1>m, <1>s, <2>1, <2>6, <2>7, <2>8 DEF OneMachine, At
<1>10. CASE AwaitHealth
    BY <1>k, <1>m, <1>t, <1>10, AwaitFacts DEF Still, At, Carries, Continues
<1>11. ASSUME UNCHANGED <<records, run>> PROVE OneMachine'
    <2>1. pointed' = pointed
        BY <1>11, <1>p, <1>q
    <2> QED
        BY <1>11, <2>1 DEF OneMachine, At
<1>12. CASE IssueCertificate
    BY <1>11, <1>12 DEF IssueCertificate
<1>13. CASE ClientFetch \/ UNCHANGED vars
    BY <1>11, <1>13 DEF ClientFetch, vars
<1> QED
    BY <1>1, <1>2, <1>3, <1>4, <1>5, <1>6, <1>7, <1>8, <1>9, <1>10, <1>12,
       <1>13 DEF Next

(* What a run finds under the name: the droplet's latest snapshot once the *)
(* name leads there, the older machine's before.                           *)
LEMMA FoundFacts ==
    ASSUME TypeOK, OneOrigin, OneMachine, At("fetch"),
           NEW h \in answering, Serves(h)
    PROVE  /\ Droplet \in pointed => site[h][Latest] = head
           /\ Droplet \notin pointed => site[h][Latest] \in Origin
<1>1. h \in Host /\ site[h][Latest] # None
    BY TypeFacts DEF Serves
<1>2. h # Droplet => site[h][Latest] \in Origin
    BY <1>1 DEF Origin
<1>3. Droplet \in pointed => pointed = {Droplet}
    BY DEF OneMachine, At
<1>4. listed = {} <=> pointed = {}
    BY PointedFacts
<1>5. Droplet \in pointed => h = Droplet
    BY <1>3, <1>4 DEF answering
<1>6. Droplet \notin pointed => h # Droplet
    BY DEF answering
<1> QED
    BY <1>2, <1>5, <1>6 DEF head

LEMMA ChainedRunStep ==
    ASSUME DeployInv, OneOrigin, OneMachine, ChainedRun, [Next]_vars,
           Adverse = {}
    PROVE  ChainedRun'
<1>t. TypeOK
    BY DEF DeployInv
<1>o. Origin' = Origin
    BY <1>t, OriginStays
<1>c. run # None =>
        /\ run.genesis => Origin = {}
        /\ run.pc = "fetch" => run.prev = None
        /\ run.pc # "fetch" /\ run.prev = None =>
              /\ run.genesis
              /\ run.pc = "sign" \/ (run.pc = "upload" /\ Latest \in run.todo)
                    => ~Public
        /\ run.pc # "fetch" /\ run.prev # None =>
              /\ run.pc \in {"sign", "upload", "dns"} /\ Droplet \notin pointed
                    => run.prev \in Origin
              /\ run.pc = "sign" \/ (run.pc = "upload" /\ Latest \in run.todo)
                    => (Droplet \in pointed => head = run.prev)
              /\ run.pc # "sign" => Succeeds(run.tree[Latest], run.prev)
    BY DEF ChainedRun
<1>s. ASSUME Still
      PROVE  head' = head /\ pointed' = pointed /\ Public' = Public
    BY <1>s DEF Still, head, pointed, listed, Public
<1>1. ASSUME NEW genesis \in BOOLEAN, NEW committed \in Signed \cup {None},
             Dispatch(genesis, committed)
      PROVE  ChainedRun'
    BY <1>o, <1>1, BeginFacts DEF ChainedRun
<1>2. CASE Abort \/ Health
    BY <1>2, EndFacts DEF ChainedRun
<1>3. CASE GenesisUnresolved \/ GenesisRecovery \/ Genesis404
    <2>1. /\ Still /\ run # None /\ run.pc = "fetch" /\ run'.pc = "sign"
          /\ run'.prev = run.prev /\ run'.genesis = run.genesis /\ run.genesis
          /\ \/ pointed = {}
             \/ pointed \subseteq {Droplet} /\ ~Serves(Droplet)
        BY <1>t, <1>3, GenesisFacts DEF Carries, Continues
    <2>2. ~Public
        BY <2>1 DEF Public, Serves, head
    <2> QED
        BY <1>c, <1>o, <1>s, <2>1, <2>2 DEF ChainedRun
<1>4. CASE ChainOntoLive
    <2>1. /\ Still /\ run # None /\ run.pc = "fetch" /\ run'.pc = "sign"
          /\ run'.genesis = run.genesis /\ run'.prev \in SnapshotDoc
        BY <1>t, <1>4, ChainFacts DEF Continues
    <2>2. PICK h \in answering : Serves(h) /\ run'.prev = site[h][Latest]
        BY <1>t, <1>4, ChainFacts
    <2>3. /\ Droplet \in pointed => run'.prev = head
          /\ Droplet \notin pointed => run'.prev \in Origin
        BY <1>t, <2>1, <2>2, FoundFacts DEF At
    <2>4. run'.prev # None
        BY <2>1, DocFacts
    <2> QED
        BY <1>c, <1>o, <1>s, <2>1, <2>3, <2>4 DEF ChainedRun
<1>5. ASSUME NEW now \in Time, SignInCI(now) \/ AdoptSigned(now)
      PROVE  ChainedRun'
    <2>1. /\ Still /\ run # None /\ run.pc = "sign" /\ run'.pc = "upload"
          /\ run'.prev = run.prev /\ run'.genesis = run.genesis
          /\ run'.tree[Latest] \in SnapshotDoc
          /\ verify_gate(run'.tree[Latest], run.prev, now)
        BY <1>5, LayOutFacts DEF Carries, Continues
    <2>2. run.prev \in SnapshotDoc \cup {None}
        BY <1>t, <2>1, TypeFacts DEF Run
    <2>3. run.prev # None => Succeeds(run'.tree[Latest], run.prev)
        BY <2>1, <2>2, GateSucceeds
    <2>4. run'.prev # None => Succeeds(run'.tree[Latest], run'.prev)
        BY <2>1, <2>3
    <2> QED
        BY <1>c, <1>o, <1>s, <2>1, <2>4 DEF ChainedRun
<1>6. ASSUME NEW f \in File, Upload(f) PROVE ChainedRun'
    <2>1. /\ UNCHANGED <<web, records>> /\ run # None
          /\ run.pc = "upload" /\ run'.pc = "upload"
          /\ run'.prev = run.prev /\ run'.genesis = run.genesis
          /\ run'.tree = run.tree
          /\ Latest \in run'.todo => head' = head /\ Latest \in run.todo
        BY <1>t, <1>6, UploadFacts DEF Carries, Continues
    <2>2. pointed' = pointed
        BY <2>1 DEF pointed, listed
    <2>3. run'.prev # None => Succeeds(run'.tree[Latest], run'.prev)
        BY <1>c, <2>1
    <2>4. head' = head => Public' = Public
        BY <2>1, <2>2 DEF Public
    <2> QED
        BY <1>c, <1>o, <2>1, <2>2, <2>3, <2>4 DEF ChainedRun
<1>7. CASE EnsureVhost
    <2>1. /\ UNCHANGED records /\ run # None
          /\ run.pc = "upload" /\ run'.pc = "dns"
          /\ run'.prev = run.prev /\ run'.genesis = run.genesis
          /\ run'.tree = run.tree
        BY <1>t, <1>7, VhostFacts DEF Carries, Continues
    <2>2. pointed' = pointed
        BY <2>1 DEF pointed, listed
    <2>3. run'.prev # None => Succeeds(run'.tree[Latest], run'.prev)
        BY <1>c, <2>1
    <2> QED
        BY <1>c, <1>o, <2>1, <2>2, <2>3 DEF ChainedRun
<1>8. CASE UpsertRecord \/ DeleteExtra \/ AwaitHealth
    <2>1. /\ run # None /\ run.pc \in {"dns", "extras"}
          /\ run'.pc \in {"extras", "health"}
          /\ run'.prev = run.prev /\ run'.genesis = run.genesis
          /\ run'.tree = run.tree
        BY <1>t, <1>8, UpsertFacts, DeleteFacts, AwaitFacts
           DEF Carries, Continues
    <2>3. run'.prev # None => Succeeds(run'.tree[Latest], run'.prev)
        BY <1>c, <2>1
    <2> QED
        BY <1>c, <1>o, <2>1, <2>3 DEF ChainedRun
<1>9. CASE IssueCertificate
    <2>1. /\ UNCHANGED <<site, records, run>>
          /\ run # None => run.pc \notin {"fetch", "sign", "upload"}
        BY <1>t, <1>9, CertFacts
    <2>2. pointed' = pointed
        BY <2>1 DEF pointed, listed
    <2> QED
        BY <1>c, <1>o, <2>1, <2>2 DEF ChainedRun
<1>10. CASE ClientFetch \/ UNCHANGED vars
    <2>1. UNCHANGED <<site, web, records, run>>
        BY <1>10 DEF ClientFetch, vars
    <2>2. head' = head /\ pointed' = pointed
        BY <2>1 DEF head, pointed, listed
    <2>3. Public' = Public
        BY <2>1, <2>2 DEF Public
    <2> QED
        BY <1>c, <1>o, <2>1, <2>2, <2>3 DEF ChainedRun
<1> QED
    BY <1>1, <1>2, <1>3, <1>4, <1>5, <1>6, <1>7, <1>8, <1>9, <1>10 DEF Next

(* What may be served after d today may be served after d for good.        *)
LEMMA LeadsStep ==
    ASSUME ChainInv, [Next]_vars, Adverse = {},
           NEW d \in SnapshotDoc, Leads(d)
    PROVE  Leads(d)'
<1>i. /\ DeployInv /\ TypeOK /\ Delivered /\ OneOrigin /\ OneMachine
      /\ ChainedRun
    BY DEF ChainInv, DeployInv
<1>o. Origin' = Origin
    BY <1>i, OriginStays
<1>d. /\ \A o \in Origin : Succeeds(d, o)
      /\ ~Public => d \in Origin
      /\ Droplet \in pointed => Succeeds(head, d)
    BY DEF Leads
<1>a. (\A o \in Origin : Succeeds(d, o))'
    BY <1>d, <1>o DEF Succeeds
<1>k. ASSUME Public => Public', head' = head,
             Droplet \in pointed' => Droplet \in pointed
      PROVE  Leads(d)'
    BY <1>a, <1>d, <1>k, <1>o DEF Leads, Succeeds
<1>p. ASSUME head' = head, pointed' = pointed,
             web[Droplet] = "https" => web'[Droplet] = "https"
      PROVE  Leads(d)'
    <2>1. Public => Public'
        BY <1>p DEF Public
    <2> QED
        BY <1>k, <1>p, <2>1
<1>1. ASSUME NEW f \in File, Upload(f) PROVE Leads(d)'
    <2>1. /\ UNCHANGED <<web, records>> /\ run # None /\ run.pc = "upload"
          /\ IF f = Latest THEN Latest \in run.todo /\ head' = run.tree[Latest]
                           ELSE head' = head
        BY <1>i, <1>1, UploadFacts DEF Carries, Continues
    <2>2. pointed' = pointed
        BY <2>1 DEF pointed, listed
    <2>3. CASE f # Latest
        BY <1>p, <2>1, <2>2, <2>3
    <2>4. CASE f = Latest
        <3>1. /\ run.prev = None => Origin = {} /\ ~Public
              /\ run.prev # None =>
                    /\ Droplet \in pointed => head = run.prev
                    /\ Succeeds(run.tree[Latest], run.prev)
            BY <1>i, <2>1, <2>4 DEF ChainedRun
        <3>2. run.prev # None
            BY <1>d, <3>1
        <3>3. run.prev \in SnapshotDoc /\ run.tree[Latest] \in SnapshotDoc
            <4>1. /\ run \in Run /\ run.tree[Latest] # None
                BY <1>i, <2>1, TypeFacts DEF Delivered
            <4> QED
                BY <3>2, <4>1, FileFacts DEF Run, Tree
        <3>4. Droplet \in pointed => Succeeds(run.tree[Latest], d)
            BY <1>d, <3>1, <3>2, <3>3, SucceedsIsTransitive
        <3>5. Droplet \in pointed' => Succeeds(head', d)
            BY <2>1, <2>2, <2>4, <3>4
        <3>6. Public => Public'
            BY <2>1, <2>2, <2>4, <3>3, DocFacts DEF Public
        <3> QED
            BY <1>a, <1>d, <1>o, <2>1, <3>5, <3>6 DEF Leads, Succeeds
    <2> QED
        BY <2>3, <2>4
<1>2. CASE EnsureVhost
    <2>1. /\ UNCHANGED <<site, records>>
          /\ web'[Droplet] = "https" <=> web[Droplet] = "https"
        BY <1>i, <1>2, VhostFacts
    <2> QED
        BY <1>p, <2>1 DEF head, pointed, listed
(* The name moves to the droplet.                                          *)
<1>3. CASE UpsertRecord \/ DeleteExtra
    <2>1. UNCHANGED <<site, web>>
        BY <1>i, <1>3, UpsertFacts, DeleteFacts
    <2>2. head' = head
        BY <2>1 DEF head
    <2>3. CASE Droplet \in pointed' => Droplet \in pointed
        <3>1. Public => Public'
            BY <1>i, <2>1, <2>2, RecordSteps DEF Public
        <3> QED
            BY <1>k, <2>1, <2>2, <2>3, <3>1
    <2>4. CASE Droplet \in pointed' /\ Droplet \notin pointed
        <3>1. run # None /\ run.pc = "dns"
            BY <1>i, <2>4, RecordSteps DEF At
        <3>2. ~Public /\ d \in Origin
            BY <1>d, <2>4 DEF Public
        <3>3. run.prev \in Origin /\ Succeeds(run.tree[Latest], run.prev)
            BY <1>i, <2>4, <3>1, <3>2 DEF ChainedRun
        <3>4. run.prev = d
            BY <1>i, <3>2, <3>3 DEF OneOrigin
        <3>5. head = run.tree[Latest]
            BY <1>i, <3>1, FileFacts DEF Delivered, head
        <3>6. Succeeds(head', d)
            BY <2>2, <3>3, <3>4, <3>5
        <3> QED
            BY <1>a, <1>o, <3>2, <3>6 DEF Leads, Succeeds
    <2> QED
        BY <2>3, <2>4
<1>4. CASE IssueCertificate
    <2>1. UNCHANGED <<site, records>> /\ web' = [web EXCEPT ![Droplet] = "https"]
        BY <1>4 DEF IssueCertificate
    <2>2. web'[Droplet] = "https"
        BY <1>i, <2>1, TypeFacts
    <2> QED
        BY <1>p, <2>1, <2>2 DEF head, pointed, listed
<1>5. CASE UNCHANGED <<site, web, records>>
    BY <1>p, <1>5 DEF head, pointed, listed
<1> QED
    BY <1>1, <1>2, <1>3, <1>4, <1>5
       DEF Next, Dispatch, Abort, GenesisUnresolved, GenesisRecovery,
           Genesis404, StartGenesis, ChainOntoLive, SignInCI, AdoptSigned,
           LayOut, AwaitHealth, Health, ClientFetch, vars

LEMMA ChainStep ==
    ASSUME Adverse = {}
    PROVE  ChainInv /\ [Next]_vars => ChainInv'
<1> SUFFICES ASSUME ChainInv, [Next]_vars PROVE ChainInv'
    OBVIOUS
<1>1. /\ DeployInv /\ TypeOK /\ OneOrigin /\ OneMachine /\ ChainedRun
      /\ \A o \in Origin : Leads(o)
    BY DEF ChainInv, DeployInv
<1>2. Origin' = Origin
    BY <1>1, OriginStays
<1>3. Origin \subseteq SnapshotDoc
    BY <1>1, TypeFacts, FileFacts DEF Origin
<1>4. \A o \in Origin : Leads(o)'
    BY <1>1, <1>3, LeadsStep
<1>5. (\A o \in Origin : Leads(o))'
    BY <1>2, <1>4
<1> QED
    BY <1>1, <1>5, DeployStep, OneOriginStep, OneMachineStep, ChainedRunStep
       DEF ChainInv

-----------------------------------------------------------------------------
(* What clients are served                                                 *)

(* The snapshot a client finds is the droplet's, which may be served after *)
(* all others, or the older machine's, after which all others come.        *)
LEMMA ServedFacts ==
    ASSUME ChainInv, NEW h \in pointed, Serves(h)
    PROVE  /\ site[h][Latest] \in SnapshotDoc /\ Leads(site[h][Latest])
           /\ h = Droplet =>
                 \A d \in SnapshotDoc : Leads(d) => Succeeds(site[h][Latest], d)
           /\ h # Droplet =>
                 /\ site[h][Latest] \in Origin
                 /\ \A d \in SnapshotDoc : Leads(d) => Succeeds(d, site[h][Latest])
<1>1. TypeOK /\ \A o \in Origin : Leads(o)
    BY DEF ChainInv, DeployInv
<1>2. h \in Host /\ site[h][Latest] # None /\ site[h][Latest] \in SnapshotDoc
    BY <1>1, TypeFacts, FileFacts DEF Serves
<1>3. CASE h = Droplet
    <2>1. site[h][Latest] = head /\ Public /\ Droplet \in pointed
        BY <1>3 DEF head, Serves, Public
    <2>2. \A d \in SnapshotDoc : Leads(d) => Succeeds(head, d)
        BY <2>1 DEF Leads
    <2>3. \A o \in Origin : Succeeds(head, o)
        BY <1>1, <2>1 DEF Leads
    <2>4. Leads(head)
        BY <2>1, <2>3 DEF Leads, Succeeds
    <2> QED
        BY <1>2, <1>3, <2>1, <2>2, <2>4
<1>4. CASE h # Droplet
    <2>1. site[h][Latest] \in Origin
        BY <1>2, <1>4 DEF Origin
    <2> QED
        BY <1>1, <1>2, <1>4, <2>1 DEF Leads
<1> QED
    BY <1>3, <1>4

LEMMA OneChainStep ==
    ASSUME Adverse = {}
    PROVE  ChainInv /\ OneChainServed /\ [Next]_vars => OneChainServed'
<1> SUFFICES ASSUME ChainInv, OneChainServed, [Next]_vars
             PROVE  OneChainServed'
    OBVIOUS
<1>1. observed \subseteq SnapshotDoc
    BY TypeFacts DEF ChainInv, DeployInv
<1>2. /\ \A d \in observed : Leads(d)
      /\ \A d, e \in observed : Succeeds(d, e) \/ Succeeds(e, d)
    BY DEF OneChainServed
<1>3. CASE observed' = observed
    <2>1. \A d \in observed : Leads(d)'
        BY <1>1, <1>2, LeadsStep
    <2>2. (\A d \in observed : Leads(d))'
        BY <1>3, <2>1
    <2> QED
        BY <1>2, <1>3, <2>2 DEF OneChainServed, Succeeds
<1>4. CASE ClientFetch
    <2>1. PICK h \in pointed :
              Serves(h) /\ observed' = observed \cup {site[h][Latest]}
        BY <1>4 DEF ClientFetch
    <2> DEFINE s == site[h][Latest]
    <2>2. /\ s \in SnapshotDoc /\ Leads(s)
          /\ \A d \in observed : Succeeds(s, d) \/ Succeeds(d, s)
        BY <1>1, <1>2, <2>1, ServedFacts
    <2> HIDE DEF s
    <2>3. observed' = observed \cup {s}
        BY <2>1 DEF s
    <2>4. \A d \in observed \cup {s} : Leads(d)'
        BY <1>1, <1>2, <2>2, LeadsStep
    <2>5. (\A d \in observed : Leads(d))'
        BY <2>3, <2>4
    <2>6. \A d, e \in observed \cup {s} : Succeeds(d, e) \/ Succeeds(e, d)
        BY <1>2, <2>2 DEF Succeeds
    <2> QED
        BY <2>3, <2>5, <2>6 DEF OneChainServed, Succeeds
<1> QED
    BY <1>3, <1>4
       DEF Next, Dispatch, Abort, GenesisUnresolved, GenesisRecovery,
           Genesis404, StartGenesis, ChainOntoLive, SignInCI, AdoptSigned,
           LayOut, Upload, EnsureVhost, UpsertRecord, DeleteExtra,
           AwaitHealth, Health, IssueCertificate, vars

LEMMA OneChainHolds ==
    ASSUME Adverse = {}
    PROVE  Spec => [](ChainInv /\ TypeOK /\ OneChainServed)
<1>1. ChainInv => TypeOK
    BY DEF ChainInv, DeployInv
<1> QED
    BY <1>1, ChainInit, ChainStep, OneChainStep, PTL DEF Spec

(* Over all runs, dying at any step, signed in CI or not, declared genesis *)
(* or not: as long as ci-assemble.sh reads the zone and the droplet right, *)
(* no certificate arrives in the middle of a recovery, genesis is not      *)
(* declared for a chain another machine serves, and no record of that      *)
(* machine outlives its run, clients are never served two snapshots under  *)
(* one sequence number.                                                    *)
THEOREM ChainNeverForks ==
    ASSUME Adverse = {}
    PROVE  Spec => []NoForkServed
<1>1. TypeOK /\ OneChainServed => NoForkServed
    <2> SUFFICES ASSUME TypeOK, OneChainServed, NEW d \in observed,
                        NEW e \in observed, d.sequence = e.sequence
                 PROVE  d = e
        BY DEF NoForkServed
    <2>1. d.sequence \in Nat
        BY TypeFacts, DocFacts
    <2> QED
        BY <2>1 DEF OneChainServed, Succeeds
<1> QED
    BY <1>1, OneChainHolds, PTL

(* Under the same assumption, snapshots served under neighbouring numbers  *)
(* are linked, however many runs failed or jumped ahead in between.        *)
THEOREM ServedChainIsLinked ==
    ASSUME Adverse = {}
    PROVE  Spec => []ServedNeighboursChain
<1>1. TypeOK /\ OneChainServed => ServedNeighboursChain
    <2> SUFFICES ASSUME TypeOK, OneChainServed, NEW d \in observed,
                        NEW e \in observed, e.sequence = d.sequence + 1
                 PROVE  e.previous_digest = d.digest
        BY DEF ServedNeighboursChain
    <2>1. d.sequence \in Nat /\ e.sequence \in Nat
        BY TypeFacts, DocFacts
    <2> QED
        BY <2>1 DEF OneChainServed, Succeeds
<1> QED
    BY <1>1, OneChainHolds, PTL

(* Under the same assumption the name never goes back: whatever died or    *)
(* moved since a client was served d, what it is served now may follow d,  *)
(* unless it comes from the machine a run is still moving away from.       *)
THEOREM ServedNeverGoesBack ==
    ASSUME Adverse = {}
    PROVE  Spec => []NoRollbackServed
<1>1. ChainInv /\ TypeOK /\ OneChainServed => NoRollbackServed
    <2> SUFFICES ASSUME ChainInv, TypeOK, OneChainServed, NEW d \in observed,
                        NEW h \in pointed, Serves(h)
                 PROVE  \/ Succeeds(site[h][Latest], d)
                        \/ h # Droplet /\ At("extras") /\ run.extras # {}
        BY DEF NoRollbackServed
    <2>1. d \in SnapshotDoc /\ Leads(d)
        BY TypeFacts DEF OneChainServed
    <2>2. CASE h = Droplet
        BY <2>1, <2>2, ServedFacts
    <2>3. CASE h # Droplet
        <3>1. site[h][Latest] \in Origin
            BY <2>3, ServedFacts
        <3>2. CASE Droplet \in pointed
            BY <2>3, <3>2 DEF ChainInv, OneMachine
        <3>3. CASE Droplet \notin pointed
            <4>1. d \in Origin
                BY <2>1, <3>3 DEF Public, Leads
            <4>2. site[h][Latest] = d
                BY <3>1, <4>1 DEF ChainInv, OneOrigin
            <4> QED
                BY <4>2 DEF Succeeds
        <3> QED
            BY <3>2, <3>3
    <2> QED
        BY <2>2, <2>3
<1> QED
    BY <1>1, OneChainHolds, PTL

-----------------------------------------------------------------------------
(* The builder and the verify gate                                         *)

(* What the builder leaves to the verifier, and the operator keeps right   *)
(* by hand: the manifest verifies and declares the catalog of the config   *)
(* under its policy and the seed's key, and the document is not too large  *)
(* and lists no component twice.                                           *)
Agreed ==
    /\ \A now \in Time : verify_manifest(Manifest, now) = "ok"
    /\ Manifest.provider_id = Config.provider_id
    /\ Manifest.operator = OperatorKey
    /\ public_catalogs(Manifest, Config.catalog_id) # {}
    /\ descriptor(Manifest, Config.catalog_id).policy = Config.policy_digest
    /\ Config.fits /\ Len(Config.entries) <= MAX_ENTRIES
    /\ ~duplicate_component(Config)

(* s is the provider's own; nothing in build_snapshot asks.                *)
Own(s) == s # None => s.provider_id = Config.provider_id

(* Only the provider's snapshots are ever chained onto or laid out.        *)
OwnSnapshots ==
    /\ \A h \in Host : Own(site[h][Latest])
    /\ run # None =>
          /\ run.pc \in {"fetch", "sign"} => Own(run.prev)
          /\ run.pc \notin {"fetch", "sign"} => Own(run.tree[Latest])

(* Under these conditions every check of verify_snapshot passes on what    *)
(* build_snapshot returns, against the snapshot it was built onto.         *)
LEMMA BuiltMeetsGate ==
    ASSUME Agreed, NEW prev \in SnapshotDoc \cup {None}, Own(prev),
           NEW now \in Time, NEW s \in SnapshotDoc,
           s = build_snapshot(Config, prev, now, OperatorKey)
    PROVE  verify_gate(s, prev, now)
<1> DEFINE r == IF prev = None THEN None ELSE from_snapshot_bytes(prev, None)
<1>1. /\ s # None /\ s.sequence \in 1 .. MaxSequence
      /\ Config \in SnapshotConfig /\ now \in Nat
      /\ MAX_EXPIRY_WINDOW \in Nat /\ CLOCK_SKEW \in Nat /\ MAX_ENTRIES \in Nat
    BY DocFacts, DeploymentAssumption, BoundAssumption
<1>2. /\ Config.expiry \in 1 .. MAX_EXPIRY_WINDOW
      /\ usable_previous(Config, prev)
      /\ s.parses /\ s.in_profile = Config.fits /\ ~s.dup_keys
      /\ s.signer = OperatorKey
      /\ s.provider_id = Config.provider_id /\ s.catalog_id = Config.catalog_id
      /\ s.sequence = next_sequence(prev) /\ s.previous_digest = link(prev)
      /\ s.policy_digest = Config.policy_digest
      /\ s.generated_at = now /\ s.expires_at = now + Config.expiry
      /\ s.entries = Config.entries
    BY <1>1 DEF build_snapshot
<1>3. authentic(s, Manifest.operator)
    BY <1>2 DEF authentic, Agreed
<1>4. ~dates_invalid(s, now) /\ ~expired(s, now)
    <2>1. now # Malformed /\ now + Config.expiry # Malformed
        BY <1>1, <1>2, OptionAssumption
    <2> QED
        BY <1>1, <1>2, <2>1 DEF dates_invalid, expired
<1>5. policy_pinned(s, Manifest, r)
    <2>1. Config.policy_digest # Malformed
        BY <1>1, OptionAssumption DEF SnapshotConfig
    <2> QED
        BY <1>2, <2>1 DEF policy_pinned, Agreed
<1>6. ~duplicate_component(s) /\ Len(s.entries) <= MAX_ENTRIES
    BY <1>2 DEF duplicate_component, surviving, Agreed
<1>7. /\ prev # None => r # None
      /\ same_source(s, r) /\ well_chained(s)
      /\ chain_outcome(s, r) \in Accepting
    <2>1. CASE prev = None
        <3>1. s.sequence = 1 /\ s.previous_digest = None /\ r = None
            BY <1>2, <2>1 DEF next_sequence, link
        <3> QED
            BY <2>1, <3>1 DEF same_source, well_chained, chain_outcome, Accepting
    <2>2. CASE prev # None
        <3>1. /\ prev \in SnapshotDoc /\ prev.sequence \in 1 .. MaxSequence
              /\ prev.digest \in Digest
            BY <2>2, DocFacts DEF CatalogSnapshot
        <3>2. prev.digest \notin {None, Malformed}
            BY <3>1, OptionAssumption
        <3>3. s.sequence = prev.sequence + 1 /\ s.previous_digest = prev.digest
            <4>1. s.sequence = (prev.sequence + 1) % U64
                BY <1>2, <2>2 DEF next_sequence
            <4>2. prev.sequence + 1 < U64 \/ prev.sequence + 1 = U64
                BY <3>1, U64Assumption, DeploymentAssumption
            <4>3. prev.sequence + 1 # U64
                BY <1>1, <3>1, <4>1, U64Assumption
            <4>4. (prev.sequence + 1) % U64 = prev.sequence + 1
                BY <3>1, <4>2, <4>3, U64Assumption
            <4> QED
                BY <1>2, <2>2, <4>1, <4>4 DEF link
        <3>4. /\ ~prev.dup_keys /\ prev.parses
              /\ prev.catalog_id = Config.catalog_id
            BY <1>2, <2>2 DEF usable_previous
        <3>5. r = [provider_id |-> prev.provider_id,
                   catalog_id |-> prev.catalog_id,
                   sequence |-> prev.sequence, digest |-> prev.digest,
                   previous_policy |-> None]
            BY <2>2, <3>4 DEF from_snapshot_bytes
        <3> HIDE DEF r
        <3>6. r # None
            <4>1. r \in RetainedCatalogState
                BY <3>1, <3>5, DocFacts DEF RetainedCatalogState, CatalogSnapshot
            <4> QED
                BY <4>1, OptionAssumption
        <3>7. same_source(s, r)
            BY <1>2, <2>2, <3>4, <3>5 DEF same_source, Own
        <3>8. chain_outcome(s, r) = "Successor"
            BY <3>1, <3>3, <3>5, <3>6 DEF chain_outcome
        <3>9. well_chained(s)
            BY <3>1, <3>2, <3>3 DEF well_chained
        <3> QED
            BY <3>6, <3>7, <3>8, <3>9 DEF Accepting
    <2> QED
        BY <2>1, <2>2
<1> HIDE DEF r
<1>8. ~(Len(s.entries) > MAX_ENTRIES)
    <2>1. Len(Config.entries) \in Nat
        BY <1>1 DEF SnapshotConfig
    <2> QED
        BY <1>1, <1>2, <1>6, <2>1
<1>9. verify_snapshot(s, Manifest, r, now) = chain_outcome(s, r)
    BY <1>2, <1>3, <1>4, <1>5, <1>6, <1>7, <1>8 DEF verify_snapshot, Agreed
<1> QED
    BY <1>7, <1>9 DEF verify_gate, Agreed, r

LEMMA OwnInit ==
    ASSUME \A s \in Live : Own(s)
    PROVE  Init => OwnSnapshots
<1> SUFFICES ASSUME Init PROVE OwnSnapshots
    OBVIOUS
<1>1. NoFiles[Latest] = None
    BY FileFacts DEF NoFiles
<1>2. \A s \in Live : BuiltTree(s)[Latest] = s
    BY TreeFacts, DeploymentAssumption
<1>3. PICK t \in {NoFiles} \cup {BuiltTree(s) : s \in Live} :
          site = [h \in Host |->
                     IF h \in pointed \ {Droplet} THEN t ELSE NoFiles]
    BY DEF Init
<1>4. Own(t[Latest])
    BY <1>1, <1>2, <1>3 DEF Own
<1>5. \A h \in Host : Own(site[h][Latest])
    BY <1>1, <1>3, <1>4 DEF Own
<1>6. run = None
    BY DEF Init
<1> QED
    BY <1>5, <1>6 DEF OwnSnapshots

(* What passed the gate is of the provider the manifest names, whoever     *)
(* signed it.                                                              *)
LEMMA OwnStep ==
    ASSUME Agreed, DeployInv, OwnSnapshots, [Next]_vars
    PROVE  OwnSnapshots'
<1>t. TypeOK
    BY DEF DeployInv
<1>o. /\ \A h \in Host : Own(site[h][Latest])
      /\ run # None /\ run.pc \in {"fetch", "sign"} => Own(run.prev)
      /\ run # None /\ run.pc \notin {"fetch", "sign"} => Own(run.tree[Latest])
    BY DEF OwnSnapshots
<1>k. ASSUME site' = site,
             run' # None =>
                /\ run'.pc \in {"fetch", "sign"} => Own(run'.prev)
                /\ run'.pc \notin {"fetch", "sign"} => Own(run'.tree[Latest])
      PROVE  OwnSnapshots'
    BY <1>k, <1>o DEF OwnSnapshots, Own
<1>c. ASSUME site' = site, run # None, run.pc \notin {"fetch", "sign"},
             run'.pc \notin {"fetch", "sign"}, run'.tree = run.tree
      PROVE  OwnSnapshots'
    BY <1>c, <1>k, <1>o
<1>1. ASSUME NEW genesis \in BOOLEAN, NEW committed \in Signed \cup {None},
             Dispatch(genesis, committed)
      PROVE  OwnSnapshots'
    <2>1. site' = site /\ run'.pc = "fetch" /\ run'.prev = None
        BY <1>1 DEF Dispatch
    <2> QED
        BY <1>k, <2>1 DEF Own
<1>2. CASE Abort \/ Health
    BY <1>2, <1>k DEF Abort, Health
<1>3. CASE GenesisUnresolved \/ GenesisRecovery \/ Genesis404
    <2>1. /\ site' = site /\ run # None /\ run.pc = "fetch"
          /\ run' = [run EXCEPT !.pc = "sign"] /\ run \in Run
        BY <1>3, <1>t, TypeFacts
           DEF GenesisUnresolved, GenesisRecovery, Genesis404, StartGenesis,
               Goto, At
    <2>2. run'.pc = "sign" /\ run'.prev = run.prev
        BY <2>1 DEF Run
    <2> QED
        BY <1>k, <1>o, <2>1, <2>2
<1>4. CASE ChainOntoLive
    <2>1. /\ site' = site /\ run'.pc = "sign"
          /\ \E h \in answering : run'.prev = site[h][Latest]
        BY <1>4, <1>t, ChainFacts DEF Continues, Still
    <2>2. Own(run'.prev)
        BY <1>o, <1>t, <2>1, TypeFacts
    <2> QED
        BY <1>k, <2>1, <2>2
<1>5. ASSUME NEW now \in Time, SignInCI(now) \/ AdoptSigned(now)
      PROVE  OwnSnapshots'
    <2>1. /\ site' = site /\ run'.pc = "upload"
          /\ verify_gate(run'.tree[Latest], run.prev, now)
        BY <1>5, LayOutFacts DEF Carries, Continues, Still
    <2> DEFINE s == run'.tree[Latest]
    <2>2. PICK r : verify_snapshot(s, Manifest, r, now) \in Accepting
        BY <2>1 DEF verify_gate
    <2>3. s.provider_id = Manifest.provider_id
        <3> HIDE DEF s
        <3> QED
            BY <2>2 DEF verify_snapshot, Accepting
    <2> QED
        BY <1>k, <2>1, <2>3 DEF Agreed, Own
<1>6. ASSUME NEW f \in File, Upload(f) PROVE OwnSnapshots'
    <2>1. /\ run # None /\ run.pc = "upload" /\ run'.pc = "upload"
          /\ run'.tree = run.tree
          /\ \A h \in Host \ {Droplet} : site'[h] = site[h]
          /\ head' = head \/ head' = run.tree[Latest]
        BY <1>6, <1>t, UploadFacts DEF Carries, Continues
    <2>2. \A h \in Host : Own(site'[h][Latest])
        BY <1>o, <1>t, <2>1, TypeFacts DEF head
    <2>3. run' # None /\ Own(run'.tree[Latest])
        BY <1>6, <1>o, <1>t, <2>1, UploadFacts DEF Carries, Continues
    <2> QED
        BY <2>1, <2>2, <2>3 DEF OwnSnapshots, Own
<1>7. CASE EnsureVhost \/ UpsertRecord \/ AwaitHealth
    BY <1>7, <1>c, <1>t, VhostFacts, UpsertFacts, AwaitFacts
       DEF Carries, Continues, Still
<1>8. CASE DeleteExtra
    <2>1. /\ site' = site /\ run # None /\ run.pc = "extras" /\ run \in Run
          /\ \E i \in run.extras : run' = [run EXCEPT !.extras = @ \ {i}]
        BY <1>8, <1>t, TypeFacts DEF DeleteExtra, At
    <2>2. run'.pc = "extras" /\ run'.tree = run.tree
        BY <2>1 DEF Run
    <2> QED
        BY <1>c, <2>1, <2>2
<1>9. CASE IssueCertificate \/ ClientFetch \/ UNCHANGED vars
    <2>1. site' = site /\ run' = run
        BY <1>9 DEF IssueCertificate, ClientFetch, vars
    <2> QED
        BY <1>k, <1>o, <2>1
<1> QED
    BY <1>1, <1>2, <1>3, <1>4, <1>5, <1>6, <1>7, <1>8, <1>9 DEF Next

(* Also under every event of Adverse: if config, manifest and seed agree   *)
(* and the older machine serves the provider's own chain, no run is        *)
(* refused what it built itself, whichever snapshot it fetched.            *)
THEOREM OwnBuildIsAccepted ==
    ASSUME Agreed, \A s \in Live : Own(s)
    PROVE  Spec => []OwnBuildPasses
<1>1. Init => DeployInv /\ OwnSnapshots
    BY DeployInit, OwnInit
<1>2. DeployInv /\ OwnSnapshots /\ [Next]_vars => (DeployInv /\ OwnSnapshots)'
    BY DeployStep, OwnStep
<1>3. DeployInv /\ OwnSnapshots => OwnBuildPasses
    <2> SUFFICES ASSUME DeployInv, OwnSnapshots, At("sign"), NEW now \in Time,
                        NEW s, s = build_snapshot(Config, run.prev, now,
                                                  OperatorKey),
                        s # None, s.sequence <= MaxSequence
                 PROVE  verify_gate(s, run.prev, now)
        BY DEF OwnBuildPasses
    <2>1. run \in Run /\ Own(run.prev)
        BY TypeFacts DEF DeployInv, OwnSnapshots, At
    <2>2. run.prev \in SnapshotDoc \cup {None}
        BY <2>1 DEF Run
    <2>3. s \in SnapshotDoc
        BY <2>2, BuiltFacts
    <2> QED
        BY <2>1, <2>2, <2>3, BuiltMeetsGate
<1> QED
    BY <1>1, <1>2, <1>3, PTL DEF Spec
=============================================================================
