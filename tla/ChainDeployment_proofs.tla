----------------------- MODULE ChainDeployment_proofs -----------------------
(***************************************************************************)
(* For any machines, records, signed trees and length of the chain: a step *)
(* that makes a record lead to the droplet finds all of the run there and  *)
(* the vhost up, and, when signed trees agree with the chain they may be   *)
(* laid over, a completed upload retains the predecessor.  The invariant   *)
(* says how far the upload is.                                             *)
(***************************************************************************)
EXTENDS ChainDeployment, TLAPS

(* Every file of the tree is on the droplet or still to be uploaded.       *)
Delivered ==
    run # None =>
        /\ run.pc \in {"fetch", "sign"} => run.todo = {}
        /\ run.pc \notin {"fetch", "sign"} =>
              /\ run.tree[Latest] # None
              /\ \A f \in File : run.tree[f] # None /\ f \notin run.todo
                    => site[Droplet][f] = run.tree[f]
        /\ run.pc \in {"dns", "extras", "health"} =>
              run.todo = {} /\ web[Droplet] # "down"

DeployInv == TypeOK /\ Delivered

(* A signed tree may bring siblings along, but under the number of a       *)
(* snapshot that the gate lets its latest follow only that snapshot.       *)
SignedAgrees ==
    \A t \in Signed, s \in SnapshotDoc, now \in Time :
        verify_gate(t[Latest], s, now) =>
            t[Sibling(s.sequence)] \in {None, s}

(* The tree of a run carries the snapshot it was chained onto.             *)
Pinned ==
    run # None =>
        /\ run.pc = "fetch" => run.prev = None
        /\ run.pc # "fetch" /\ run.prev # None =>
              run.tree[Sibling(run.prev.sequence)] = run.prev

-----------------------------------------------------------------------------
(* Files, trees and documents                                              *)

LEMMA FileFacts ==
    /\ Latest \in File
    /\ \A n \in 1 .. MaxSequence : Sibling(n) \in File /\ Sibling(n) # Latest
    /\ \A n, m \in 1 .. MaxSequence : Sibling(n) = Sibling(m) => n = m
BY DEF File, Latest, Sibling

LEMMA DocFacts ==
    ASSUME NEW d \in SnapshotDoc
    PROVE  /\ d # None /\ d \in CatalogSnapshot
           /\ d.sequence \in 1 .. MaxSequence
BY DeploymentAssumption, BuildAssumption, DocAssumption

LEMMA TreeFacts ==
    /\ NoFiles \in Tree
    /\ \A s \in SnapshotDoc :
          /\ BuiltTree(s) \in Tree /\ BuiltTree(s)[Latest] = s
          /\ \A n \in 1 .. MaxSequence :
                BuiltTree(s)[Sibling(n)] =
                    IF n = s.sequence THEN s ELSE None
    /\ \A t, u \in Tree : Overlay(t, u) \in Tree
    /\ \A t, u \in Tree : \A f \in File :
          Overlay(t, u)[f] = IF u[f] = None THEN t[f] ELSE u[f]
<1>1. NoFiles \in Tree
    BY DEF NoFiles, Tree
<1>2. ASSUME NEW s \in SnapshotDoc
      PROVE  /\ BuiltTree(s) \in Tree /\ BuiltTree(s)[Latest] = s
             /\ \A n \in 1 .. MaxSequence :
                   BuiltTree(s)[Sibling(n)] =
                       IF n = s.sequence THEN s ELSE None
    <2>1. s.sequence \in 1 .. MaxSequence
        BY DocFacts
    <2>2. BuiltTree(s) \in Tree
        BY DEF BuiltTree, NoFiles, Tree
    <2>3. BuiltTree(s)[Latest] = s
        BY <2>1, FileFacts DEF BuiltTree, NoFiles
    <2>4. ASSUME NEW n \in 1 .. MaxSequence
          PROVE  BuiltTree(s)[Sibling(n)] =
                     IF n = s.sequence THEN s ELSE None
        BY <2>1, FileFacts DEF BuiltTree, NoFiles
    <2> QED
        BY <2>2, <2>3, <2>4
<1>3. \A t, u \in Tree : Overlay(t, u) \in Tree
    BY DEF Overlay, Tree
<1>4. \A t, u \in Tree : \A f \in File :
          Overlay(t, u)[f] = IF u[f] = None THEN t[f] ELSE u[f]
    BY DEF Overlay
<1> QED
    BY <1>1, <1>2, <1>3, <1>4

LEMMA SignedFacts ==
    ASSUME NEW t \in Signed
    PROVE  t \in Tree /\ t[Latest] # None /\ t[Latest] \in SnapshotDoc
BY SignedAssumption, FileFacts DEF Tree

(* What a run builds below the bound is one of the documents.              *)
LEMMA BuiltFacts ==
    ASSUME NEW prev \in SnapshotDoc \cup {None}, NEW now \in Time,
           NEW s, s = build_snapshot(Config, prev, now, OperatorKey),
           s # None, s.sequence <= MaxSequence
    PROVE  s \in SnapshotDoc
<1>1. CASE prev = None
    <2>1. s.sequence = 1
        BY <1>1 DEF build_snapshot, next_sequence
    <2>2. ~(s.sequence > MaxSequence)
        BY <2>1, DeploymentAssumption
    <2> QED
        BY <2>2, BuildAssumption
<1>2. CASE prev # None
    <2>1. s.sequence = (prev.sequence + 1) % U64
        BY <1>2 DEF build_snapshot, next_sequence
    <2>2. prev.sequence \in Nat
        BY <1>2, DocFacts
    <2>3. s.sequence \in Int
        BY <2>1, <2>2, U64Assumption
    <2>4. ~(s.sequence > MaxSequence)
        BY <2>3, DeploymentAssumption
    <2> QED
        BY <2>4, BuildAssumption
<1> QED
    BY <1>1, <1>2

LEMMA TypeFacts ==
    ASSUME TypeOK
    PROVE  /\ site \in [Host -> Tree]
           /\ \A h \in Host, f \in File : site[h][f] \in SnapshotDoc \cup {None}
           /\ web \in [Host -> {"down", "http", "https"}]
           /\ records \in [Record -> Host \cup {None}]
           /\ pointed \subseteq Host /\ answering \subseteq Host
           /\ observed \subseteq SnapshotDoc
           /\ run # None =>
                 run \in Run /\ run.todo \subseteq {f \in File : run.tree[f] # None}
           /\ Droplet \in Host
<1>1. site \in [Host -> Tree] /\ records \in [Record -> Host \cup {None}]
    BY DEF TypeOK
<1>2. \A h \in Host, f \in File : site[h][f] \in SnapshotDoc \cup {None}
    BY <1>1 DEF Tree
<1>3. pointed \subseteq Host
    BY <1>1 DEF pointed, listed
<1>4. answering \subseteq Host
    BY <1>3 DEF answering
<1> QED
    BY <1>1, <1>2, <1>3, <1>4, DeploymentAssumption DEF TypeOK, Run

LEMMA TypeIntro ==
    ASSUME site' \in [Host -> Tree],
           web' \in [Host -> {"down", "http", "https"}],
           records' \in [Record -> Host \cup {None}],
           observed' \subseteq SnapshotDoc,
           run' # None =>
              run' \in Run /\ run'.todo \subseteq {f \in File : run'.tree[f] # None}
    PROVE  TypeOK'
BY DEF TypeOK, Run

-----------------------------------------------------------------------------
(* The invariant                                                           *)

LEMMA DeployInit == Init => DeployInv
<1> SUFFICES ASSUME Init PROVE DeployInv
    OBVIOUS
<1>1. PICK t \in {NoFiles} \cup {BuiltTree(s) : s \in Live} :
          site = [h \in Host |->
                     IF h \in pointed \ {Droplet} THEN t ELSE NoFiles]
    BY DEF Init
<1>2. t \in Tree
    BY <1>1, TreeFacts, DeploymentAssumption
<1>3. site \in [Host -> Tree]
    BY <1>1, <1>2, TreeFacts
<1>4. web \in [Host -> {"down", "http", "https"}]
    BY DeploymentAssumption DEF Init
<1> QED
    BY <1>3, <1>4 DEF Init, DeployInv, TypeOK, Delivered

(* Once a run is past the upload the droplet holds all of it.              *)
LEMMA Ready ==
    ASSUME DeployInv, run # None, run.pc \in {"dns", "extras", "health"}
    PROVE  /\ web[Droplet] # "down"
           /\ \A f \in File :
                 run.tree[f] # None => site[Droplet][f] = run.tree[f]
BY DEF DeployInv, Delivered

(* The three branches of the fetch that lead to genesis.                   *)
LEMMA GenesisSteps ==
    ASSUME GenesisUnresolved \/ GenesisRecovery \/ Genesis404
    PROVE  /\ At("fetch") /\ run' = [run EXCEPT !.pc = "sign"]
           /\ UNCHANGED <<site, web, records, observed>>
BY DEF GenesisUnresolved, GenesisRecovery, Genesis404, StartGenesis, Goto

(* Either way of signing lays out a tree that has a latest snapshot.       *)
LEMMA SignSteps ==
    ASSUME DeployInv, NEW now \in Time, SignInCI(now) \/ AdoptSigned(now)
    PROVE  /\ At("sign")
           /\ \E out \in Tree :
                 /\ LayOut(out, now) /\ out[Latest] \in SnapshotDoc
                 /\ out \in Signed \/ \E s \in SnapshotDoc :
                       /\ out = BuiltTree(s)
                       /\ s = build_snapshot(Config, run.prev, now, OperatorKey)
<1>t. TypeOK
    BY DEF DeployInv
<1>1. CASE SignInCI(now)
    <2> DEFINE s == build_snapshot(Config, run.prev, now, OperatorKey)
    <2>1. /\ At("sign") /\ s # None /\ s.sequence <= MaxSequence
          /\ LayOut(BuiltTree(s), now)
        BY <1>1 DEF SignInCI
    <2>2. run.prev \in SnapshotDoc \cup {None}
        BY <1>t, <2>1, TypeFacts DEF At, Run
    <2> HIDE DEF s
    <2>3. s \in SnapshotDoc
        BY <2>1, <2>2, BuiltFacts DEF s
    <2> QED
        BY <2>1, <2>3, TreeFacts DEF s
<1>2. CASE AdoptSigned(now)
    <2>1. At("sign") /\ run.committed # None /\ LayOut(run.committed, now)
        BY <1>2 DEF AdoptSigned
    <2>2. run.committed \in Signed
        BY <1>t, <2>1, TypeFacts DEF At, Run
    <2> QED
        BY <2>1, <2>2, SignedFacts
<1> QED
    BY <1>1, <1>2

LEMMA DeployStep == DeployInv /\ [Next]_vars => DeployInv'
<1> SUFFICES ASSUME DeployInv, [Next]_vars PROVE DeployInv'
    OBVIOUS
<1>0. TypeOK /\ Delivered
    BY DEF DeployInv
<1>t. /\ site \in [Host -> Tree]
      /\ \A h \in Host, f \in File : site[h][f] \in SnapshotDoc \cup {None}
      /\ web \in [Host -> {"down", "http", "https"}]
      /\ records \in [Record -> Host \cup {None}]
      /\ pointed \subseteq Host /\ answering \subseteq Host
      /\ observed \subseteq SnapshotDoc /\ Droplet \in Host
      /\ run # None =>
            run \in Run /\ run.todo \subseteq {f \in File : run.tree[f] # None}
    BY <1>0, TypeFacts
(* Steps that leave the machines and the records alone.                    *)
<1>u. ASSUME UNCHANGED <<site, web, records, observed>>,
             run' # None =>
                 run' \in Run
                 /\ run'.todo \subseteq {f \in File : run'.tree[f] # None},
             Delivered'
      PROVE  DeployInv'
    BY <1>t, <1>u, TypeIntro DEF DeployInv
<1>1. ASSUME NEW genesis \in BOOLEAN, NEW committed \in Signed \cup {None},
             Dispatch(genesis, committed)
      PROVE  DeployInv'
    <2>1. /\ UNCHANGED <<site, web, records, observed>>
          /\ run' = [pc |-> "fetch", genesis |-> genesis,
                     committed |-> committed, prev |-> None,
                     tree |-> NoFiles, todo |-> {}, extras |-> {}]
        BY <1>1 DEF Dispatch
    <2>2. run' \in Run /\ run'.todo = {} /\ run'.pc = "fetch"
        BY <2>1, TreeFacts DEF Run
    <2>3. Delivered'
        BY <2>2 DEF Delivered
    <2> QED
        BY <1>u, <2>1, <2>2, <2>3
<1>2. CASE Abort
    <2>1. UNCHANGED <<site, web, records, observed>> /\ run' = None
        BY <1>2 DEF Abort
    <2>2. Delivered'
        BY <2>1 DEF Delivered
    <2> QED
        BY <1>u, <2>1, <2>2
<1>3. CASE GenesisUnresolved \/ GenesisRecovery \/ Genesis404
    <2>1. /\ run # None /\ run.pc = "fetch" /\ run' = [run EXCEPT !.pc = "sign"]
          /\ UNCHANGED <<site, web, records, observed>>
        BY <1>3, GenesisSteps DEF At
    <2>2. /\ run' \in Run /\ run'.pc = "sign" /\ run'.todo = run.todo
          /\ run'.tree = run.tree
        BY <1>t, <2>1 DEF Run
    <2>3. Delivered'
        BY <1>0, <2>1, <2>2 DEF Delivered
    <2> QED
        BY <1>t, <1>u, <2>1, <2>2, <2>3
<1>4. CASE ChainOntoLive
    <2>1. run # None /\ run.pc = "fetch" /\ UNCHANGED <<site, web, records, observed>>
        BY <1>4 DEF ChainOntoLive, At
    <2>2. PICK h \in answering : /\ Serves(h)
              /\ \E found \in SUBSET backfill(site[h][Latest]) :
                    run' = [run EXCEPT !.pc = "sign",
                              !.prev = site[h][Latest],
                              !.tree = kept(h, site[h][Latest], found)]
        BY <1>4 DEF ChainOntoLive
    <2>3. PICK found : run' = [run EXCEPT !.pc = "sign",
                                 !.prev = site[h][Latest],
                                 !.tree = kept(h, site[h][Latest], found)]
        BY <2>2
    <2>4. site[h][Latest] \in SnapshotDoc
        BY <1>t, <2>2, FileFacts DEF Serves
    <2>5. kept(h, site[h][Latest], found) \in Tree
        BY <1>t, <2>2, <2>4 DEF kept, Tree
    <2>6. run' \in Run /\ run'.pc = "sign" /\ run'.todo = run.todo
        BY <1>t, <2>1, <2>3, <2>4, <2>5 DEF Run
    <2>7. run.todo = {}
        BY <1>0, <2>1 DEF Delivered
    <2>8. Delivered'
        BY <2>6, <2>7 DEF Delivered
    <2> QED
        BY <1>u, <2>1, <2>6, <2>7, <2>8
<1>5. ASSUME NEW now \in Time, SignInCI(now) \/ AdoptSigned(now)
      PROVE  DeployInv'
    <2>1. At("sign")
        BY <1>5, SignSteps
    <2>2. PICK out \in Tree : LayOut(out, now) /\ out[Latest] \in SnapshotDoc
        BY <1>5, SignSteps
    <2> DEFINE tree == Overlay(run.tree, out)
    <2>3. /\ run' = [run EXCEPT !.pc = "upload", !.tree = tree,
                                !.todo = to_upload(tree)]
          /\ UNCHANGED <<site, web, records, observed>>
        BY <2>2 DEF LayOut
    <2>4. run \in Run /\ run.tree \in Tree
        BY <1>t, <2>1 DEF At, Run
    <2>5. tree \in Tree /\ tree[Latest] = out[Latest] /\ tree[Latest] # None
        <3>1. out[Latest] # None
            BY <2>2, DocFacts
        <3>2. tree \in Tree /\ \A f \in File :
                  tree[f] = IF out[f] = None THEN run.tree[f] ELSE out[f]
            BY <2>4, TreeFacts
        <3> HIDE DEF tree
        <3> QED
            BY <3>1, <3>2, FileFacts
    <2> HIDE DEF tree
    <2>6. to_upload(tree) = {f \in File : tree[f] # None}
        BY DEF to_upload
    <2>7. /\ run' \in Run /\ run'.pc = "upload" /\ run'.tree = tree
          /\ run'.todo = to_upload(tree)
        BY <2>3, <2>4, <2>5, <2>6 DEF Run
    <2>8. Delivered'
        BY <2>5, <2>6, <2>7 DEF Delivered
    <2> QED
        BY <1>u, <2>3, <2>6, <2>7, <2>8
<1>6. ASSUME NEW f \in File, Upload(f) PROVE DeployInv'
    <2>1. /\ run # None /\ run.pc = "upload" /\ f \in run.todo
          /\ site' = [site EXCEPT ![Droplet][f] = run.tree[f]]
          /\ run' = [run EXCEPT !.todo = @ \ {f}]
          /\ UNCHANGED <<web, records, observed>>
        BY <1>6 DEF Upload, At
    <2>2. run.tree \in Tree /\ run.tree[f] # None
        BY <1>t, <2>1 DEF Run
    <2>3. site' \in [Host -> Tree]
        BY <1>t, <2>1, <2>2 DEF Tree
    <2>4. /\ site'[Droplet][f] = run.tree[f]
          /\ \A g \in File \ {f} : site'[Droplet][g] = site[Droplet][g]
        BY <1>t, <2>1 DEF Tree
    <2>5. /\ run' \in Run /\ run'.pc = "upload" /\ run'.tree = run.tree
          /\ run'.todo = run.todo \ {f}
        BY <1>t, <2>1 DEF Run
    <2>6. Delivered'
        <3>1. /\ run.tree[Latest] # None
              /\ \A g \in File : run.tree[g] # None /\ g \notin run.todo
                    => site[Droplet][g] = run.tree[g]
            BY <1>0, <2>1 DEF Delivered
        <3> QED
            BY <2>4, <2>5, <3>1 DEF Delivered
    <2>7. TypeOK'
        BY <1>t, <2>1, <2>3, <2>5, TypeIntro
    <2> QED
        BY <2>6, <2>7 DEF DeployInv
<1>7. CASE EnsureVhost
    <2>1. /\ run # None /\ run.pc = "upload" /\ run.todo = {}
          /\ web' = [web EXCEPT ![Droplet] = IF @ = "down" THEN "http" ELSE @]
          /\ run' = [run EXCEPT !.pc = "dns"]
          /\ UNCHANGED <<site, records, observed>>
        BY <1>7 DEF EnsureVhost, At, Goto
    <2>2. web' \in [Host -> {"down", "http", "https"}] /\ web'[Droplet] # "down"
        BY <1>t, <2>1
    <2>3. /\ run' \in Run /\ run'.pc = "dns" /\ run'.tree = run.tree
          /\ run'.todo = run.todo
        BY <1>t, <2>1 DEF Run
    <2>4. Delivered'
        BY <1>0, <2>1, <2>2, <2>3 DEF Delivered
    <2>5. TypeOK'
        BY <1>t, <2>1, <2>2, <2>3, TypeIntro
    <2> QED
        BY <2>4, <2>5 DEF DeployInv
(* The records change, the droplet does not.                               *)
<1>8. ASSUME UpsertRecord \/ DeleteExtra PROVE DeployInv'
    <2>1. /\ run # None /\ run.pc \in {"dns", "extras"}
          /\ UNCHANGED <<site, web, observed>>
        BY <1>8 DEF UpsertRecord, DeleteExtra, At
    <2>2. \E i \in Record, h \in Host \cup {None} :
              records' = [records EXCEPT ![i] = h]
        <3>1. CASE UpsertRecord
            BY <1>t, <3>1 DEF UpsertRecord, listed
        <3>2. CASE DeleteExtra
            <4>1. run.extras \subseteq Record
                BY <1>t, <2>1 DEF Run
            <4>2. PICK i \in run.extras : \E h \in {None} \cup
                       (IF "stale" \in Adverse THEN {records[i]} ELSE {}) :
                           records' = [records EXCEPT ![i] = h]
                BY <3>2 DEF DeleteExtra
            <4> QED
                BY <1>t, <4>1, <4>2
        <3> QED
            BY <1>8, <3>1, <3>2
    <2>3. records' \in [Record -> Host \cup {None}]
        BY <1>t, <2>2
    <2>4. /\ run' \in Run /\ run'.pc = "extras" /\ run'.tree = run.tree
          /\ run'.todo = run.todo
        <3>1. CASE UpsertRecord
            <4>1. \E x \in SUBSET Record : run' = [run EXCEPT !.pc = "extras",
                                                         !.extras = x]
                              \/ run' = [run EXCEPT !.pc = "extras"]
                BY <3>1 DEF UpsertRecord, listed
            <4> QED
                BY <1>t, <2>1, <4>1 DEF Run
        <3>2. CASE DeleteExtra
            <4>1. run.pc = "extras"
                  /\ \E i \in run.extras : run' = [run EXCEPT !.extras = @ \ {i}]
                BY <3>2 DEF DeleteExtra, At
            <4> QED
                BY <1>t, <2>1, <4>1 DEF Run
        <3> QED
            BY <1>8, <3>1, <3>2
    <2>5. Delivered'
        BY <1>0, <2>1, <2>4 DEF Delivered
    <2>6. TypeOK'
        BY <1>t, <2>1, <2>3, <2>4, TypeIntro
    <2> QED
        BY <2>5, <2>6 DEF DeployInv
<1>9. CASE AwaitHealth
    <2>1. /\ run # None /\ run.pc = "extras" /\ run' = [run EXCEPT !.pc = "health"]
          /\ UNCHANGED <<site, web, records, observed>>
        BY <1>9 DEF AwaitHealth, At, Goto
    <2>2. /\ run' \in Run /\ run'.pc = "health" /\ run'.tree = run.tree
          /\ run'.todo = run.todo
        BY <1>t, <2>1 DEF Run
    <2>3. Delivered'
        BY <1>0, <2>1, <2>2 DEF Delivered
    <2> QED
        BY <1>t, <1>u, <2>1, <2>2, <2>3
<1>10. CASE Health
    <2>1. UNCHANGED <<site, web, records, observed>> /\ run' = None
        BY <1>10 DEF Health
    <2>2. Delivered'
        BY <2>1 DEF Delivered
    <2> QED
        BY <1>u, <2>1, <2>2
<1>11. CASE IssueCertificate
    <2>1. /\ web' = [web EXCEPT ![Droplet] = "https"]
          /\ UNCHANGED <<site, records, run, observed>>
        BY <1>11 DEF IssueCertificate
    <2>2. web' \in [Host -> {"down", "http", "https"}] /\ web'[Droplet] # "down"
        BY <1>t, <2>1
    <2>3. Delivered'
        BY <1>0, <2>1, <2>2 DEF Delivered
    <2>4. TypeOK'
        BY <1>t, <2>1, <2>2, TypeIntro
    <2> QED
        BY <2>3, <2>4 DEF DeployInv
<1>12. CASE ClientFetch
    <2>1. PICK h \in pointed :
              Serves(h) /\ observed' = observed \cup {site[h][Latest]}
        BY <1>12 DEF ClientFetch
    <2>2. UNCHANGED <<site, web, records, run>>
        BY <1>12 DEF ClientFetch
    <2>3. site[h][Latest] \in SnapshotDoc
        BY <1>t, <2>1, FileFacts DEF Serves
    <2>4. observed' \subseteq SnapshotDoc
        BY <1>t, <2>1, <2>3
    <2>5. TypeOK'
        BY <1>t, <2>2, <2>4, TypeIntro
    <2>6. Delivered'
        BY <1>0, <2>2 DEF Delivered
    <2> QED
        BY <2>5, <2>6 DEF DeployInv
<1>13. CASE UNCHANGED vars
    <2>1. UNCHANGED <<site, web, records, run, observed>>
        BY <1>13 DEF vars
    <2>2. Delivered'
        BY <1>0, <2>1 DEF Delivered
    <2> QED
        BY <1>t, <1>u, <2>1, <2>2
<1> QED
    BY <1>1, <1>2, <1>3, <1>4, <1>5, <1>6, <1>7, <1>8, <1>9, <1>10, <1>11,
       <1>12, <1>13 DEF Next

(* Machines, records and runs keep their types; what is uploaded exists.   *)
THEOREM DeploymentTypeCorrect == Spec => []TypeOK
<1>1. DeployInv => TypeOK
    BY DEF DeployInv
<1> QED
    BY <1>1, DeployInit, DeployStep, PTL DEF Spec

(* Wherever the records led at first, however runs die and whatever        *)
(* Cloudflare refuses: the step that points a record at the droplet comes  *)
(* after its vhost and after every file of the run.                        *)
THEOREM RecordComesLast == Spec => RecordIsLast
<1>1. DeployInv /\ [Next]_vars =>
        [(\E i \in Record : records[i] # Droplet /\ records'[i] = Droplet)
           => /\ web[Droplet] # "down"
              /\ \A f \in File :
                    run.tree[f] # None => site[Droplet][f] = run.tree[f]]_records
    <2> SUFFICES ASSUME DeployInv, [Next]_vars, records' # records
                 PROVE  /\ web[Droplet] # "down"
                        /\ \A f \in File :
                              run.tree[f] # None => site[Droplet][f] = run.tree[f]
        OBVIOUS
    <2>1. UpsertRecord \/ DeleteExtra
        <3>1. ~(GenesisUnresolved \/ GenesisRecovery \/ Genesis404)
            BY GenesisSteps
        <3>2. \A now \in Time : ~(SignInCI(now) \/ AdoptSigned(now))
            BY DEF SignInCI, AdoptSigned, LayOut
        <3> QED
            BY <3>1, <3>2
               DEF Next, Dispatch, Abort, ChainOntoLive, Upload, EnsureVhost,
                   AwaitHealth, Health, IssueCertificate, ClientFetch, vars
    <2>2. run # None /\ run.pc \in {"dns", "extras"}
        BY <2>1 DEF UpsertRecord, DeleteExtra, At
    <2> QED
        BY <2>2, Ready
<1> QED
    BY <1>1, DeployInit, DeployStep, PTL DEF Spec, RecordIsLast

-----------------------------------------------------------------------------
(* The predecessor                                                         *)

(* What passes the verify gate under the predecessor's number is the       *)
(* predecessor.                                                            *)
LEMMA GateFacts ==
    ASSUME NEW s \in SnapshotDoc, NEW prev \in SnapshotDoc, NEW now \in Time,
           verify_gate(s, prev, now), s.sequence = prev.sequence
    PROVE  s = prev
<1> DEFINE r == from_snapshot_bytes(prev, None)
<1>1. prev # None
    BY DocFacts
<1>2. r # None /\ verify_snapshot(s, Manifest, r, now) \in Accepting
    BY <1>1 DEF verify_gate
<1>3. r.sequence = prev.sequence /\ r.digest = prev.digest
    BY <1>2 DEF from_snapshot_bytes
<1> HIDE DEF r
<1>4. chain_outcome(s, r) \in Accepting
    BY <1>2 DEF verify_snapshot, Accepting
<1>5. s.sequence \in Nat /\ prev.sequence \in Nat
    BY DocFacts
<1>6. s.digest = r.digest
    BY <1>2, <1>3, <1>4, <1>5 DEF chain_outcome, Accepting
<1> QED
    BY <1>3, <1>6, DigestAssumption

LEMMA PinnedStep ==
    ASSUME SignedAgrees, DeployInv, Pinned, [Next]_vars
    PROVE  Pinned'
<1>0. TypeOK /\ Delivered
    BY DEF DeployInv
<1>t. /\ \A h \in Host, f \in File : site[h][f] \in SnapshotDoc \cup {None}
      /\ answering \subseteq Host
      /\ run # None => run \in Run
    BY <1>0, TypeFacts
<1>1. ASSUME NEW genesis \in BOOLEAN, NEW committed \in Signed \cup {None},
             Dispatch(genesis, committed)
      PROVE  Pinned'
    <2>1. run'.pc = "fetch" /\ run'.prev = None
        BY <1>1 DEF Dispatch
    <2> QED
        BY <2>1 DEF Pinned
<1>2. CASE Abort \/ Health
    BY <1>2 DEF Abort, Health, Pinned
<1>3. CASE GenesisUnresolved \/ GenesisRecovery \/ Genesis404
    <2>1. run # None /\ run.pc = "fetch" /\ run' = [run EXCEPT !.pc = "sign"]
        BY <1>3, GenesisSteps DEF At
    <2>2. run'.prev = None /\ run'.pc = "sign"
        BY <1>t, <2>1 DEF Pinned, Run
    <2> QED
        BY <2>2 DEF Pinned
<1>4. CASE ChainOntoLive
    <2>1. run # None
        BY <1>4 DEF ChainOntoLive, At
    <2>2. PICK h \in answering : /\ Serves(h)
              /\ \E found \in SUBSET backfill(site[h][Latest]) :
                    run' = [run EXCEPT !.pc = "sign",
                              !.prev = site[h][Latest],
                              !.tree = kept(h, site[h][Latest], found)]
        BY <1>4 DEF ChainOntoLive
    <2>3. PICK found : run' = [run EXCEPT !.pc = "sign",
                                 !.prev = site[h][Latest],
                                 !.tree = kept(h, site[h][Latest], found)]
        BY <2>2
    <2> DEFINE p == site[h][Latest]
    <2>4. p \in SnapshotDoc /\ p.sequence \in 1 .. MaxSequence
        BY <1>t, <2>2, FileFacts, DocFacts DEF Serves
    <2>5. kept(h, p, found)[Sibling(p.sequence)] = p
        BY <2>4, FileFacts DEF kept
    <2>6. run'.prev = p /\ run'.pc = "sign" /\ run'.tree = kept(h, p, found)
        BY <1>t, <2>1, <2>3 DEF Run
    <2> QED
        BY <2>5, <2>6 DEF Pinned
<1>5. ASSUME NEW now \in Time, SignInCI(now) \/ AdoptSigned(now)
      PROVE  Pinned'
    <2>1. run # None /\ run.pc = "sign"
        BY <1>5, SignSteps DEF At
    <2>2. PICK out \in Tree :
              /\ LayOut(out, now) /\ out[Latest] \in SnapshotDoc
              /\ out \in Signed \/ \E s \in SnapshotDoc : out = BuiltTree(s)
        BY <1>5, SignSteps
    <2>3. /\ verify_gate(out[Latest], run.prev, now)
          /\ run' = [run EXCEPT !.pc = "upload",
                                !.tree = Overlay(run.tree, out),
                                !.todo = to_upload(Overlay(run.tree, out))]
        BY <2>2 DEF LayOut
    <2>4. run \in Run /\ run.tree \in Tree
        BY <1>t, <2>1 DEF Run
    <2>5. /\ run'.pc = "upload" /\ run'.prev = run.prev
          /\ run'.tree = Overlay(run.tree, out)
        BY <2>3, <2>4 DEF Run
    <2>6. ASSUME run.prev # None
          PROVE  Overlay(run.tree, out)[Sibling(run.prev.sequence)] = run.prev
        <3> DEFINE n == run.prev.sequence
        <3>1. run.prev \in SnapshotDoc /\ n \in 1 .. MaxSequence
            BY <2>4, <2>6, DocFacts DEF Run
        <3>2. run.tree[Sibling(n)] = run.prev
            BY <2>1, <2>6 DEF Pinned
        <3>3. Overlay(run.tree, out)[Sibling(n)] =
                  IF out[Sibling(n)] = None THEN run.tree[Sibling(n)]
                  ELSE out[Sibling(n)]
            <4>1. Sibling(n) \in File
                BY <3>1, FileFacts
            <4>2. \A f \in File : Overlay(run.tree, out)[f] =
                      IF out[f] = None THEN run.tree[f] ELSE out[f]
                BY <2>4, TreeFacts
            <4> QED
                BY <4>1, <4>2
        <3>4. CASE out \in Signed
            <4>1. out[Sibling(n)] \in {None, run.prev}
                BY <2>3, <3>1, <3>4 DEF SignedAgrees
            <4> QED
                BY <3>2, <3>3, <4>1
        <3>5. CASE \E s \in SnapshotDoc : out = BuiltTree(s)
            <4>1. out[Sibling(n)] # None =>
                      n = out[Latest].sequence /\ out[Sibling(n)] = out[Latest]
                BY <3>1, <3>5, TreeFacts
            <4>2. n = out[Latest].sequence => out[Latest] = run.prev
                BY <2>2, <2>3, <3>1, GateFacts
            <4> QED
                BY <3>2, <3>3, <4>1, <4>2
        <3> QED
            BY <2>2, <3>4, <3>5
    <2> QED
        BY <2>5, <2>6 DEF Pinned
<1>6. ASSUME run # None, run.pc # "fetch",
             run'.pc # "fetch", run'.prev = run.prev, run'.tree = run.tree
      PROVE  Pinned'
    BY <1>6 DEF Pinned
<1>7. ASSUME NEW f \in File, Upload(f) PROVE Pinned'
    <2>1. run # None /\ run.pc = "upload" /\ run' = [run EXCEPT !.todo = @ \ {f}]
        BY <1>7 DEF Upload, At
    <2> QED
        BY <1>t, <1>6, <2>1 DEF Run
<1>8. CASE EnsureVhost \/ AwaitHealth
    <2>1. /\ run # None /\ run.pc # "fetch"
          /\ \E pc \in {"dns", "health"} : run' = [run EXCEPT !.pc = pc]
        BY <1>8 DEF EnsureVhost, AwaitHealth, At, Goto
    <2> QED
        BY <1>t, <1>6, <2>1 DEF Run
<1>9. CASE UpsertRecord
    <2>1. /\ run # None /\ run.pc = "dns"
          /\ \/ run' = [run EXCEPT !.pc = "extras"]
             \/ \E i \in listed :
                   run' = [run EXCEPT !.pc = "extras", !.extras = listed \ {i}]
        BY <1>9 DEF UpsertRecord, At
    <2> QED
        BY <1>t, <1>6, <2>1 DEF Run
<1>10. CASE DeleteExtra
    <2>1. /\ run # None /\ run.pc = "extras"
          /\ \E i \in run.extras : run' = [run EXCEPT !.extras = @ \ {i}]
        BY <1>10 DEF DeleteExtra, At
    <2> QED
        BY <1>t, <1>6, <2>1 DEF Run
<1>11. CASE run' = run
    BY <1>11 DEF Pinned
<1> QED
    BY <1>1, <1>2, <1>3, <1>4, <1>5, <1>7, <1>8, <1>9, <1>10, <1>11
       DEF Next, IssueCertificate, ClientFetch, vars

(* Siblings may be committed beside a signed latest snapshot; as long as   *)
(* none of them contradicts a snapshot that latest may follow, a completed *)
(* upload retains the exact bytes the new snapshot was chained onto.       *)
THEOREM PredecessorStays ==
    ASSUME SignedAgrees
    PROVE  Spec => []PredecessorRetained
<1>1. Init => Pinned
    BY DEF Init, Pinned
<1>2. DeployInv /\ Pinned /\ [Next]_vars => Pinned'
    BY PinnedStep
<1>3. DeployInv /\ Pinned => PredecessorRetained
    <2> SUFFICES ASSUME DeployInv, Pinned, run # None,
                        run.pc \in {"dns", "extras", "health"}, run.prev # None
                 PROVE  site[Droplet][Sibling(run.prev.sequence)] = run.prev
        BY DEF PredecessorRetained
    <2>1. run \in Run
        BY TypeFacts DEF DeployInv
    <2>2. run.prev.sequence \in 1 .. MaxSequence
        BY <2>1, DocFacts DEF Run
    <2>3. run.tree[Sibling(run.prev.sequence)] = run.prev
        BY DEF Pinned
    <2> QED
        BY <2>2, <2>3, FileFacts DEF DeployInv, Delivered
<1> QED
    BY <1>1, <1>2, <1>3, DeployInit, DeployStep, PTL DEF Spec
=============================================================================
