-------------------------- MODULE Discovery_proofs --------------------------
(***************************************************************************)
(* The client beside the deploys, for every value of the constants: what   *)
(* it retains is always a snapshot it was served, and, without the events  *)
(* of Adverse, it never turns on the operator.  The chain the deploys      *)
(* serve is that of ServedChain_proofs; here a second invariant says that  *)
(* whatever the name leads to would pass as a first snapshot.              *)
(***************************************************************************)
EXTENDS Discovery, ServedChain_proofs

(* s passes as the first snapshot of a client, at some time.               *)
Vetted(s) ==
    \E t \in Nat : verify_snapshot(s, Manifest, None, t) \in Accepting

(* The only snapshot s can name as its predecessor is the one numbered     *)
(* just before it.                                                         *)
Linked(s) ==
    \A d \in SnapshotDoc :
        s.previous_digest = d.digest => s.sequence = d.sequence + 1

(* What is, or will be, served from the droplet has passed the gate.       *)
GatePassed ==
    /\ \A o \in Origin : Vetted(o)
    /\ head # None => Vetted(head) /\ Linked(head)
    /\ run # None /\ run.pc \notin {"fetch", "sign"} =>
          Vetted(run.tree[Latest]) /\ Linked(run.tree[Latest])

(* The client retains a snapshot the chain extends.                        *)
RetainsServed ==
    retained # None =>
        \E d \in SnapshotDoc :
            retained = from_snapshot_bytes(d, None) /\ Leads(d)

-----------------------------------------------------------------------------
(* Verdicts                                                                *)

(* The conditions a snapshot accepted without retained state, or with one  *)
(* that keeps no superseded policy, fulfils whatever the client retains.   *)
LEMMA AcceptedFacts ==
    ASSUME NEW s \in SnapshotDoc, NEW r, NEW t,
           r # None => r.previous_policy = None,
           verify_snapshot(s, Manifest, r, t) \in Accepting
    PROVE  /\ s.parses /\ s.in_profile
           /\ s.provider_id = Manifest.provider_id
           /\ authentic(s, Manifest.operator)
           /\ public_catalogs(Manifest, s.catalog_id) # {}
           /\ s.policy_digest # Malformed
           /\ s.policy_digest = descriptor(Manifest, s.catalog_id).policy
           /\ well_chained(s)
           /\ ~(Len(s.entries) > MAX_ENTRIES) /\ ~duplicate_component(s)
           /\ ~dates_invalid(s, t) /\ ~expired(s, t)
           /\ same_source(s, r) /\ chain_outcome(s, r) \in Accepting
<1>1. s.policy_digest \in Policy \cup {Malformed}
    BY DocFacts DEF CatalogSnapshot
<1>2. policy_pinned(s, Manifest, r) =>
          /\ s.policy_digest # Malformed
          /\ s.policy_digest = descriptor(Manifest, s.catalog_id).policy
    BY <1>1, OptionAssumption DEF policy_pinned, policy_transition
<1>3. /\ s.parses /\ s.in_profile
      /\ s.provider_id = Manifest.provider_id
      /\ authentic(s, Manifest.operator)
      /\ ~dates_invalid(s, t) /\ ~expired(s, t)
      /\ public_catalogs(Manifest, s.catalog_id) # {}
      /\ same_source(s, r) /\ policy_pinned(s, Manifest, r) /\ well_chained(s)
      /\ ~(Len(s.entries) > MAX_ENTRIES) /\ ~duplicate_component(s)
      /\ chain_outcome(s, r) \in Accepting
    BY DEF verify_snapshot, Accepting
<1> QED
    BY <1>2, <1>3

LEMMA AcceptedIsVetted ==
    ASSUME NEW s \in SnapshotDoc, NEW r, NEW t \in Nat,
           r # None => r.previous_policy = None,
           verify_snapshot(s, Manifest, r, t) \in Accepting
    PROVE  Vetted(s)
<1>1. verify_snapshot(s, Manifest, None, t) = chain_outcome(s, None)
    BY AcceptedFacts DEF verify_snapshot, same_source, policy_pinned,
                         chain_outcome, Accepting
<1>2. chain_outcome(s, None) \in Accepting
    BY DEF chain_outcome, Accepting
<1> QED
    BY <1>1, <1>2 DEF Vetted

(* Freshness aside, only the chain can speak against a vetted snapshot of  *)
(* the client's own source.                                                *)
LEMMA VettedVerdict ==
    ASSUME NEW s \in SnapshotDoc, Vetted(s), NEW r, NEW now,
           same_source(s, r)
    PROVE  verify_snapshot(s, Manifest, r, now) \in
               {"dates_invalid", "snapshot_expired", chain_outcome(s, r)}
<1>1. PICK t \in Nat : verify_snapshot(s, Manifest, None, t) \in Accepting
    BY DEF Vetted
<1>2. /\ s.parses /\ s.in_profile
      /\ s.provider_id = Manifest.provider_id
      /\ authentic(s, Manifest.operator)
      /\ public_catalogs(Manifest, s.catalog_id) # {}
      /\ policy_pinned(s, Manifest, r) /\ well_chained(s)
      /\ ~(Len(s.entries) > MAX_ENTRIES) /\ ~duplicate_component(s)
    BY <1>1, AcceptedFacts DEF policy_pinned
<1> QED
    BY <1>2 DEF verify_snapshot

(* A client that retains d accepts what succeeds d, and is told of nothing *)
(* but a rollback by what d succeeds.                                      *)
LEMMA ChainVerdict ==
    ASSUME NEW s \in SnapshotDoc, NEW d \in SnapshotDoc,
           NEW r, r = from_snapshot_bytes(d, None), r # None
    PROVE  /\ Succeeds(s, d) /\ Linked(s) => chain_outcome(s, r) \in Accepting
           /\ Succeeds(d, s) =>
                 chain_outcome(s, r) \in {"NoOpRefresh", "rollback"}
           /\ SourceOf(s) = SourceOf(d) => same_source(s, r)
           /\ s = d => chain_outcome(s, r) \in Accepting
<1>1. /\ r.sequence = d.sequence /\ r.digest = d.digest
      /\ r.provider_id = d.provider_id /\ r.catalog_id = d.catalog_id
    BY DEF from_snapshot_bytes
<1>2. s.sequence \in Nat /\ d.sequence \in Nat
    BY DocFacts
<1>3. CASE s = d
    BY <1>1, <1>2, <1>3 DEF chain_outcome, Accepting, same_source
<1>4. CASE s # d
    <2>1. s.digest # d.digest
        BY <1>4, DigestAssumption
    <2>2. Succeeds(s, d) /\ Linked(s) => chain_outcome(s, r) \in Accepting
        BY <1>1, <1>2, <1>4, <2>1
           DEF Succeeds, Linked, chain_outcome, Accepting
    <2>3. Succeeds(d, s) => chain_outcome(s, r) = "rollback"
        BY <1>1, <1>2, <1>4, <2>1 DEF Succeeds, chain_outcome
    <2>4. SourceOf(s) = SourceOf(d) => same_source(s, r)
        BY <1>1 DEF SourceOf, same_source
    <2> QED
        BY <1>4, <2>2, <2>3, <2>4
<1> QED
    BY <1>3, <1>4

(* What build-snapshot chains onto a snapshot names it under the next      *)
(* number; a number that wrapped is no document's.                         *)
LEMMA BuiltIsLinked ==
    ASSUME NEW prev \in SnapshotDoc \cup {None}, NEW now,
           NEW s \in SnapshotDoc,
           s = build_snapshot(Config, prev, now, OperatorKey)
    PROVE  Linked(s)
<1>1. s # None
    BY DocFacts
<1>2. s.previous_digest = link(prev) /\ s.sequence = next_sequence(prev)
    BY <1>1 DEF build_snapshot
<1>3. CASE prev = None
    <2>1. s.previous_digest = None
        BY <1>2, <1>3 DEF link
    <2>2. \A d \in SnapshotDoc : d.digest # None
        BY DocFacts, OptionAssumption DEF CatalogSnapshot
    <2> QED
        BY <2>1, <2>2 DEF Linked
<1>4. CASE prev # None
    <2>1. /\ s.previous_digest = prev.digest
          /\ s.sequence = (prev.sequence + 1) % U64
        BY <1>2, <1>4 DEF link, next_sequence
    <2>2. s.sequence = prev.sequence + 1
        <3>1. /\ s.sequence \in 1 .. MaxSequence
              /\ prev.sequence \in 1 .. MaxSequence
              /\ MaxSequence \in Nat /\ MaxSequence < U64 /\ U64 \in Nat
            BY <1>4, DocFacts, DeploymentAssumption, U64Assumption
        <3>2. CASE prev.sequence + 1 < U64
            BY <2>1, <3>1, <3>2
        <3>3. CASE prev.sequence + 1 = U64
            BY <2>1, <3>1, <3>3
        <3> QED
            BY <3>1, <3>2, <3>3
    <2> QED
        BY <1>4, <2>1, <2>2, DigestAssumption DEF Linked
<1> QED
    BY <1>3, <1>4

-----------------------------------------------------------------------------
(* The system's steps are steps of the deployment or of the client         *)

LEMMA SystemSteps ==
    ASSUME [SystemNext]_system
    PROVE  /\ [Next]_vars
           /\ \/ retained' = retained
              \/ /\ UNCHANGED vars
                 /\ \E now \in Time : ClientRefresh(now)
<1>1. ASSUME NEW genesis \in BOOLEAN, NEW committed \in Signed \cup {None},
             NEW left_alone \in BOOLEAN,
             SystemDispatch(genesis, committed, left_alone)
      PROVE  Next /\ retained' = retained
    BY <1>1 DEF SystemDispatch, Next
<1>2. CASE SystemAbort \/ Fetch \/ Sign \/ Deploy \/ Certify
    BY <1>2 DEF SystemAbort, Fetch, Sign, Deploy, Certify, Next
<1>3. CASE \E now \in Time : ClientRefresh(now)
    BY <1>3 DEF ClientRefresh
<1>4. CASE UNCHANGED system
    BY <1>4 DEF system
<1> QED
    BY <1>1, <1>2, <1>3, <1>4 DEF SystemNext

(* What the client keeps after an acceptance is the state of the snapshot  *)
(* it accepted, as it could be rebuilt from the bytes.                     *)
LEMMA RefreshFacts ==
    ASSUME TypeOK, NEW now \in Time, ClientRefresh(now),
           retained # None => retained.previous_policy = None
    PROVE  \E h \in pointed :
               /\ Serves(h) /\ site[h][Latest] \in SnapshotDoc
               /\ retained' = from_snapshot_bytes(site[h][Latest], None)
<1>1. PICK h \in pointed :
          /\ Serves(h)
          /\ verdict(site[h][Latest], now) \in Accepting
          /\ retained' = after_acceptance(retained, site[h][Latest],
                 policy_transition(site[h][Latest], Manifest, retained))
    BY DEF ClientRefresh
<1> DEFINE s == site[h][Latest]
<1>2. s \in SnapshotDoc
    BY <1>1, TypeFacts, FileFacts DEF Serves
<1> HIDE DEF s
<1>3. s.parses /\ ~s.dup_keys
    <2>1. verify_snapshot(s, Manifest, retained, now) \in Accepting
        BY <1>1 DEF s, verdict
    <2> QED
        BY <1>2, <2>1, AcceptedFacts DEF authentic
<1>4. retained' = after_acceptance(retained, s,
                                   policy_transition(s, Manifest, retained))
    BY <1>1 DEF s
<1>5. retained' = from_snapshot_bytes(s, None)
    BY <1>3, <1>4 DEF after_acceptance, from_snapshot_bytes
<1> QED
    BY <1>1, <1>2, <1>5 DEF s

LEMMA RetainedFacts ==
    ASSUME NEW d \in SnapshotDoc, retained = from_snapshot_bytes(d, None),
           retained # None
    PROVE  retained.previous_policy = None
BY DEF from_snapshot_bytes

LEMMA SystemTypeStep ==
    DeployInv /\ SystemTypeOK /\ [SystemNext]_system => SystemTypeOK'
<1> SUFFICES ASSUME DeployInv, SystemTypeOK, [SystemNext]_system
             PROVE  SystemTypeOK'
    OBVIOUS
<1>1. TypeOK'
    BY SystemSteps, DeployStep DEF DeployInv
<1>2. calm' \in BOOLEAN
    BY DEF SystemTypeOK, SystemNext, SystemDispatch, SystemAbort, Fetch, Sign,
           Deploy, Certify, ClientRefresh, system
<1>3. CASE retained' = retained
    BY <1>1, <1>2, <1>3 DEF SystemTypeOK
<1>4. ASSUME NEW now \in Time, ClientRefresh(now) PROVE SystemTypeOK'
    <2>1. retained # None => retained.previous_policy = None
        BY RetainedFacts DEF SystemTypeOK
    <2>2. \E s \in SnapshotDoc : retained' = from_snapshot_bytes(s, None)
        BY <1>4, <2>1, RefreshFacts DEF DeployInv
    <2> QED
        BY <1>1, <1>2, <2>2 DEF SystemTypeOK
<1> QED
    BY <1>3, <1>4, SystemSteps

(* Deploys and client keep their types, also under every event of Adverse: *)
(* what a client retains can be rebuilt from a snapshot that was served.   *)
THEOREM SystemTypeCorrect == SystemSpec => []SystemTypeOK
<1>1. SystemInit => DeployInv /\ SystemTypeOK
    BY DeployInit DEF SystemInit, SystemTypeOK, DeployInv
<1>2. DeployInv /\ [SystemNext]_system => DeployInv'
    BY SystemSteps, DeployStep
<1> QED
    BY <1>1, <1>2, SystemTypeStep, PTL DEF SystemSpec

-----------------------------------------------------------------------------
(* Nothing unvetted is ever served                                         *)

LEMMA GateInit ==
    ASSUME \A s \in Live : Vetted(s)
    PROVE  Init => GatePassed
<1> SUFFICES ASSUME Init PROVE GatePassed
    OBVIOUS
<1>1. PICK t \in {NoFiles} \cup {BuiltTree(s) : s \in Live} :
          site = [h \in Host |->
                     IF h \in pointed \ {Droplet} THEN t ELSE NoFiles]
    BY DEF Init
<1>2. NoFiles[Latest] = None
    BY FileFacts DEF NoFiles
<1>3. t[Latest] = None \/ t[Latest] \in Live
    BY <1>1, <1>2, TreeFacts, DeploymentAssumption
<1>4. Origin \subseteq Live
    BY <1>1, <1>2, <1>3 DEF Origin
<1>5. head = None /\ run = None
    BY <1>1, <1>2, DeploymentAssumption DEF Init, head
<1> QED
    BY <1>4, <1>5 DEF GatePassed

LEMMA GateStep ==
    ASSUME Adverse = {}, \A t \in Signed : Linked(t[Latest]),
           DeployInv, OneMachine, GatePassed, [Next]_vars
    PROVE  GatePassed'
<1>i. TypeOK /\ Delivered
    BY DEF DeployInv
<1>o. Origin' = Origin
    BY <1>i, OriginStays
<1>g. /\ \A o \in Origin : Vetted(o)
      /\ head # None => Vetted(head) /\ Linked(head)
      /\ run # None /\ run.pc \notin {"fetch", "sign"} =>
            Vetted(run.tree[Latest]) /\ Linked(run.tree[Latest])
    BY DEF GatePassed
<1>a. (\A o \in Origin : Vetted(o))'
    BY <1>g, <1>o
<1>s. ASSUME UNCHANGED site
      PROVE  (head # None => Vetted(head) /\ Linked(head))'
    BY <1>g, <1>s DEF head
(* The run carries its tree on.                                            *)
<1>k. ASSUME run # None, run.pc \notin {"fetch", "sign"},
             run'.tree = run.tree,
             (head # None => Vetted(head) /\ Linked(head))'
      PROVE  GatePassed'
    BY <1>a, <1>g, <1>k DEF GatePassed
<1>1. ASSUME NEW genesis \in BOOLEAN, NEW committed \in Signed \cup {None},
             Dispatch(genesis, committed)
      PROVE  GatePassed'
    BY <1>a, <1>s, <1>1, BeginFacts DEF GatePassed, Still
<1>2. CASE Abort \/ Health
    BY <1>a, <1>s, <1>2, EndFacts DEF GatePassed, Still
<1>3. CASE GenesisUnresolved \/ GenesisRecovery \/ Genesis404
    BY <1>a, <1>i, <1>s, <1>3, GenesisFacts
       DEF GatePassed, Still, Carries, Continues
<1>4. CASE ChainOntoLive
    BY <1>a, <1>i, <1>s, <1>4, ChainFacts DEF GatePassed, Still, Continues
<1>5. ASSUME NEW now \in Time, SignInCI(now) \/ AdoptSigned(now)
      PROVE  GatePassed'
    <2> DEFINE s == run'.tree[Latest]
    <2>1. /\ Still /\ run # None /\ run.pc = "sign" /\ s \in SnapshotDoc
          /\ verify_gate(s, run.prev, now)
          /\ \/ \E t \in Signed : s = t[Latest]
             \/ s = build_snapshot(Config, run.prev, now, OperatorKey)
        BY <1>5, LayOutFacts DEF Carries, Continues
    <2>2. run.prev \in SnapshotDoc \cup {None} /\ now \in Nat
        BY <1>i, <2>1, TypeFacts, DeploymentAssumption DEF Run
    <2> HIDE DEF s
    <2>3. Vetted(s)
        <3> DEFINE r == IF run.prev = None THEN None
                        ELSE from_snapshot_bytes(run.prev, None)
        <3>1. verify_snapshot(s, Manifest, r, now) \in Accepting
            BY <2>1 DEF verify_gate
        <3>2. r # None => r.previous_policy = None
            BY DEF from_snapshot_bytes
        <3> QED
            BY <2>1, <2>2, <3>1, <3>2, AcceptedIsVetted
    <2>4. Linked(s)
        <3>1. CASE s = build_snapshot(Config, run.prev, now, OperatorKey)
            BY <2>1, <2>2, <3>1, BuiltIsLinked
        <3> QED
            BY <2>1, <3>1
    <2> QED
        BY <1>a, <1>s, <2>1, <2>3, <2>4 DEF GatePassed, Still, s
<1>6. ASSUME NEW f \in File, Upload(f) PROVE GatePassed'
    <2>1. /\ UNCHANGED records /\ run # None /\ run.pc = "upload"
          /\ run'.tree = run.tree
          /\ head' = head \/ head' = run.tree[Latest]
        BY <1>i, <1>6, UploadFacts DEF Carries, Continues
    <2>2. (head # None => Vetted(head) /\ Linked(head))'
        BY <1>g, <2>1
    <2> QED
        BY <1>k, <2>1, <2>2
<1>7. CASE EnsureVhost \/ AwaitHealth
    <2>1. /\ UNCHANGED <<site, records>> /\ run'.tree = run.tree
          /\ run # None /\ run.pc \in {"upload", "extras"}
        BY <1>i, <1>7, VhostFacts, AwaitFacts DEF Carries, Continues, Still
    <2> QED
        BY <1>k, <1>s, <2>1
<1>8. CASE UpsertRecord \/ DeleteExtra
    <2>1. /\ UNCHANGED site /\ run'.tree = run.tree
          /\ run # None /\ run.pc \in {"dns", "extras"}
        BY <1>i, <1>8, UpsertFacts, DeleteFacts DEF Carries, Continues
    <2>2. head = run.tree[Latest] /\ head' = head
        BY <1>i, <2>1, FileFacts DEF Delivered, head
    <2> QED
        BY <1>g, <1>k, <2>1, <2>2
<1>9. CASE IssueCertificate \/ ClientFetch \/ UNCHANGED vars
    <2>1. UNCHANGED <<site, records, run>>
        BY <1>9 DEF IssueCertificate, ClientFetch, vars
    <2> QED
        BY <1>a, <1>g, <1>s, <2>1 DEF GatePassed
<1> QED
    BY <1>1, <1>2, <1>3, <1>4, <1>5, <1>6, <1>7, <1>8, <1>9 DEF Next

-----------------------------------------------------------------------------
(* The client                                                              *)

LEMMA RetainsStep ==
    ASSUME Adverse = {}, ChainInv, RetainsServed, [SystemNext]_system
    PROVE  RetainsServed'
<1>1. [Next]_vars
    BY SystemSteps
<1>2. CASE retained' = retained
    <2>1. CASE retained = None
        BY <1>2, <2>1 DEF RetainsServed
    <2>2. CASE retained # None
        <3>1. PICK d \in SnapshotDoc :
                  retained = from_snapshot_bytes(d, None) /\ Leads(d)
            BY <2>2 DEF RetainsServed
        <3>2. Leads(d)'
            BY <1>1, <3>1, LeadsStep
        <3> QED
            BY <1>2, <3>1, <3>2 DEF RetainsServed
    <2> QED
        BY <2>1, <2>2
<1>3. ASSUME NEW now \in Time, ClientRefresh(now), UNCHANGED vars
      PROVE  RetainsServed'
    <2>1. retained # None => retained.previous_policy = None
        BY RetainedFacts DEF RetainsServed
    <2>2. PICK h \in pointed :
              /\ Serves(h) /\ site[h][Latest] \in SnapshotDoc
              /\ retained' = from_snapshot_bytes(site[h][Latest], None)
        BY <1>3, <2>1, RefreshFacts DEF ChainInv, DeployInv
    <2>3. Leads(site[h][Latest])
        BY <2>2, ServedFacts
    <2>4. PICK d \in SnapshotDoc : d = site[h][Latest] /\ Leads(d)
        BY <2>2, <2>3
    <2>5. Leads(d)'
        BY <1>1, <2>4, LeadsStep
    <2>6. retained' = from_snapshot_bytes(d, None)
        BY <2>2, <2>4
    <2> QED
        BY <2>5, <2>6 DEF RetainsServed
<1> QED
    BY <1>2, <1>3, SystemSteps

(* Whatever a client finds under the name, only its age speaks against it, *)
(* or, while a run deletes records, that it is the older machine's.        *)
LEMMA NoAlarm ==
    ASSUME ChainInv, GatePassed, RetainsServed
    PROVE  NoFalseAlarm
<1> SUFFICES ASSUME NEW h \in pointed, NEW now \in Time, Serves(h)
             PROVE  verdict(site[h][Latest], now) \in
                        Accepting \cup {"dates_invalid", "snapshot_expired"}
                        \cup (IF At("extras") /\ run.extras # {}
                                THEN {"rollback"} ELSE {})
    BY DEF NoFalseAlarm
<1> DEFINE s == site[h][Latest]
<1>1. s \in SnapshotDoc /\ Leads(s)
    BY ServedFacts
<1>2. Vetted(s)
    <2>1. CASE h = Droplet
        BY <2>1 DEF GatePassed, head, Serves
    <2>2. CASE h # Droplet
        BY <2>2, ServedFacts DEF GatePassed
    <2> QED
        BY <2>1, <2>2
<1>3. CASE retained = None
    <2>1. same_source(s, retained) /\ chain_outcome(s, retained) \in Accepting
        BY <1>3 DEF same_source, chain_outcome, Accepting
    <2> QED
        BY <1>1, <1>2, <2>1, VettedVerdict DEF verdict
<1>4. CASE retained # None
    <2>1. PICK d \in SnapshotDoc :
              retained = from_snapshot_bytes(d, None) /\ Leads(d)
        BY <1>4 DEF RetainsServed
    <2>2. CASE h = Droplet
        <3>1. Succeeds(s, d) /\ Linked(s)
            BY <2>1, <2>2, ServedFacts DEF GatePassed, head, Serves
        <3>2. same_source(s, retained) /\ chain_outcome(s, retained) \in Accepting
            BY <1>1, <1>4, <2>1, <3>1, ChainVerdict DEF Succeeds
        <3> QED
            BY <1>1, <1>2, <3>2, VettedVerdict DEF verdict
    <2>3. CASE h # Droplet
        <3>1. s \in Origin /\ Succeeds(d, s)
            BY <2>1, <2>3, ServedFacts
        <3>2. /\ same_source(s, retained)
              /\ chain_outcome(s, retained) \in {"NoOpRefresh", "rollback"}
            BY <1>1, <1>4, <2>1, <3>1, ChainVerdict DEF Succeeds
        <3>3. CASE At("extras") /\ run.extras # {}
            BY <1>1, <1>2, <3>2, <3>3, VettedVerdict DEF verdict, Accepting
        <3>4. CASE ~(At("extras") /\ run.extras # {})
            <4>1. Droplet \notin pointed
                BY <2>3, <3>4 DEF ChainInv, OneMachine
            <4>2. d \in Origin
                BY <2>1, <4>1 DEF Public, Leads
            <4>3. s = d
                BY <3>1, <4>2 DEF ChainInv, OneOrigin
            <4>4. chain_outcome(s, retained) \in Accepting
                BY <1>1, <1>4, <2>1, <4>3, ChainVerdict
            <4> QED
                BY <1>1, <1>2, <3>2, <4>4, VettedVerdict DEF verdict
        <3> QED
            BY <3>3, <3>4
    <2> QED
        BY <2>2, <2>3
<1> QED
    BY <1>3, <1>4

(* A client that polls the name through deploys that die anywhere never    *)
(* turns on the operator, provided that nothing of Adverse happens, that   *)
(* the chain of an older machine is one a client would have started with,  *)
(* and that a committed snapshot names no predecessor but the one before   *)
(* it: the gate of ci-assemble.sh looks at the live predecessor only, and  *)
(* a client that was away longer compares with an older one.               *)
THEOREM NoClientAlarmed ==
    ASSUME Adverse = {}, \A s \in Live : Vetted(s),
           \A t \in Signed : Linked(t[Latest])
    PROVE  SystemSpec => []NoFalseAlarm
<1> DEFINE Inv == ChainInv /\ GatePassed /\ RetainsServed
<1>1. SystemInit => Inv
    BY ChainInit, GateInit DEF SystemInit, RetainsServed
<1>2. Inv /\ [SystemNext]_system => Inv'
    <2> SUFFICES ASSUME Inv, [SystemNext]_system PROVE Inv'
        OBVIOUS
    <2>1. [Next]_vars
        BY SystemSteps
    <2>2. ChainInv'
        BY <2>1, ChainStep
    <2>3. GatePassed'
        BY <2>1, GateStep DEF ChainInv
    <2>4. RetainsServed'
        BY RetainsStep
    <2> QED
        BY <2>2, <2>3, <2>4
<1>3. Inv => NoFalseAlarm
    BY NoAlarm
<1> QED
    BY <1>1, <1>2, <1>3, PTL DEF SystemSpec
=============================================================================
