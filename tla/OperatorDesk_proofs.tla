------------------------- MODULE OperatorDesk_proofs -------------------------
(***************************************************************************)
(* One command at a time, any number of keys and drafts: an announced key  *)
(* stays stored and every manifest put on line names it.  The invariant    *)
(* says what a command in progress has done to the seed file, and that no  *)
(* manifest on disk was signed by another key than the stored one.         *)
(***************************************************************************)
EXTENDS OperatorDesk, TLAPS

OneProcess == \A p, q \in Process : p = q

JobFacts(j) ==
    IF j.command = "keygen"
      THEN /\ j.phase = "truncate" => fs["seed"] = None
           /\ j.phase = "fill" => fs["seed"] = Torn
           /\ j.phase = "print" => fs["seed"] = j.content
      ELSE fs["seed"] \in Key /\ j.content.signer = fs["seed"]

JobsKnown == \A p \in Process : job[p] # None => JobFacts(job[p])

SignedByStored ==
    fs["manifest"] \in ManifestDoc =>
        fs["seed"] \in Key /\ fs["manifest"].signer = fs["seed"]

DeskInv == /\ TypeOK /\ JobsKnown /\ SignedByStored
           /\ AnnouncedKeyStored /\ OneOperator

(* The values files hold are told apart.                                   *)
LEMMA Distinct ==
    /\ None \notin Key /\ None \notin ManifestDoc /\ None # Torn
    /\ Torn \notin Key /\ Torn \notin ManifestDoc
BY OptionAssumption, DeskAssumption

LEMMA JobShape ==
    ASSUME TypeOK, NEW p \in Process, job[p] # None
    PROVE  /\ job[p] \in Job
           /\ job[p].file \in File
           /\ job[p].command = "keygen" =>
                 /\ job[p].content \in Key /\ job[p].file = "seed"
                 /\ job[p].phase \in {"truncate", "fill", "print"}
           /\ job[p].command # "keygen" =>
                 /\ job[p].content \in ManifestDoc
                 /\ job[p].file \in {"manifest", "manifest_sig"}
                 /\ job[p].phase \in {"truncate", "fill"}
BY DEF TypeOK, Job, File

(* What sign-manifest writes is a manifest signed by the key.              *)
LEMMA SignedDocument ==
    ASSUME TypeOK, NEW raw \in Input, NEW key \in Key,
           sign_document(raw, key) # None
    PROVE  /\ sign_document(raw, key) \in ManifestDoc
           /\ sign_document(raw, key).signer = key
<1>1. raw \in ManifestDoc
    BY DeskAssumption DEF Input, TypeOK
<1>2. raw \in ProviderManifest
    BY <1>1, DocAssumption
<1>3. sign_document(raw, key) = [raw EXCEPT !.signer = key]
    BY DEF sign_document
<1>4. [raw EXCEPT !.signer = key].signer = key
    BY <1>2 DEF ProviderManifest
<1> QED
    BY <1>1, <1>3, <1>4, DeskAssumption

(* While no key is stored, nothing was announced, put on line or signed.   *)
LEMMA NoKeyNothingDone ==
    ASSUME DeskInv, fs["seed"] \notin Key
    PROVE  announced = {} /\ online = {} /\ fs["manifest"] \notin ManifestDoc
<1>1. announced = {}
    BY DEF DeskInv, AnnouncedKeyStored, TypeOK
<1>2. ASSUME NEW m \in online PROVE FALSE
    <2>1. m.operator = fs["seed"] /\ m \in ProviderManifest
        BY <1>2, DocAssumption DEF DeskInv, OneOperator, TypeOK
    <2> QED
        BY <2>1 DEF ProviderManifest
<1> QED
    BY <1>1, <1>2 DEF DeskInv, SignedByStored

LEMMA DeskInit == Init => DeskInv
<1> SUFFICES ASSUME Init PROVE DeskInv
    OBVIOUS
<1>1. fs["seed"] = None /\ fs["manifest"] = None /\ fs["manifest_sig"] = None
    BY DEF Init, File
<1>2. TypeOK
    BY <1>1 DEF Init, TypeOK
<1> QED
    BY <1>1, <1>2, Distinct
       DEF Init, DeskInv, JobsKnown, SignedByStored, AnnouncedKeyStored,
           OneOperator

LEMMA TypeStep == TypeOK /\ [Next]_vars => TypeOK'
<1> SUFFICES ASSUME TypeOK, [Next]_vars PROVE TypeOK'
    OBVIOUS
<1>1. ASSUME NEW p \in Process, NEW calm \in BOOLEAN, NEW key \in Key,
             Keygen(p, key, calm)
      PROVE  TypeOK'
    <2>1. job' \in [Process -> Job \cup {None}]
        BY <1>1 DEF Keygen, TypeOK, Job
    <2> QED
        BY <1>1, <2>1 DEF Keygen, TypeOK
<1>2. ASSUME NEW p \in Process, NEW calm \in BOOLEAN, NEW raw \in Input,
             SignManifest(p, raw, calm)
      PROVE  TypeOK'
    <2>1. sign_document(raw, fs["seed"]) \in ManifestDoc
        BY <1>2, SignedDocument DEF SignManifest
    <2>2. job' \in [Process -> Job \cup {None}]
        BY <1>2, <2>1 DEF SignManifest, TypeOK, Job
    <2> QED
        BY <1>2, <2>2 DEF SignManifest, TypeOK
<1>3. ASSUME NEW p \in Process, Fingerprint(p) PROVE TypeOK'
    BY <1>3 DEF Fingerprint, TypeOK
<1>4. ASSUME NEW p \in Process, Truncate(p) PROVE TypeOK'
    <2>1. job[p] \in Job /\ job[p].file \in File
        BY <1>4, JobShape DEF Truncate
    <2>2. [job[p] EXCEPT !.phase = "fill"] \in Job
        BY <2>1 DEF Job
    <2>3. job' \in [Process -> Job \cup {None}]
        BY <1>4, <2>2 DEF Truncate, TypeOK
    <2>4. fs' = [fs EXCEPT ![job[p].file] = Torn]
        BY <1>4 DEF Truncate
    <2>5. /\ fs' \in [File -> ManifestDoc \cup Key \cup {None, Torn}]
          /\ \A f \in File : fs'[f] \in {fs[f], Torn}
        BY <2>1, <2>4 DEF TypeOK
    <2> QED
        BY <1>4, <2>3, <2>5 DEF Truncate, TypeOK, File
<1>5. ASSUME NEW p \in Process, Fill(p) PROVE TypeOK'
    <2>1. job[p] # None
        BY <1>5 DEF Fill
    <2>2. next_write(job[p]) \in Job \cup {None}
        BY <2>1, JobShape DEF next_write, Job
    <2>3. job' \in [Process -> Job \cup {None}]
        BY <1>5, <2>2 DEF Fill, TypeOK
    <2>4. fs' = [fs EXCEPT ![job[p].file] = job[p].content]
        BY <1>5 DEF Fill
    <2>5. CASE job[p].command = "keygen"
        <3>1. job[p].content \in Key /\ job[p].file = "seed"
            BY <2>1, <2>5, JobShape
        <3>2. /\ fs' \in [File -> ManifestDoc \cup Key \cup {None, Torn}]
              /\ fs'["seed"] \in Key
              /\ fs'["manifest"] = fs["manifest"]
              /\ fs'["manifest_sig"] = fs["manifest_sig"]
            BY <2>4, <3>1 DEF TypeOK, File
        <3> QED
            BY <1>5, <2>3, <3>2 DEF Fill, TypeOK
    <2>6. CASE job[p].command # "keygen"
        <3>1. /\ job[p].content \in ManifestDoc
              /\ job[p].file \in {"manifest", "manifest_sig"}
            BY <2>1, <2>6, JobShape
        <3>2. /\ fs' \in [File -> ManifestDoc \cup Key \cup {None, Torn}]
              /\ fs'["seed"] = fs["seed"]
              /\ fs'["manifest"] \in ManifestDoc \cup {None, Torn}
              /\ fs'["manifest_sig"] \in ManifestDoc \cup {None, Torn}
            BY <2>4, <3>1 DEF TypeOK, File
        <3> QED
            BY <1>5, <2>3, <3>2 DEF Fill, TypeOK
    <2> QED
        BY <2>5, <2>6
<1>6. ASSUME NEW p \in Process, PrintKey(p) PROVE TypeOK'
    <2>1. job[p].content \in Key
        BY <1>6, JobShape DEF PrintKey
    <2> QED
        BY <1>6, <2>1 DEF PrintKey, TypeOK
<1>7. ASSUME NEW p \in Process, Crash(p) PROVE TypeOK'
    BY <1>7 DEF Crash, TypeOK
<1>8. CASE RemoveTornSeed
    BY <1>8 DEF RemoveTornSeed, TypeOK, File
<1>9. CASE Publish
    BY <1>9 DEF Publish, gate, TypeOK
<1>10. CASE UNCHANGED vars
    BY <1>10 DEF vars, TypeOK
<1> QED
    BY <1>1, <1>2, <1>3, <1>4, <1>5, <1>6, <1>7, <1>8, <1>9, <1>10
       DEF Next, Step

(* The files, the commands and the histories keep their types.             *)
THEOREM DeskTypeCorrect == Spec => []TypeOK
<1>1. Init => TypeOK
    BY DeskInit DEF DeskInv
<1> QED
    BY <1>1, TypeStep, PTL DEF Spec
(* A new job is the only one, so what holds of it holds of all.            *)
LEMMA OnlyJob ==
    ASSUME OneProcess, NEW p \in Process,
           job'[p] # None => JobFacts(job[p])'
    PROVE  JobsKnown'
BY DEF OneProcess, JobsKnown

LEMMA DeskStep ==
    ASSUME OneProcess
    PROVE  DeskInv /\ [Next]_vars => DeskInv'
<1> SUFFICES ASSUME DeskInv, [Next]_vars PROVE DeskInv'
    OBVIOUS
<1>0. /\ TypeOK /\ JobsKnown /\ SignedByStored
      /\ AnnouncedKeyStored /\ OneOperator
    BY DEF DeskInv
<1>t. TypeOK'
    BY <1>0, TypeStep
<1> SUFFICES /\ JobsKnown' /\ SignedByStored'
             /\ AnnouncedKeyStored' /\ OneOperator'
    BY <1>t DEF DeskInv
(* Steps that touch no file keep what is known of the files.               *)
<1>f. ASSUME fs' = fs
      PROVE  /\ SignedByStored'
             /\ announced' = announced => AnnouncedKeyStored'
             /\ online' = online => OneOperator'
    BY <1>0, <1>f DEF SignedByStored, AnnouncedKeyStored, OneOperator
<1>1. ASSUME NEW p \in Process, NEW calm \in BOOLEAN, NEW key \in Key,
             Keygen(p, key, calm)
      PROVE  JobsKnown' /\ SignedByStored' /\ AnnouncedKeyStored' /\ OneOperator'
    <2>1. job'[p] = [command |-> "keygen", content |-> key, file |-> "seed",
                     phase |-> "truncate", calm |-> calm]
        BY <1>0, <1>1 DEF Keygen, TypeOK
    <2>2. JobFacts(job[p])'
        BY <1>1, <2>1 DEF Keygen, JobFacts
    <2> QED
        BY <1>1, <1>f, <2>2, OnlyJob DEF Keygen
<1>2. ASSUME NEW p \in Process, NEW calm \in BOOLEAN, NEW raw \in Input,
             SignManifest(p, raw, calm)
      PROVE  JobsKnown' /\ SignedByStored' /\ AnnouncedKeyStored' /\ OneOperator'
    <2>1. /\ job'[p].command = "sign-manifest"
          /\ job'[p].content = sign_document(raw, fs["seed"])
        BY <1>0, <1>2 DEF SignManifest, TypeOK
    <2>2. sign_document(raw, fs["seed"]).signer = fs["seed"]
        BY <1>0, <1>2, SignedDocument DEF SignManifest
    <2>3. JobFacts(job[p])'
        BY <1>2, <2>1, <2>2 DEF SignManifest, JobFacts
    <2> QED
        BY <1>2, <1>f, <2>3, OnlyJob DEF SignManifest
<1>3. ASSUME NEW p \in Process, Fingerprint(p)
      PROVE  JobsKnown' /\ SignedByStored' /\ AnnouncedKeyStored' /\ OneOperator'
    <2>1. fs' = fs /\ job' = job /\ online' = online
          /\ announced' = announced \cup {fs["seed"]}
        BY <1>3 DEF Fingerprint
    <2>2. JobsKnown' /\ AnnouncedKeyStored'
        BY <1>0, <2>1 DEF JobsKnown, JobFacts, AnnouncedKeyStored
    <2> QED
        BY <1>f, <2>1, <2>2
<1>4. ASSUME NEW p \in Process, Truncate(p)
      PROVE  JobsKnown' /\ SignedByStored' /\ AnnouncedKeyStored' /\ OneOperator'
    <2>1. /\ job[p] # None /\ job[p].phase = "truncate" /\ JobFacts(job[p])
          /\ fs' = [fs EXCEPT ![job[p].file] = Torn]
          /\ job'[p] = [job[p] EXCEPT !.phase = "fill"]
          /\ announced' = announced /\ online' = online
        BY <1>0, <1>4 DEF Truncate, TypeOK, JobsKnown
    <2>2. job[p] \in Job /\ job'[p].command = job[p].command
          /\ job'[p].content = job[p].content /\ job'[p].phase = "fill"
        BY <1>0, <2>1, JobShape DEF Job
    <2>3. CASE job[p].command = "keygen"
        <3>1. job[p].file = "seed" /\ fs["seed"] = None
            BY <1>0, <2>1, <2>3, JobShape DEF JobFacts
        <3>2. fs'["seed"] = Torn /\ fs'["manifest"] = fs["manifest"]
            BY <1>0, <2>1, <3>1 DEF TypeOK, File
        <3>3. announced = {} /\ online = {} /\ fs["manifest"] \notin ManifestDoc
            BY <3>1, NoKeyNothingDone, Distinct
        <3>4. JobFacts(job[p])'
            BY <2>2, <2>3, <3>2 DEF JobFacts
        <3> QED
            BY <2>1, <3>2, <3>3, <3>4, OnlyJob
               DEF SignedByStored, AnnouncedKeyStored, OneOperator
    <2>4. CASE job[p].command # "keygen"
        <3>1. job[p].file \in {"manifest", "manifest_sig"}
            BY <1>0, <2>1, <2>4, JobShape
        <3>2. fs'["seed"] = fs["seed"]
              /\ fs'["manifest"] \in {fs["manifest"], Torn}
            BY <1>0, <2>1, <3>1 DEF TypeOK, File
        <3>3. JobFacts(job[p])'
            BY <2>1, <2>2, <2>4, <3>2 DEF JobFacts
        <3> QED
            BY <1>0, <2>1, <3>2, <3>3, OnlyJob, Distinct
               DEF SignedByStored, AnnouncedKeyStored, OneOperator
    <2> QED
        BY <2>3, <2>4
<1>5. ASSUME NEW p \in Process, Fill(p)
      PROVE  JobsKnown' /\ SignedByStored' /\ AnnouncedKeyStored' /\ OneOperator'
    <2>1. /\ job[p] # None /\ job[p].phase = "fill" /\ JobFacts(job[p])
          /\ fs' = [fs EXCEPT ![job[p].file] = job[p].content]
          /\ job'[p] = next_write(job[p])
          /\ announced' = announced /\ online' = online
        BY <1>0, <1>5 DEF Fill, TypeOK, JobsKnown
    <2>2. CASE job[p].command = "keygen"
        <3>1. /\ job[p].file = "seed" /\ fs["seed"] = Torn
              /\ job[p] \in Job
            BY <1>0, <2>1, <2>2, JobShape DEF JobFacts
        <3>2. fs'["seed"] = job[p].content /\ fs'["manifest"] = fs["manifest"]
            BY <1>0, <2>1, <3>1 DEF TypeOK, File
        <3>3. announced = {} /\ online = {} /\ fs["manifest"] \notin ManifestDoc
            BY <3>1, NoKeyNothingDone, Distinct
        <3>4. /\ job'[p].command = "keygen" /\ job'[p].phase = "print"
              /\ job'[p].content = job[p].content
            BY <2>1, <2>2, <3>1 DEF next_write, Job
        <3>5. JobFacts(job[p])'
            BY <3>2, <3>4 DEF JobFacts
        <3> QED
            BY <2>1, <3>2, <3>3, <3>5, OnlyJob
               DEF SignedByStored, AnnouncedKeyStored, OneOperator
    <2>3. CASE job[p].command # "keygen"
        <3>1. /\ job[p].file \in {"manifest", "manifest_sig"}
              /\ job[p] \in Job
              /\ fs["seed"] \in Key /\ job[p].content.signer = fs["seed"]
            BY <1>0, <2>1, <2>3, JobShape DEF JobFacts
        <3>2. fs'["seed"] = fs["seed"]
              /\ fs'["manifest"] \in {fs["manifest"], job[p].content}
            BY <1>0, <2>1, <3>1 DEF TypeOK, File
        <3>3. job'[p] # None => /\ job'[p].command = job[p].command
                                /\ job'[p].content = job[p].content
            BY <2>1, <2>3, <3>1 DEF next_write, Job
        <3>4. job'[p] # None => JobFacts(job[p])'
            BY <2>3, <3>1, <3>2, <3>3 DEF JobFacts
        <3>5. JobsKnown'
            BY <3>4, OnlyJob
        <3>6. SignedByStored'
            BY <1>0, <3>1, <3>2 DEF SignedByStored
        <3> QED
            BY <1>0, <2>1, <3>2, <3>5, <3>6 DEF AnnouncedKeyStored, OneOperator
    <2> QED
        BY <2>2, <2>3
<1>6. ASSUME NEW p \in Process, PrintKey(p)
      PROVE  JobsKnown' /\ SignedByStored' /\ AnnouncedKeyStored' /\ OneOperator'
    <2>1. /\ job[p] # None /\ job[p].phase = "print" /\ JobFacts(job[p])
          /\ fs' = fs /\ online' = online /\ job'[p] = None
          /\ announced' = announced \cup {job[p].content}
        BY <1>0, <1>6 DEF PrintKey, TypeOK, JobsKnown
    <2>2. job[p].command = "keygen"
        BY <1>0, <2>1, JobShape
    <2>3. fs["seed"] = job[p].content
        BY <2>1, <2>2 DEF JobFacts
    <2>4. AnnouncedKeyStored'
        BY <1>0, <2>1, <2>3 DEF AnnouncedKeyStored
    <2> QED
        BY <1>f, <2>1, <2>4, OnlyJob
<1>7. ASSUME NEW p \in Process, Crash(p)
      PROVE  JobsKnown' /\ SignedByStored' /\ AnnouncedKeyStored' /\ OneOperator'
    <2>1. job'[p] = None
        BY <1>0, <1>7 DEF Crash, TypeOK
    <2> QED
        BY <1>7, <1>f, <2>1, OnlyJob DEF Crash
<1>8. CASE RemoveTornSeed
    <2>1. fs["seed"] \notin Key /\ fs'["manifest"] = fs["manifest"]
        BY <1>0, <1>8, Distinct DEF RemoveTornSeed, TypeOK, File
    <2>2. announced = {} /\ online = {} /\ fs["manifest"] \notin ManifestDoc
        BY <2>1, NoKeyNothingDone
    <2>3. JobsKnown'
        BY <1>8 DEF RemoveTornSeed, Idle, JobsKnown
    <2> QED
        BY <1>8, <2>1, <2>2, <2>3
           DEF RemoveTornSeed, SignedByStored, AnnouncedKeyStored, OneOperator
<1>9. CASE Publish
    <2>1. /\ fs' = fs /\ job' = job /\ announced' = announced
          /\ online' = online \cup {fs["manifest"]}
          /\ fs["manifest"] \in ManifestDoc
          /\ verify_manifest(fs["manifest"], 0) = "ok"
        BY <1>0, <1>9 DEF Publish, gate, TypeOK
    <2>2. fs["manifest"].signer = fs["manifest"].operator
        BY <2>1 DEF verify_manifest, authentic
    <2>3. fs["manifest"].operator = fs["seed"]
        BY <1>0, <2>1, <2>2 DEF SignedByStored
    <2>4. OneOperator'
        BY <1>0, <2>1, <2>3 DEF OneOperator
    <2>5. JobsKnown'
        BY <1>0, <2>1 DEF JobsKnown, JobFacts
    <2> QED
        BY <1>f, <2>1, <2>4, <2>5
<1>10. CASE UNCHANGED vars
    <2>1. JobsKnown'
        BY <1>0, <1>10 DEF vars, JobsKnown, JobFacts
    <2> QED
        BY <1>10, <1>f, <2>1 DEF vars
<1> QED
    BY <1>1, <1>2, <1>3, <1>4, <1>5, <1>6, <1>7, <1>8, <1>9, <1>10
       DEF Next, Step

(* As long as commands do not overlap, a key that was printed is the one   *)
(* in the seed file: neither a crash nor a second keygen replaces it.      *)
THEOREM AnnouncedKeyIsStored ==
    ASSUME OneProcess
    PROVE  Spec => []AnnouncedKeyStored
<1>1. DeskInv => AnnouncedKeyStored
    BY DEF DeskInv
<1>2. DeskInv /\ [Next]_vars => DeskInv'
    BY DeskStep
<1> QED
    BY <1>1, <1>2, DeskInit, PTL DEF Spec

(* Every manifest that ever passes the gate names the stored key, so that  *)
(* clients that pinned it on first use never have to change it.            *)
THEOREM OneOperatorOnline ==
    ASSUME OneProcess
    PROVE  Spec => []OneOperator
<1>1. DeskInv => OneOperator
    BY DEF DeskInv
<1>2. DeskInv /\ [Next]_vars => DeskInv'
    BY DeskStep
<1> QED
    BY <1>1, <1>2, DeskInit, PTL DEF Spec
=============================================================================
