---------------------- MODULE SnapshotPublisher_proofs ----------------------
(***************************************************************************)
(* One build-snapshot process at a time, for any configs, build times and  *)
(* length of the chain: complete siblings never change, the latest         *)
(* snapshot is retained, and what goes on line is one snapshot per number, *)
(* linked to the one before it unless it was built from a predecessor that *)
(* was not here.  The invariant says what each step of a run knows of the  *)
(* two siblings, and that every snapshot about to be written, or written,  *)
(* is linked to the sibling before it or came from elsewhere.              *)
(***************************************************************************)
EXTENDS SnapshotPublisher, TLAPS

OneBuilder == \A a, b \in Builder : a = b

(* Unless d was built from a predecessor that was not here, the sibling    *)
(* one number below it is complete, and d cites its digest.                *)
Linked(d) ==
    (d.sequence > 1 /\ d \notin foreign) =>
        /\ fs[Sibling(d.sequence - 1)] \in SnapshotDoc
        /\ d.previous_digest = fs[Sibling(d.sequence - 1)].digest

(* What a run knows when it is about to write its file `step`.             *)
Knows(j) ==
    LET sib == fs[Sibling(j.doc.sequence)]
        sig == fs[SiblingSig(j.doc.sequence)]
    IN
    /\ Linked(j.doc)
    /\ j.step = 1 => /\ j.phase = "truncate" => sib = None
                     /\ j.phase = "fill" => sib = Torn
    /\ j.step # 1 => sib = j.doc
    /\ j.step = 2 => /\ j.phase = "truncate" => sig = None
                     /\ j.phase = "fill" => sig = Torn
    /\ j.step \in {3, 4} => sig = j.doc /\ j.phase # "check"

JobsKnow == \A b \in Builder : job[b] # None => Knows(job[b])

SiblingsNamed ==
    \A n \in 1 .. MaxSequence :
        fs[Sibling(n)] \in SnapshotDoc =>
            fs[Sibling(n)].sequence = n /\ Linked(fs[Sibling(n)])

PublishedRetained == \A d \in published : fs[Sibling(d.sequence)] = d

PubInv == /\ TypeOK /\ JobsKnow /\ SiblingsNamed
          /\ LatestIsRetained /\ PublishedRetained

(* A step that writes over no complete sibling.                            *)
SiblingsKept ==
    \A n \in 1 .. MaxSequence : \A f \in {Sibling(n), SiblingSig(n)} :
        fs[f] \in SnapshotDoc => fs'[f] = fs[f]

-----------------------------------------------------------------------------
(* Files and documents                                                     *)

LEMMA FilesDiffer ==
    /\ Latest \in File /\ LatestSig \in File /\ Latest # LatestSig
    /\ \A n \in 1 .. MaxSequence :
          /\ Sibling(n) \in File /\ SiblingSig(n) \in File
          /\ Sibling(n) \notin {Latest, LatestSig}
          /\ SiblingSig(n) \notin {Latest, LatestSig}
          /\ \A m \in 1 .. MaxSequence :
                /\ Sibling(n) # SiblingSig(m)
                /\ Sibling(n) = Sibling(m) => n = m
                /\ SiblingSig(n) = SiblingSig(m) => n = m
BY DEF File, Latest, LatestSig, Sibling, SiblingSig

LEMMA ContentsDiffer ==
    Torn \notin SnapshotDoc /\ None \notin SnapshotDoc /\ Torn # None
BY PublisherAssumption

LEMMA DocFacts ==
    ASSUME NEW d \in SnapshotDoc
    PROVE  d \in CatalogSnapshot /\ d.sequence \in 1 .. MaxSequence
           /\ d.sequence \in Nat
BY DocAssumption, BuildAssumption, PublisherAssumption

(* The file a job writes next, step by step.                               *)
LEMMA PathFacts ==
    ASSUME NEW j, j.step \in 1 .. 4
    PROVE  /\ j.step = 1 => path(j) = Sibling(j.doc.sequence)
           /\ j.step = 2 => path(j) = SiblingSig(j.doc.sequence)
           /\ j.step = 3 => path(j) = Latest
           /\ j.step = 4 => path(j) = LatestSig
BY DEF path

LEMMA JobFacts ==
    ASSUME TypeOK, NEW b \in Builder, job[b] # None
    PROVE  /\ job[b] \in [doc : SnapshotDoc, step : 1 .. 4,
                          phase : {"check", "truncate", "fill"}, calm : BOOLEAN]
           /\ job[b].doc \in SnapshotDoc /\ job[b].step \in 1 .. 4
           /\ job[b].doc.sequence \in 1 .. MaxSequence
           /\ path(job[b]) \in File
<1>1. /\ job[b] \in [doc : SnapshotDoc, step : 1 .. 4,
                     phase : {"check", "truncate", "fill"}, calm : BOOLEAN]
    BY DEF TypeOK
<1>2. job[b].doc.sequence \in 1 .. MaxSequence
    BY <1>1, DocFacts
<1>3. path(job[b]) \in File
    BY <1>1, <1>2, PathFacts, FilesDiffer
<1> QED
    BY <1>1, <1>2, <1>3

(* A built snapshot follows the one it was built from by one.              *)
LEMMA BuildFacts ==
    ASSUME NEW config \in Config, NEW previous \in SnapshotDoc \cup {None},
           NEW at \in Time,
           NEW d, d = build_snapshot(config, previous, at, OperatorKey),
           d # None, d.sequence <= MaxSequence
    PROVE  /\ d \in SnapshotDoc
           /\ d.sequence > 1 => /\ previous \in SnapshotDoc
                                /\ previous.sequence = d.sequence - 1
                                /\ d.previous_digest = previous.digest
<1>1. d \in SnapshotDoc
    <2>1. ~(d.sequence > MaxSequence)
        <3>1. CASE previous = None
            <4>1. d.sequence = 1
                BY <3>1 DEF build_snapshot, next_sequence
            <4> QED
                BY <4>1, PublisherAssumption
        <3>2. CASE previous # None
            <4>1. d.sequence = (previous.sequence + 1) % U64
                BY <3>2 DEF build_snapshot, next_sequence
            <4>2. previous.sequence \in Nat
                BY <3>2, DocFacts
            <4>3. d.sequence \in Int
                BY <4>1, <4>2, U64Assumption
            <4> QED
                BY <4>3, PublisherAssumption
        <3> QED
            BY <3>1, <3>2
    <2> QED
        BY <2>1, BuildAssumption
<1>2. d.sequence = next_sequence(previous) /\ d.previous_digest = link(previous)
    BY DEF build_snapshot
<1>3. ASSUME d.sequence > 1
      PROVE  /\ previous \in SnapshotDoc
             /\ previous.sequence = d.sequence - 1
             /\ d.previous_digest = previous.digest
    <2>1. previous # None
        BY <1>2, <1>3 DEF next_sequence
    <2>2. previous \in SnapshotDoc /\ previous.sequence \in 1 .. MaxSequence
        BY <2>1, DocFacts
    <2>3. d.sequence = (previous.sequence + 1) % U64
        BY <1>2, <2>1 DEF next_sequence
    <2> DEFINE x == previous.sequence
    <2>4. x + 1 < U64 \/ x + 1 = U64
        BY <2>2, U64Assumption, PublisherAssumption
    <2>5. CASE x + 1 < U64
        <3>1. (x + 1) % U64 = x + 1
            BY <2>2, <2>5, U64Assumption
        <3> QED
            BY <1>2, <2>1, <2>2, <2>3, <3>1 DEF link
    <2>6. CASE x + 1 = U64
        <3>1. (x + 1) % U64 = 0
            BY <2>2, <2>6, U64Assumption
        <3> QED
            BY <1>3, <2>3, <3>1
    <2> QED
        BY <2>4, <2>5, <2>6
<1> QED
    BY <1>1, <1>3
-----------------------------------------------------------------------------
(* Type correctness                                                        *)

LEMMA TypeInit == Init => TypeOK
BY DEF Init, TypeOK

LEMMA NextStepFacts ==
    ASSUME TypeOK, NEW b \in Builder, job[b] # None
    PROVE  /\ job[b].step = 4 => next_step(job[b]) = None
           /\ job[b].step # 4 =>
                 /\ next_step(job[b]) \in
                       [doc : SnapshotDoc, step : 1 .. 4,
                        phase : {"check", "truncate", "fill"}, calm : BOOLEAN]
                 /\ next_step(job[b]).doc = job[b].doc
                 /\ next_step(job[b]).step = job[b].step + 1
                 /\ next_step(job[b]).phase =
                       IF job[b].step = 1 THEN "check" ELSE "truncate"
<1> DEFINE j == job[b]
<1>1. j \in [doc : SnapshotDoc, step : 1 .. 4,
             phase : {"check", "truncate", "fill"}, calm : BOOLEAN]
    BY JobFacts
<1> HIDE DEF j
<1>2. CASE j.step = 4
    BY <1>2 DEF next_step, j
<1>3. CASE j.step # 4
    <2>1. next_step(j) =
            [j EXCEPT !.step = j.step + 1,
                      !.phase = IF j.step = 1 THEN "check" ELSE "truncate"]
        BY <1>3 DEF next_step
    <2>2. j.step + 1 \in 1 .. 4
        BY <1>1, <1>3
    <2>3. /\ next_step(j).doc = j.doc
          /\ next_step(j).step = j.step + 1
          /\ next_step(j).phase = IF j.step = 1 THEN "check" ELSE "truncate"
        BY <1>1, <2>1
    <2>4. next_step(j) \in [doc : SnapshotDoc, step : 1 .. 4,
                            phase : {"check", "truncate", "fill"},
                            calm : BOOLEAN]
        BY <1>1, <2>1, <2>2
    <2> QED
        BY <1>3, <2>3, <2>4 DEF j
<1> QED
    BY <1>2, <1>3 DEF j

LEMMA TypeStep == TypeOK /\ [Next]_vars => TypeOK'
<1> SUFFICES ASSUME TypeOK, [Next]_vars PROVE TypeOK'
    OBVIOUS
<1> DEFINE Job == [doc : SnapshotDoc, step : 1 .. 4,
                   phase : {"check", "truncate", "fill"}, calm : BOOLEAN]
           Content == SnapshotDoc \cup {None, Torn}
<1>0. /\ fs \in [File -> Content] /\ job \in [Builder -> {None} \cup Job]
      /\ published \subseteq SnapshotDoc /\ foreign \subseteq SnapshotDoc
    BY DEF TypeOK
<1> SUFFICES /\ fs' \in [File -> Content] /\ job' \in [Builder -> {None} \cup Job]
             /\ published' \subseteq SnapshotDoc /\ foreign' \subseteq SnapshotDoc
    BY DEF TypeOK
<1>j. ASSUME NEW b \in Builder, job[b] # None
      PROVE  /\ job[b] \in Job /\ job[b].doc \in SnapshotDoc
             /\ path(job[b]) \in File
             /\ next_step(job[b]) \in {None} \cup Job
    BY <1>j, JobFacts, NextStepFacts
<1> HIDE DEF Job, Content
<1>1. ASSUME NEW b \in Builder, NEW config \in Config, NEW at \in Time,
             NEW calm \in BOOLEAN, NEW previous \in Previous,
             Build(b, config, previous, at, calm)
      PROVE  /\ job' \in [Builder -> {None} \cup Job]
             /\ foreign' \subseteq SnapshotDoc
             /\ UNCHANGED <<fs, published>>
    <2> DEFINE d == build_snapshot(config, previous, at, OperatorKey)
    <2>1. d # None /\ d.sequence <= MaxSequence
        BY <1>1 DEF Build
    <2> HIDE DEF d
    <2>2. previous \in SnapshotDoc \cup {None}
        BY DEF Previous
    <2>3. d \in SnapshotDoc
        BY <2>1, <2>2, BuildFacts DEF d
    <2>4. [doc |-> d, step |-> 1, phase |-> "check", calm |-> calm] \in Job
        BY <2>3 DEF Job
    <2> QED
        BY <1>0, <1>1, <2>3, <2>4 DEF Build, d
<1>2. ASSUME NEW b \in Builder, write_immutable(b)
      PROVE  job' \in [Builder -> {None} \cup Job] /\ UNCHANGED <<fs, published, foreign>>
    <2>1. job[b] # None
        BY <1>2 DEF write_immutable
    <2>2. [job[b] EXCEPT !.phase = "truncate"] \in Job
        BY <1>j, <2>1 DEF Job
    <2> QED
        BY <1>0, <1>j, <1>2, <2>1, <2>2 DEF write_immutable
<1>3. ASSUME NEW b \in Builder, Truncate(b)
      PROVE  /\ fs' \in [File -> Content] /\ job' \in [Builder -> {None} \cup Job]
             /\ UNCHANGED <<published, foreign>>
    <2>1. job[b] # None
        BY <1>3 DEF Truncate
    <2>2. [job[b] EXCEPT !.phase = "fill"] \in Job
        BY <1>j, <2>1 DEF Job
    <2>3. fs' \in [File -> Content]
        BY <1>0, <1>3 DEF Truncate, Content
    <2> QED
        BY <1>0, <1>3, <2>2, <2>3 DEF Truncate
<1>4. ASSUME NEW b \in Builder, Fill(b)
      PROVE  /\ fs' \in [File -> Content] /\ job' \in [Builder -> {None} \cup Job]
             /\ UNCHANGED <<published, foreign>>
    <2>1. job[b] # None
        BY <1>4 DEF Fill
    <2>2. job[b].doc \in Content /\ next_step(job[b]) \in {None} \cup Job
        BY <1>j, <2>1 DEF Content
    <2> QED
        BY <1>0, <1>4, <2>2 DEF Fill
<1>5. ASSUME NEW b \in Builder, Crash(b)
      PROVE  job' \in [Builder -> {None} \cup Job] /\ UNCHANGED <<fs, published, foreign>>
    BY <1>0, <1>5 DEF Crash
<1>6. ASSUME NEW n \in 1 .. MaxSequence, RemoveTorn(n)
      PROVE  fs' \in [File -> Content] /\ UNCHANGED <<job, published, foreign>>
    BY <1>0, <1>6 DEF RemoveTorn, Content
<1>7. ASSUME Publish
      PROVE  published' \subseteq SnapshotDoc /\ UNCHANGED <<fs, job, foreign>>
    <2>1. fs[Latest] \in SnapshotDoc
        BY <1>0, <1>7, FilesDiffer DEF Publish, verify_detached_sig, Content
    <2> QED
        BY <1>0, <1>7, <2>1 DEF Publish
<1>8. CASE UNCHANGED vars
    BY <1>0, <1>8 DEF vars
<1> QED
    BY <1>0, <1>1, <1>2, <1>3, <1>4, <1>5, <1>6, <1>7, <1>8 DEF Next, Step

(* The files, the runs and the history keep their types: nothing but       *)
(* whole or torn snapshots is ever in a file.                              *)
THEOREM PublisherTypeCorrect == Spec => []TypeOK
BY TypeInit, TypeStep, PTL DEF Spec

-----------------------------------------------------------------------------
(* Siblings                                                                *)

(* Only a file that was missing is truncated under a sibling's name, only  *)
(* a torn one is filled or removed.                                        *)
LEMMA SiblingsStep == PubInv /\ [Next]_vars => SiblingsKept
<1> SUFFICES ASSUME PubInv, [Next]_vars,
                    NEW n \in 1 .. MaxSequence,
                    NEW f \in {Sibling(n), SiblingSig(n)},
                    fs[f] \in SnapshotDoc
             PROVE  fs'[f] = fs[f]
    BY DEF SiblingsKept
<1>0. TypeOK /\ JobsKnow
    BY DEF PubInv
<1>1. CASE fs' = fs
    BY <1>1
<1>2. ASSUME NEW b \in Builder, Truncate(b) PROVE fs'[f] = fs[f]
    <2>1. job[b] # None /\ job[b].phase = "truncate" /\ Knows(job[b])
        BY <1>0, <1>2 DEF Truncate, JobsKnow
    <2>2. path(job[b]) # f
        <3>1. CASE job[b].step = 1
            BY <1>0, <2>1, <3>1, JobFacts, PathFacts, FilesDiffer,
               ContentsDiffer DEF Knows
        <3>2. CASE job[b].step = 2
            BY <1>0, <2>1, <3>2, JobFacts, PathFacts, FilesDiffer,
               ContentsDiffer DEF Knows
        <3>3. CASE job[b].step \in {3, 4}
            BY <1>0, <2>1, <3>3, JobFacts, PathFacts, FilesDiffer
        <3> QED
            BY <1>0, <2>1, <3>1, <3>2, <3>3, JobFacts
    <2> QED
        BY <1>0, <1>2, <2>2, FilesDiffer DEF Truncate, TypeOK
<1>3. ASSUME NEW b \in Builder, Fill(b) PROVE fs'[f] = fs[f]
    <2>1. job[b] # None /\ job[b].phase = "fill" /\ Knows(job[b])
        BY <1>0, <1>3 DEF Fill, JobsKnow
    <2>2. path(job[b]) # f
        <3>1. CASE job[b].step = 1
            BY <1>0, <2>1, <3>1, JobFacts, PathFacts, FilesDiffer,
               ContentsDiffer DEF Knows
        <3>2. CASE job[b].step = 2
            BY <1>0, <2>1, <3>2, JobFacts, PathFacts, FilesDiffer,
               ContentsDiffer DEF Knows
        <3>3. CASE job[b].step \in {3, 4}
            BY <1>0, <2>1, <3>3, JobFacts, PathFacts, FilesDiffer
        <3> QED
            BY <1>0, <2>1, <3>1, <3>2, <3>3, JobFacts
    <2> QED
        BY <1>0, <1>3, <2>2, FilesDiffer DEF Fill, TypeOK
<1>4. ASSUME NEW m \in 1 .. MaxSequence, RemoveTorn(m) PROVE fs'[f] = fs[f]
    <2>1. PICK g \in {Sibling(m), SiblingSig(m)} :
              fs[g] = Torn /\ fs' = [fs EXCEPT ![g] = None]
        BY <1>4 DEF RemoveTorn
    <2> QED
        BY <1>0, <2>1, FilesDiffer, ContentsDiffer DEF TypeOK
<1> QED
    BY <1>1, <1>2, <1>3, <1>4
       DEF Next, Step, Build, write_immutable, Crash, Publish, vars

-----------------------------------------------------------------------------
(* The retained chain                                                      *)

(* The history forgets nothing.                                            *)
LEMMA ForeignGrows == [Next]_vars => foreign \subseteq foreign'
BY DEF Next, Step, Build, write_immutable, Truncate, Fill, Crash, RemoveTorn,
       Publish, vars

LEMMA LinkedKept ==
    ASSUME TypeOK, SiblingsKept, [Next]_vars,
           NEW d, d.sequence \in 1 .. MaxSequence, Linked(d) \/ d \in foreign'
    PROVE  (d.sequence > 1 /\ d \notin foreign') =>
              /\ fs'[Sibling(d.sequence - 1)] \in SnapshotDoc
              /\ d.previous_digest = fs'[Sibling(d.sequence - 1)].digest
<1> SUFFICES ASSUME d.sequence > 1, d \notin foreign'
             PROVE  /\ fs'[Sibling(d.sequence - 1)] \in SnapshotDoc
                    /\ d.previous_digest = fs'[Sibling(d.sequence - 1)].digest
    OBVIOUS
<1> DEFINE n == d.sequence - 1
<1>1. n \in 1 .. MaxSequence
    BY PublisherAssumption
<1>2. /\ fs[Sibling(n)] \in SnapshotDoc
      /\ d.previous_digest = fs[Sibling(n)].digest
    BY ForeignGrows DEF Linked
<1>3. fs'[Sibling(n)] = fs[Sibling(n)]
    BY <1>1, <1>2 DEF SiblingsKept
<1> QED
    BY <1>2, <1>3

(* A predecessor the directory holds is also retained under its sequence.  *)
LEMMA HeldRetained ==
    ASSUME PubInv, NEW previous \in held, previous \in SnapshotDoc
    PROVE  fs[Sibling(previous.sequence)] = previous
<1>2. PICK f \in Document : previous = fs[f]
    BY DEF held
<1>3. CASE f = Latest
    BY <1>2, <1>3 DEF PubInv, LatestIsRetained
<1>4. CASE f # Latest
    <2>1. PICK n \in 1 .. MaxSequence : f = Sibling(n)
        BY <1>4 DEF Document
    <2>2. previous.sequence = n
        BY <1>2, <2>1 DEF PubInv, SiblingsNamed
    <2> QED
        BY <1>2, <2>1, <2>2
<1> QED
    BY <1>3, <1>4

LEMMA PubInit == Init => PubInv
<1> SUFFICES ASSUME Init PROVE PubInv
    OBVIOUS
<1>1. TypeOK
    BY TypeInit
<1>2. JobsKnow
    BY DEF Init, JobsKnow
<1>3. SiblingsNamed
    BY ContentsDiffer, FilesDiffer DEF Init, SiblingsNamed
<1>4. LatestIsRetained
    BY ContentsDiffer, FilesDiffer DEF Init, LatestIsRetained
<1>5. PublishedRetained
    BY DEF Init, PublishedRetained
<1> QED
    BY <1>1, <1>2, <1>3, <1>4, <1>5 DEF PubInv

(* Latest changes only in the third step of a run, after both siblings.    *)
LEMMA LatestStep ==
    ASSUME PubInv, [Next]_vars, SiblingsKept
    PROVE  LatestIsRetained'
<1>0. TypeOK /\ JobsKnow /\ LatestIsRetained
    BY DEF PubInv
<1>t. TypeOK'
    BY <1>0, TypeStep
<1> SUFFICES ASSUME fs'[Latest] \in SnapshotDoc
             PROVE  /\ fs'[Sibling(fs'[Latest].sequence)] = fs'[Latest]
                    /\ fs'[SiblingSig(fs'[Latest].sequence)] = fs'[Latest]
    BY DEF LatestIsRetained
<1>1. CASE fs'[Latest] = fs[Latest]
    <2>1. fs[Latest].sequence \in 1 .. MaxSequence
        BY <1>1, DocFacts
    <2>2. /\ fs[Sibling(fs[Latest].sequence)] = fs[Latest]
          /\ fs[SiblingSig(fs[Latest].sequence)] = fs[Latest]
        BY <1>0, <1>1 DEF LatestIsRetained
    <2> QED
        BY <1>1, <2>1, <2>2 DEF SiblingsKept
<1>2. ASSUME NEW b \in Builder, Fill(b), fs'[Latest] # fs[Latest]
      PROVE  /\ fs'[Sibling(fs'[Latest].sequence)] = fs'[Latest]
             /\ fs'[SiblingSig(fs'[Latest].sequence)] = fs'[Latest]
    <2>1. job[b] # None /\ Knows(job[b])
        BY <1>0, <1>2 DEF Fill, JobsKnow
    <2>2. /\ job[b].doc \in SnapshotDoc /\ job[b].step \in 1 .. 4
          /\ job[b].doc.sequence \in 1 .. MaxSequence
        BY <1>0, <2>1, JobFacts
    <2>3. path(job[b]) = Latest
        BY <1>0, <1>2, FilesDiffer DEF Fill, TypeOK
    <2>4. job[b].step = 3
        BY <2>2, <2>3, PathFacts, FilesDiffer
    <2>5. fs'[Latest] = job[b].doc
        BY <1>0, <1>2, <2>3, FilesDiffer DEF Fill, TypeOK
    <2>6. /\ fs[Sibling(job[b].doc.sequence)] = job[b].doc
          /\ fs[SiblingSig(job[b].doc.sequence)] = job[b].doc
        BY <2>1, <2>4 DEF Knows
    <2> QED
        BY <2>2, <2>5, <2>6 DEF SiblingsKept
<1>3. ASSUME NEW b \in Builder, Truncate(b), fs'[Latest] # fs[Latest]
      PROVE  FALSE
    <2>1. path(job[b]) = Latest /\ fs'[Latest] = Torn
        BY <1>0, <1>3, FilesDiffer DEF Truncate, TypeOK
    <2> QED
        BY <2>1, ContentsDiffer
<1>4. ASSUME NEW n \in 1 .. MaxSequence, RemoveTorn(n)
      PROVE  fs'[Latest] = fs[Latest]
    BY <1>0, <1>4, FilesDiffer DEF RemoveTorn, TypeOK
<1> QED
    BY <1>1, <1>2, <1>3, <1>4
       DEF Next, Step, Build, write_immutable, Crash, Publish, vars

(* A sibling gets its bytes only from a run that is linked.                *)
LEMMA NamedStep ==
    ASSUME PubInv, [Next]_vars, SiblingsKept
    PROVE  SiblingsNamed'
<1>0. TypeOK /\ JobsKnow /\ SiblingsNamed
    BY DEF PubInv
<1> SUFFICES ASSUME NEW n \in 1 .. MaxSequence,
                    fs'[Sibling(n)] \in SnapshotDoc
             PROVE  fs'[Sibling(n)].sequence = n /\ Linked(fs[Sibling(n)])'
    BY DEF SiblingsNamed
<1> DEFINE d == fs'[Sibling(n)]
<1>1. SUFFICES d.sequence = n /\ Linked(d)
    <2>1. d.sequence \in 1 .. MaxSequence
        OBVIOUS
    <2>2. (d.sequence > 1 /\ d \notin foreign') =>
              /\ fs'[Sibling(d.sequence - 1)] \in SnapshotDoc
              /\ d.previous_digest = fs'[Sibling(d.sequence - 1)].digest
        <3> HIDE DEF d
        <3> QED
            BY <1>0, <1>1, <2>1, LinkedKept
    <2> QED
        BY <1>1, <2>2 DEF Linked
<1>2. CASE fs'[Sibling(n)] = fs[Sibling(n)]
    BY <1>0, <1>2 DEF SiblingsNamed
<1>3. ASSUME NEW b \in Builder, Fill(b), fs'[Sibling(n)] # fs[Sibling(n)]
      PROVE  d.sequence = n /\ Linked(d)
    <2>1. job[b] # None /\ Knows(job[b])
        BY <1>0, <1>3 DEF Fill, JobsKnow
    <2>2. job[b].step \in 1 .. 4 /\ job[b].doc.sequence \in 1 .. MaxSequence
        BY <1>0, <2>1, JobFacts
    <2>3. path(job[b]) = Sibling(n) /\ d = job[b].doc
        BY <1>0, <1>3, FilesDiffer DEF Fill, TypeOK
    <2>4. job[b].doc.sequence = n
        BY <2>2, <2>3, PathFacts, FilesDiffer
    <2> QED
        BY <2>1, <2>3, <2>4 DEF Knows
<1>4. ASSUME NEW b \in Builder, Truncate(b), fs'[Sibling(n)] # fs[Sibling(n)]
      PROVE  FALSE
    <2>1. fs'[Sibling(n)] = Torn
        BY <1>0, <1>4, FilesDiffer DEF Truncate, TypeOK
    <2> QED
        BY <2>1, ContentsDiffer
<1>5. ASSUME NEW m \in 1 .. MaxSequence, RemoveTorn(m),
             fs'[Sibling(n)] # fs[Sibling(n)]
      PROVE  FALSE
    <2>1. PICK f : fs' = [fs EXCEPT ![f] = None]
        BY <1>5 DEF RemoveTorn
    <2>2. fs'[Sibling(n)] = None
        BY <1>0, <1>5, <2>1, FilesDiffer DEF TypeOK
    <2> QED
        BY <2>2, ContentsDiffer
<1> QED
    BY <1>2, <1>3, <1>4, <1>5
       DEF Next, Step, Build, write_immutable, Crash, Publish, vars

LEMMA PublishedStep ==
    ASSUME PubInv, [Next]_vars, SiblingsKept
    PROVE  PublishedRetained'
<1>0. TypeOK /\ LatestIsRetained /\ PublishedRetained
    BY DEF PubInv
<1> SUFFICES ASSUME NEW d \in published'
             PROVE  fs'[Sibling(d.sequence)] = d
    BY DEF PublishedRetained
<1>1. ASSUME d \in SnapshotDoc, fs[Sibling(d.sequence)] = d
      PROVE  fs'[Sibling(d.sequence)] = d
    <2>1. d.sequence \in 1 .. MaxSequence
        BY <1>1, DocFacts
    <2> QED
        BY <1>1, <2>1 DEF SiblingsKept
<1>2. CASE d \in published
    BY <1>0, <1>1, <1>2 DEF PublishedRetained, TypeOK
<1>3. CASE d \notin published
    <2>1. Publish
        BY <1>3 DEF Next, Step, Build, write_immutable, Truncate, Fill, Crash,
                    RemoveTorn, vars
    <2>2. d = fs[Latest] /\ d \in SnapshotDoc
        BY <1>0, <1>3, <2>1, FilesDiffer
           DEF Publish, verify_detached_sig, TypeOK
    <2> QED
        BY <1>0, <1>1, <2>2 DEF LatestIsRetained
<1> QED
    BY <1>2, <1>3

(* A run learns of its siblings before it writes them, and forgets nothing *)
(* until it ends.                                                          *)
LEMMA KnowsStep ==
    ASSUME OneBuilder, PubInv, [Next]_vars, SiblingsKept
    PROVE  JobsKnow'
<1>0. TypeOK /\ JobsKnow
    BY DEF PubInv
<1> SUFFICES ASSUME NEW b \in Builder, job'[b] # None
             PROVE  Knows(job[b])'
    BY DEF JobsKnow
<1> DEFINE j == job[b]
           k == job'[b]
           sib == Sibling(k.doc.sequence)
           sig == SiblingSig(k.doc.sequence)
<1>1. ASSUME   /\ k.doc \in SnapshotDoc
               /\ Linked(k.doc) \/ k.doc \in foreign'
               /\ k.step = 1 => /\ k.phase = "truncate" => fs'[sib] = None
                                /\ k.phase = "fill" => fs'[sib] = Torn
               /\ k.step # 1 => fs'[sib] = k.doc
               /\ k.step = 2 => /\ k.phase = "truncate" => fs'[sig] = None
                                /\ k.phase = "fill" => fs'[sig] = Torn
               /\ k.step \in {3, 4} => fs'[sig] = k.doc /\ k.phase # "check"
      PROVE  Knows(job[b])'
    <2>1. k.doc.sequence \in 1 .. MaxSequence
        BY <1>1, DocFacts
    <2> DEFINE d == k.doc
    <2>2. (d.sequence > 1 /\ d \notin foreign') =>
              /\ fs'[Sibling(d.sequence - 1)] \in SnapshotDoc
              /\ d.previous_digest = fs'[Sibling(d.sequence - 1)].digest
        <3>1. d.sequence \in 1 .. MaxSequence /\ (Linked(d) \/ d \in foreign')
            BY <1>1, <2>1
        <3> HIDE DEF d
        <3> QED
            BY <1>0, <3>1, LinkedKept
    <2>3. Linked(job[b].doc)'
        BY <2>2 DEF Linked
    <2> QED
        BY <1>1, <2>3 DEF Knows
<1>2. ASSUME NEW config \in Config, NEW at \in Time, NEW calm \in BOOLEAN,
             NEW previous \in Previous, Build(b, config, previous, at, calm)
      PROVE  /\ k.doc \in SnapshotDoc
             /\ Linked(k.doc) \/ k.doc \in foreign'
             /\ k.step = 1 /\ k.phase = "check"
    <2> DEFINE d == build_snapshot(config, previous, at, OperatorKey)
    <2>1. d # None /\ d.sequence <= MaxSequence
        BY <1>2 DEF Build
    <2>2. k = [doc |-> d, step |-> 1, phase |-> "check", calm |-> calm]
        BY <1>0, <1>2 DEF Build, TypeOK
    <2> HIDE DEF d
    <2>3. previous \in SnapshotDoc \cup {None}
        BY DEF Previous
    <2>4. /\ d \in SnapshotDoc
          /\ d.sequence > 1 => /\ previous \in SnapshotDoc
                               /\ previous.sequence = d.sequence - 1
                               /\ d.previous_digest = previous.digest
        BY <2>1, <2>3, BuildFacts DEF d
    <2>5. CASE previous \in held
        BY <2>2, <2>4, <2>5, HeldRetained DEF Linked
    <2>6. CASE previous = None
        BY <2>2, <2>4, <2>6, ContentsDiffer DEF Linked
    <2>7. CASE previous \notin {None} \cup held
        <3>1. d \in foreign'
            BY <1>2, <2>7 DEF Build, d
        <3> QED
            BY <2>2, <2>4, <3>1
    <2> QED
        BY <2>5, <2>6, <2>7
<1>j. ASSUME j # None
      PROVE  /\ Knows(j) /\ j.doc \in SnapshotDoc /\ j.step \in 1 .. 4
             /\ j.doc.sequence \in 1 .. MaxSequence
             /\ j \in [doc : SnapshotDoc, step : 1 .. 4,
                       phase : {"check", "truncate", "fill"}, calm : BOOLEAN]
    BY <1>0, <1>j, JobFacts DEF JobsKnow
<1>3. ASSUME write_immutable(b) PROVE Knows(k) /\ k.doc \in SnapshotDoc
    <2>1. j # None /\ j.phase = "check" /\ fs' = fs
        BY <1>3 DEF write_immutable
    <2>2. \/ fs[path(j)] = j.doc /\ k = next_step(j)
          \/ fs[path(j)] = None /\ k = [j EXCEPT !.phase = "truncate"]
        BY <1>0, <1>3 DEF write_immutable, TypeOK
    <2>3. CASE fs[path(j)] = j.doc /\ k = next_step(j)
        <3>1. j.step # 4
            BY <1>0, <2>1, <2>3, NextStepFacts
        <3>2. /\ k.doc = j.doc /\ k.step = j.step + 1
              /\ k.phase = IF j.step = 1 THEN "check" ELSE "truncate"
            BY <1>0, <2>1, <2>3, <3>1, NextStepFacts
        <3>3. j.step \in {1, 2}
            BY <1>j, <2>1 DEF Knows
        <3>4. CASE j.step = 1
            BY <1>j, <2>1, <2>3, <3>2, <3>4, PathFacts DEF Knows
        <3>5. CASE j.step = 2
            BY <1>j, <2>1, <2>3, <3>2, <3>5, PathFacts DEF Knows
        <3> QED
            BY <3>3, <3>4, <3>5
    <2>4. CASE fs[path(j)] = None /\ k = [j EXCEPT !.phase = "truncate"]
        <3>1. k.doc = j.doc /\ k.step = j.step /\ k.phase = "truncate"
            BY <1>j, <2>1, <2>4
        <3>2. j.step \in {1, 2}
            BY <1>j, <2>1 DEF Knows
        <3> QED
            BY <1>j, <2>1, <2>4, <3>1, <3>2, PathFacts DEF Knows
    <2> QED
        BY <2>2, <2>3, <2>4
<1>4. ASSUME Truncate(b)
      PROVE  /\ j # None /\ j.phase = "truncate" /\ k.phase = "fill"
             /\ k.doc = j.doc /\ k.step = j.step
             /\ fs' = [fs EXCEPT ![path(j)] = Torn]
    <2>1. j # None /\ j.phase = "truncate" /\ k = [j EXCEPT !.phase = "fill"]
        BY <1>0, <1>4 DEF Truncate, TypeOK
    <2> QED
        BY <1>4, <1>j, <2>1 DEF Truncate
<1>5. ASSUME Fill(b)
      PROVE  /\ j # None /\ j.phase = "fill" /\ j.step # 4
             /\ k.doc = j.doc /\ k.step = j.step + 1
             /\ k.phase = IF j.step = 1 THEN "check" ELSE "truncate"
             /\ fs' = [fs EXCEPT ![path(j)] = j.doc]
    <2>1. j # None /\ j.phase = "fill" /\ k = next_step(j)
        BY <1>0, <1>5 DEF Fill, TypeOK
    <2> QED
        BY <1>0, <1>5, <2>1, NextStepFacts DEF Fill
<1>6. ASSUME j # None, Knows(j), k = j, fs' = fs
      PROVE  Knows(k) /\ k.doc \in SnapshotDoc
    BY <1>6, <1>j
<1>a. ASSUME Knows(k), k.doc \in SnapshotDoc, fs' = fs
      PROVE  Knows(job[b])'
    BY <1>1, <1>a DEF Knows
<1>b. CASE Truncate(b)
    <2>1. fs'[path(j)] = Torn /\ \A f \in File \ {path(j)} : fs'[f] = fs[f]
        BY <1>0, <1>4, <1>b, JobFacts DEF TypeOK
    <2>2. CASE j.step = 1
        BY <1>1, <1>4, <1>b, <1>j, <2>1, <2>2, PathFacts, FilesDiffer DEF Knows
    <2>3. CASE j.step = 2
        BY <1>1, <1>4, <1>b, <1>j, <2>1, <2>3, PathFacts, FilesDiffer DEF Knows
    <2>4. CASE j.step \in {3, 4}
        BY <1>1, <1>4, <1>b, <1>j, <2>1, <2>4, PathFacts, FilesDiffer DEF Knows
    <2> QED
        BY <1>4, <1>b, <1>j, <2>2, <2>3, <2>4
<1>c. CASE Fill(b)
    <2>1. fs'[path(j)] = j.doc /\ \A f \in File \ {path(j)} : fs'[f] = fs[f]
        BY <1>0, <1>5, <1>c, JobFacts DEF TypeOK
    <2>2. CASE j.step = 1
        BY <1>1, <1>5, <1>c, <1>j, <2>1, <2>2, PathFacts, FilesDiffer DEF Knows
    <2>3. CASE j.step = 2
        BY <1>1, <1>5, <1>c, <1>j, <2>1, <2>3, PathFacts, FilesDiffer DEF Knows
    <2>4. CASE j.step = 3
        BY <1>1, <1>5, <1>c, <1>j, <2>1, <2>4, PathFacts, FilesDiffer DEF Knows
    <2> QED
        BY <1>5, <1>c, <1>j, <2>2, <2>3, <2>4
<1>d. ASSUME NEW c \in Builder, Step(c), ~Truncate(b), ~Fill(b)
      PROVE  write_immutable(b)
    <2>1. c = b
        BY DEF OneBuilder
    <2>2. ~Crash(b)
        BY <1>0 DEF Crash, TypeOK
    <2> QED
        BY <1>d, <2>1, <2>2 DEF Step
<1>e. ASSUME NEW c \in Builder, NEW config \in Config, NEW at \in Time,
             NEW calm \in BOOLEAN, NEW previous \in Previous,
             Build(c, config, previous, at, calm)
      PROVE  Knows(job[b])'
    <2>1. c = b
        BY DEF OneBuilder
    <2>2. /\ k.doc \in SnapshotDoc /\ (Linked(k.doc) \/ k.doc \in foreign')
          /\ k.step = 1 /\ k.phase = "check"
        BY <1>2, <1>e, <2>1
    <2> QED
        BY <1>1, <2>2
<1>f. CASE Publish \/ (\E n \in 1 .. MaxSequence : RemoveTorn(n))
    BY <1>f DEF Publish, RemoveTorn, Idle
<1>g. CASE UNCHANGED vars
    <2>1. job'[b] = job[b] /\ fs' = fs
        BY <1>g DEF vars
    <2>2. Knows(k) /\ k.doc \in SnapshotDoc
        BY <1>6, <1>j, <2>1
    <2> QED
        BY <1>a, <2>1, <2>2
<1>h. CASE write_immutable(b)
    BY <1>3, <1>a, <1>h DEF write_immutable
<1> QED
    BY <1>b, <1>c, <1>d, <1>e, <1>f, <1>g, <1>h DEF Next

LEMMA PubStep == OneBuilder /\ PubInv /\ [Next]_vars => PubInv' /\ SiblingsKept
<1> SUFFICES ASSUME OneBuilder, PubInv, [Next]_vars
             PROVE  PubInv' /\ SiblingsKept
    OBVIOUS
<1>1. SiblingsKept
    BY SiblingsStep
<1>2. TypeOK'
    BY TypeStep DEF PubInv
<1> QED
    BY <1>1, <1>2, KnowsStep, NamedStep, LatestStep, PublishedStep DEF PubInv

-----------------------------------------------------------------------------
(* One builder at a time                                                   *)

LEMMA PubInvariant ==
    ASSUME OneBuilder
    PROVE  Spec => []PubInv
<1>1. PubInv /\ [Next]_vars => PubInv'
    BY PubStep
<1> QED
    BY <1>1, PubInit, PTL DEF Spec

(* Crash or not, complete latest bytes are backed by both siblings of      *)
(* their sequence.                                                         *)
THEOREM LatestRetained ==
    ASSUME OneBuilder
    PROVE  Spec => []LatestIsRetained
<1>1. PubInv => LatestIsRetained
    BY DEF PubInv
<1> QED
    BY <1>1, PubInvariant, PTL

(* No run rewrites a complete retention sibling.                           *)
THEOREM SiblingsAreImmutable ==
    ASSUME OneBuilder
    PROVE  Spec => SiblingNeverRewritten
<1>1. PubInv /\ [Next]_vars =>
        [\A n \in 1 .. MaxSequence : \A f \in {Sibling(n), SiblingSig(n)} :
            fs[f] \in SnapshotDoc => fs'[f] = fs[f]]_fs
    BY PubStep DEF SiblingsKept
<1> QED
    BY <1>1, PubInvariant, PTL DEF Spec, SiblingNeverRewritten

(* One operator directory never forks what it puts on line: everything on  *)
(* line is still in the sibling of its sequence.                           *)
THEOREM OnlineForkFree ==
    ASSUME OneBuilder
    PROVE  Spec => []PublishedForkFree
<1>1. PubInv => PublishedForkFree
    BY DEF PubInv, PublishedRetained, PublishedForkFree
<1> QED
    BY <1>1, PubInvariant, PTL

(* Neighbours on line are linked, unless the later one was built from a    *)
(* predecessor the directory did not hold: each is the content of a        *)
(* sibling, and a sibling built from what is here cites the one before it. *)
THEOREM OnlineNeighboursChain ==
    ASSUME OneBuilder
    PROVE  Spec => []PublishedNeighboursChain
<1>1. PubInv => PublishedNeighboursChain
    <2> SUFFICES ASSUME PubInv, NEW d \in published,
                        NEW e \in published \ foreign,
                        e.sequence = d.sequence + 1
                 PROVE  e.previous_digest = d.digest
        BY DEF PublishedNeighboursChain
    <2>1. d \in SnapshotDoc /\ e \in SnapshotDoc
        BY DEF PubInv, TypeOK
    <2>2. d.sequence \in 1 .. MaxSequence /\ e.sequence \in 1 .. MaxSequence
        BY <2>1, DocFacts
    <2>3. fs[Sibling(d.sequence)] = d /\ fs[Sibling(e.sequence)] = e
        BY DEF PubInv, PublishedRetained
    <2>4. Linked(e)
        BY <2>1, <2>2, <2>3 DEF PubInv, SiblingsNamed
    <2>5. e.sequence > 1 /\ e.sequence - 1 = d.sequence
        BY <2>2
    <2> QED
        BY <2>3, <2>4, <2>5 DEF Linked
<1> QED
    BY <1>1, PubInvariant, PTL

-----------------------------------------------------------------------------
(* The log                                                                 *)

(* A sibling that gets its bytes was torn, and the run is the one that     *)
(* extends the sibling before it.                                          *)
LEMMA FilledSibling ==
    ASSUME PubInv, NEW b \in Builder, Fill(b), NEW n \in 1 .. MaxSequence,
           fs'[Sibling(n)] # fs[Sibling(n)]
    PROVE  \E s \in SnapshotDoc :
              /\ s.sequence = n /\ Linked(s) /\ fs[Sibling(n)] = Torn
              /\ fs' = [fs EXCEPT ![Sibling(n)] = s]
<1>0. TypeOK /\ JobsKnow
    BY DEF PubInv
<1>1. job[b] # None /\ job[b].phase = "fill" /\ Knows(job[b])
    BY <1>0 DEF Fill, JobsKnow
<1>2. /\ job[b].doc \in SnapshotDoc /\ job[b].step \in 1 .. 4
      /\ job[b].doc.sequence \in 1 .. MaxSequence
    BY <1>0, <1>1, JobFacts
<1>3. path(job[b]) = Sibling(n)
    BY <1>0, FilesDiffer DEF Fill, TypeOK
<1>4. job[b].step = 1 /\ job[b].doc.sequence = n
    BY <1>2, <1>3, PathFacts, FilesDiffer
<1>5. fs' = [fs EXCEPT ![Sibling(n)] = job[b].doc]
    BY <1>3 DEF Fill
<1> QED
    BY <1>1, <1>2, <1>4, <1>5 DEF Knows

(* Every other step leaves the siblings that are complete as they are.     *)
LEMMA RetainedStays ==
    ASSUME PubInv, [Next]_vars, ~\E b \in Builder : Fill(b)
    PROVE  Retained' = Retained
<1>0. TypeOK /\ SiblingsKept
    BY SiblingsStep DEF PubInv
<1> SUFFICES ASSUME NEW n \in 1 .. MaxSequence,
                    fs'[Sibling(n)] # fs[Sibling(n)]
             PROVE  /\ fs'[Sibling(n)] \notin SnapshotDoc
                    /\ fs[Sibling(n)] \notin SnapshotDoc
    BY DEF Retained
<1>1. fs[Sibling(n)] \notin SnapshotDoc
    BY <1>0 DEF SiblingsKept
<1>2. ASSUME NEW b \in Builder, Truncate(b)
      PROVE  fs'[Sibling(n)] \notin SnapshotDoc
    BY <1>0, <1>2, FilesDiffer, ContentsDiffer DEF Truncate, TypeOK
<1>3. ASSUME NEW m \in 1 .. MaxSequence, RemoveTorn(m)
      PROVE  fs'[Sibling(n)] \notin SnapshotDoc
    <2>1. PICK f : fs' = [fs EXCEPT ![f] = None]
        BY <1>3 DEF RemoveTorn
    <2> QED
        BY <1>0, <2>1, FilesDiffer, ContentsDiffer DEF TypeOK
<1> QED
    BY <1>1, <1>2, <1>3
       DEF Next, Step, Build, write_immutable, Crash, Publish, vars

(* With one build-snapshot at a time the directory is a SnapshotLog:       *)
(* whatever dies, is refused or is repeated, a snapshot enters it once,    *)
(* after its predecessor or built from one that was not here, never leaves *)
(* it, and only from there goes on line.                                   *)
THEOREM DirectoryIsALog ==
    ASSUME OneBuilder
    PROVE  Spec => ImplementsSnapshotLog
<1>1. Init => Log!Init
    BY ContentsDiffer, FilesDiffer DEF Init, Log!Init, Retained
<1>2. PubInv /\ [Next]_vars => [Log!Next]_(Log!vars)
    <2> SUFFICES ASSUME PubInv, [Next]_vars
                 PROVE  Log!Next \/ UNCHANGED Log!vars
        OBVIOUS
    <2>0. TypeOK
        BY DEF PubInv
    <2>1. ASSUME NEW b \in Builder, Fill(b), NEW n \in 1 .. MaxSequence,
                 fs'[Sibling(n)] # fs[Sibling(n)]
          PROVE  Log!Next
        <3>1. PICK s \in SnapshotDoc :
                  /\ s.sequence = n /\ Linked(s) /\ fs[Sibling(n)] = Torn
                  /\ fs' = [fs EXCEPT ![Sibling(n)] = s]
            BY <2>1, FilledSibling
        <3>2. /\ fs'[Sibling(n)] = s
              /\ \A m \in 1 .. MaxSequence :
                    m # n => fs'[Sibling(m)] = fs[Sibling(m)]
            BY <2>0, <3>1, FilesDiffer DEF TypeOK
        <3>3. Retained' = [Retained EXCEPT ![n] = s]
            BY <3>1, <3>2 DEF Retained
        <3>4. Retained[n] = None
            BY <3>1, ContentsDiffer DEF Retained
        <3>5. (s.sequence > 1 /\ s \notin foreign) =>
                  /\ Retained[s.sequence - 1] # None
                  /\ s.previous_digest = Retained[s.sequence - 1].digest
            <4> SUFFICES ASSUME n > 1, s \notin foreign
                         PROVE  /\ Retained[n - 1] # None
                                /\ s.previous_digest = Retained[n - 1].digest
                BY <3>1
            <4>1. n - 1 \in 1 .. MaxSequence
                BY PublisherAssumption
            <4>2. /\ fs[Sibling(n - 1)] \in SnapshotDoc
                  /\ s.previous_digest = fs[Sibling(n - 1)].digest
                BY <3>1 DEF Linked
            <4>3. Retained[n - 1] = fs[Sibling(n - 1)]
                BY <4>1, <4>2 DEF Retained
            <4> QED
                BY <4>2, <4>3, ContentsDiffer
        <3>6. UNCHANGED <<published, foreign>>
            BY <2>1 DEF Fill
        <3>7. Log!Retain(s)
            BY <3>1, <3>3, <3>4, <3>5, <3>6 DEF Log!Retain
        <3> QED
            BY <3>7 DEF Log!Next
    <2>2. ASSUME NEW b \in Builder, Fill(b),
                 \A n \in 1 .. MaxSequence : fs'[Sibling(n)] = fs[Sibling(n)]
          PROVE  UNCHANGED Log!vars
        <3>1. Retained' = Retained
            BY <2>2 DEF Retained
        <3> QED
            BY <2>2, <3>1 DEF Fill, Log!vars
    <2>3. CASE Publish
        <3> DEFINE s == fs[Latest]
        <3>1. /\ s \in SnapshotDoc /\ published' = published \cup {s}
              /\ fs' = fs /\ foreign' = foreign
            BY <2>0, <2>3, FilesDiffer DEF Publish, verify_detached_sig, TypeOK
        <3>2. s.sequence \in 1 .. MaxSequence /\ fs[Sibling(s.sequence)] = s
            BY <3>1, DocFacts DEF PubInv, LatestIsRetained
        <3> HIDE DEF s
        <3>3. Retained[s.sequence] = s
            BY <3>1, <3>2 DEF Retained
        <3>4. Retained' = Retained
            BY <3>1 DEF Retained
        <3>5. Log!GoOnline(s)
            BY <3>1, <3>3, <3>4 DEF Log!GoOnline
        <3> QED
            BY <3>1, <3>5 DEF Log!Next
    <2>4. CASE ~Publish /\ ~\E b \in Builder : Fill(b)
        <3>1. Retained' = Retained
            BY <2>4, RetainedStays
        <3>2. published' = published
            BY <2>4 DEF Next, Step, Build, write_immutable, Truncate, Crash,
                        RemoveTorn, vars
        <3>3. CASE foreign' = foreign
            BY <3>1, <3>2, <3>3 DEF Log!vars
        <3>4. CASE foreign' # foreign
            <4>1. PICK b \in Builder, config \in Config, at \in Time,
                       calm \in BOOLEAN, previous \in Previous :
                      Build(b, config, previous, at, calm)
                BY <3>4 DEF Next, Step, write_immutable, Truncate, Fill, Crash,
                            RemoveTorn, Publish, vars
            <4> DEFINE d == build_snapshot(config, previous, at, OperatorKey)
            <4>2. /\ d # None /\ d.sequence <= MaxSequence
                  /\ foreign' = foreign \cup {d}
                BY <3>4, <4>1 DEF Build
            <4> HIDE DEF d
            <4>3. d \in SnapshotDoc
                BY <4>2, BuildFacts DEF Previous, d
            <4>4. Log!BuildElsewhere(d)
                BY <3>1, <3>2, <4>2 DEF Log!BuildElsewhere
            <4> QED
                BY <4>3, <4>4 DEF Log!Next
        <3> QED
            BY <3>3, <3>4
    <2> QED
        BY <2>1, <2>2, <2>3, <2>4
<1> QED
    BY <1>1, <1>2, PubInvariant, PTL
       DEF Spec, ImplementsSnapshotLog, Log!Spec
=============================================================================
