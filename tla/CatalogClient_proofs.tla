------------------------ MODULE CatalogClient_proofs ------------------------
(***************************************************************************)
(* Proofs about CatalogClient, for every universe of documents and every   *)
(* set of clock readings.                                                  *)
(*                                                                         *)
(* Refresh lets the caller hand over the state of any source; Accept is    *)
(* what is left of it once verify_snapshot has accepted.  The invariants   *)
(* are proved about Accept, and RefreshAccepts ties the two together.      *)
(***************************************************************************)
EXTENDS CatalogClient, FiniteSetTheorems, WellFoundedInduction, TLAPS

Accept(s, now, t) ==
    LET k == SourceOf(s)  r == retained[k] IN
    /\ r # None =>
          /\ s.sequence >= r.sequence
          /\ s.sequence = r.sequence => s.digest = r.digest
          /\ s.sequence = r.sequence + 1 => s.previous_digest = r.digest
    /\ t => r # None /\ r.previous_policy = s.policy_digest
               /\ s.policy_digest # Malformed
    /\ ~dates_invalid(s, now) /\ ~expired(s, now)
    /\ s.parses /\ ~s.dup_keys
    /\ retained' = [retained EXCEPT ![k] = after_acceptance(r, s, t)]
    /\ accepted' = accepted \cup {[doc |-> s, at |-> now, transition |-> t,
                                   generation |-> generation[k]]}
    /\ UNCHANGED <<manifest, generation>>

-----------------------------------------------------------------------------
(* Facts about the pure verdicts                                           *)

LEMMA SnapshotFields ==
    ASSUME NEW s \in SnapshotDoc
    PROVE  /\ SourceOf(s) \in Source
           /\ s.provider_id \in Provider /\ s.catalog_id \in Catalog
           /\ s.sequence \in Nat /\ s.digest \in Digest
           /\ s.policy_digest \in Policy \cup {Malformed}
  BY DocAssumption DEF CatalogSnapshot, SourceOf, Source

(* verify_snapshot accepts only what passes every one of its checks.       *)
LEMMA AcceptedPasses ==
    ASSUME NEW s, NEW m, NEW r, NEW now,
           verify_snapshot(s, m, r, now) \in Accepting
    PROVE  /\ s.parses
           /\ authentic(s, m.operator)
           /\ ~dates_invalid(s, now) /\ ~expired(s, now)
           /\ public_catalogs(m, s.catalog_id) # {}
           /\ same_source(s, r)
           /\ policy_pinned(s, m, r)
           /\ chain_outcome(s, r) \in Accepting
  BY DEF verify_snapshot, Accepting

LEMMA OutcomeOrders ==
    ASSUME NEW s \in SnapshotDoc, NEW r \in RetainedCatalogState,
           chain_outcome(s, r) \in Accepting
    PROVE  /\ s.sequence >= r.sequence
           /\ s.sequence = r.sequence => s.digest = r.digest
           /\ s.sequence = r.sequence + 1 => s.previous_digest = r.digest
  <1>1. r # None
    BY OptionAssumption
  <1>2. s.sequence \in Nat /\ r.sequence \in Nat
    BY SnapshotFields DEF RetainedCatalogState
  <1> QED
    BY <1>1, <1>2 DEF chain_outcome, Accepting

(* The first public descriptor exists when there is one at all, and the    *)
(* policy it pins is a policy.                                             *)
LEMMA DescriptorPolicy ==
    ASSUME NEW m \in ManifestDoc, NEW c, public_catalogs(m, c) # {}
    PROVE  descriptor(m, c).policy \in Policy
  <1> DEFINE T == public_catalogs(m, c)
             Less == OpToRel(<, Nat)
  <1>1. m.catalogs \in Seq(CatalogDescriptor)
    BY DocAssumption DEF ProviderManifest
  <1>2. T \subseteq 1 .. Len(m.catalogs)
    BY <1>1 DEF public_catalogs, decoded
  <1>3. PICK i \in T : \A j \in T : <<j, i>> \notin Less
    <2>1. T \subseteq Nat
      BY <1>2
    <2> HIDE DEF T, Less
    <2> QED
      BY <2>1, NatLessThanWellFounded, WFMin DEF Less, T
  <1>4. ASSUME NEW j \in T PROVE i <= j
    <2>1. i \in Nat /\ j \in Nat
      BY <1>2
    <2>2. Less = {ss \in Nat \X Nat : ss[1] < ss[2]}
      BY DEF OpToRel
    <2>3. j < i => <<j, i>> \in Less
      BY <2>1, <2>2
    <2> HIDE DEF T, Less
    <2> QED
      BY <1>3, <2>1, <2>3
  <1>5. (CHOOSE x \in T : \A j \in T : x <= j) \in T
    BY <1>4
  <1>6. \A x \in T : m.catalogs[x] \in CatalogDescriptor
    BY <1>1, <1>2
  <1>7. descriptor(m, c) \in CatalogDescriptor
    BY <1>5, <1>6 DEF descriptor
  <1> QED
    BY <1>7 DEF CatalogDescriptor

-----------------------------------------------------------------------------
(* What the two actions come down to                                       *)

(* Whatever state the caller hands over, an accepted snapshot was compared *)
(* with the state of its own source.                                       *)
LEMMA RefreshAccepts ==
    ASSUME TypeOK,
           NEW s \in SnapshotDoc, NEW p \in Provider, NEW k \in Source,
           NEW now \in Time, Refresh(s, p, k, now)
    PROVE  \E t \in BOOLEAN : Accept(s, now, t)
  <1> DEFINE r == retained[k]
             m == manifest[p]
             t == policy_transition(s, m, r)
  <1>1. verify_snapshot(s, m, r, now) \in Accepting
    BY DEF Refresh
  <1>2. /\ s.parses /\ authentic(s, m.operator)
        /\ ~dates_invalid(s, now) /\ ~expired(s, now)
        /\ same_source(s, r) /\ policy_pinned(s, m, r)
        /\ chain_outcome(s, r) \in Accepting
    BY <1>1, AcceptedPasses
  <1>3. SourceOf(s) \in Source
    BY SnapshotFields
  <1>4. r = retained[SourceOf(s)]
    <2>1. CASE r = None
      BY <2>1 DEF Refresh
    <2>2. CASE r # None
      BY <2>2, <1>2 DEF TypeOK, same_source, SourceOf
    <2> QED
      BY <2>1, <2>2
  <1>5. t => r # None /\ r.previous_policy = s.policy_digest
    BY DEF policy_transition
  <1>6. s.policy_digest # Malformed
    BY <1>2 DEF policy_pinned
  <1>7. r # None =>
            /\ s.sequence >= r.sequence
            /\ s.sequence = r.sequence => s.digest = r.digest
            /\ s.sequence = r.sequence + 1 => s.previous_digest = r.digest
    <2>1. r # None => r \in RetainedCatalogState
      BY DEF TypeOK
    <2> QED
      BY <2>1, <1>2, OutcomeOrders
  <1>8. /\ retained' = [retained EXCEPT ![SourceOf(s)] =
                            after_acceptance(r, s, t)]
        /\ accepted' = accepted \cup
              {[doc |-> s, at |-> now, transition |-> t,
                generation |-> generation[SourceOf(s)]]}
        /\ UNCHANGED <<manifest, generation>>
    BY DEF Refresh
  <1>9. t \in BOOLEAN
    BY DEF policy_transition
  <1> HIDE DEF r, m, t
  <1>10. Accept(s, now, t)
    BY <1>2, <1>4, <1>5, <1>6, <1>7, <1>8 DEF Accept, authentic
  <1> QED
    BY <1>9, <1>10

(* A manifest touches nothing of the retained state but previous_policy,   *)
(* and only together with the generation.                                  *)
LEMMA FetchKeepsHeads ==
    ASSUME TypeOK, NEW m \in ManifestDoc, NEW now \in Time,
           FetchManifest(m, now)
    PROVE  /\ accepted' = accepted
           /\ \A k \in Source :
                 /\ retained[k] = None <=> retained'[k] = None
                 /\ retained[k] # None =>
                       /\ retained'[k].provider_id = retained[k].provider_id
                       /\ retained'[k].catalog_id = retained[k].catalog_id
                       /\ retained'[k].sequence = retained[k].sequence
                       /\ retained'[k].digest = retained[k].digest
                 /\ \/ /\ retained'[k] = retained[k]
                       /\ generation'[k] = generation[k]
                    \/ generation'[k] = generation[k] + 1
  <1>1. accepted' = accepted
    BY DEF FetchManifest
  <1>2. ASSUME NEW k \in Source
        PROVE  /\ retained[k] = None <=> retained'[k] = None
               /\ retained[k] # None =>
                     /\ retained'[k].provider_id = retained[k].provider_id
                     /\ retained'[k].catalog_id = retained[k].catalog_id
                     /\ retained'[k].sequence = retained[k].sequence
                     /\ retained'[k].digest = retained[k].digest
               /\ \/ /\ retained'[k] = retained[k]
                     /\ generation'[k] = generation[k]
                  \/ generation'[k] = generation[k] + 1
    <2>1. CASE policy_changes(k, m)
      <3> DEFINE old == descriptor(manifest[m.provider_id], k[2]).policy
      <3>1. retained[k] \in RetainedCatalogState
        BY <2>1 DEF TypeOK, policy_changes
      <3>2. /\ retained'[k] = [retained[k] EXCEPT !.previous_policy = old]
            /\ generation'[k] = generation[k] + 1
        BY <2>1 DEF FetchManifest
      <3>3. retained'[k].provider_id = retained[k].provider_id
            /\ retained'[k].catalog_id = retained[k].catalog_id
            /\ retained'[k].sequence = retained[k].sequence
            /\ retained'[k].digest = retained[k].digest
        BY <3>1, <3>2 DEF RetainedCatalogState
      <3>4. old \in Policy
        <4>1. manifest[m.provider_id] \in ManifestDoc
          BY <2>1, DocAssumption DEF TypeOK, policy_changes, ProviderManifest
        <4> QED
          BY <2>1, <4>1, DescriptorPolicy DEF policy_changes
      <3>5. retained'[k] \in RetainedCatalogState
        BY <3>1, <3>2, <3>4 DEF RetainedCatalogState
      <3> QED
        BY <3>1, <3>2, <3>3, <3>5, OptionAssumption
    <2>2. CASE ~policy_changes(k, m)
      BY <2>2 DEF FetchManifest
    <2> QED
      BY <2>1, <2>2
  <1> QED
    BY <1>1, <1>2

-----------------------------------------------------------------------------
(* Type correctness                                                        *)

(* The client's manifests, retained states and history always have their   *)
(* type, and a retained state is always about the source it is kept for.   *)
THEOREM TypeCorrect == Spec => []TypeOK
  <1>1. Init => TypeOK
    BY TimeAssumption DEF Init, TypeOK, Source
  <1>2. TypeOK /\ [Next]_vars => TypeOK'
    <2> SUFFICES ASSUME TypeOK, [Next]_vars PROVE TypeOK'
      OBVIOUS
    <2>1. ASSUME NEW m \in ManifestDoc, NEW now \in Time,
                 FetchManifest(m, now)
          PROVE  TypeOK'
      <3>1. m.provider_id \in Provider
        BY DocAssumption DEF ProviderManifest
      <3>2. manifest' = [manifest EXCEPT ![m.provider_id] = m]
        BY <2>1 DEF FetchManifest
      <3>3. /\ manifest' \in [Provider -> ManifestDoc \cup {None}]
            /\ \A p \in Provider :
                  manifest'[p] # None => manifest'[p].provider_id = p
        BY <3>1, <3>2 DEF TypeOK
      <3>4. retained' \in [Source -> RetainedCatalogState \cup {None}]
        <4>1. ASSUME NEW k \in Source, policy_changes(k, m)
              PROVE  [retained[k] EXCEPT !.previous_policy =
                         descriptor(manifest[m.provider_id], k[2]).policy]
                         \in RetainedCatalogState
          <5>1. manifest[m.provider_id] \in ManifestDoc
            BY <3>1, <4>1 DEF TypeOK, policy_changes
          <5>2. descriptor(manifest[m.provider_id], k[2]).policy \in Policy
            BY <4>1, <5>1, DescriptorPolicy DEF policy_changes
          <5>3. retained[k] \in RetainedCatalogState
            BY <4>1 DEF TypeOK, policy_changes
          <5> QED
            BY <5>2, <5>3 DEF RetainedCatalogState
        <4> QED
          BY <2>1, <4>1 DEF FetchManifest, TypeOK
      <3>5. \A k \in Source : retained'[k] # None =>
                <<retained'[k].provider_id, retained'[k].catalog_id>> = k
        BY <2>1, FetchKeepsHeads DEF TypeOK
      <3>6. generation' \in [Source -> 0 .. MaxGeneration]
        BY <2>1, TimeAssumption DEF FetchManifest, TypeOK
      <3>7. accepted' \subseteq Acceptance
        BY <2>1 DEF FetchManifest, TypeOK
      <3> QED
        BY <3>3, <3>4, <3>5, <3>6, <3>7 DEF TypeOK
    <2>2. ASSUME NEW s \in SnapshotDoc, NEW p \in Provider, NEW k \in Source,
                 NEW now \in Time, Refresh(s, p, k, now)
          PROVE  TypeOK'
      <3> DEFINE source == SourceOf(s)
      <3>1. PICK t \in BOOLEAN : Accept(s, now, t)
        BY <2>2, RefreshAccepts
      <3>2. source \in Source
        BY SnapshotFields
      <3>3. retained' = [retained EXCEPT ![source] =
                             after_acceptance(retained[source], s, t)]
        BY <3>1 DEF Accept
      <3>4. after_acceptance(retained[source], s, t) \in RetainedCatalogState
        <4>1. retained[source] # None =>
                  retained[source].previous_policy \in Policy \cup {None}
          BY <3>2 DEF TypeOK, RetainedCatalogState
        <4> QED
          BY <4>1, SnapshotFields DEF after_acceptance, RetainedCatalogState
      <3>5. retained' \in [Source -> RetainedCatalogState \cup {None}]
        BY <3>3, <3>4 DEF TypeOK
      <3>6. \A j \in Source : retained'[j] # None =>
                <<retained'[j].provider_id, retained'[j].catalog_id>> = j
        BY <3>2, <3>3 DEF TypeOK, after_acceptance, SourceOf
      <3>7. accepted' \subseteq Acceptance
        BY <3>1, <3>2 DEF Accept, TypeOK, Acceptance
      <3>8. UNCHANGED <<manifest, generation>>
        BY <3>1 DEF Accept
      <3> QED
        BY <3>5, <3>6, <3>7, <3>8 DEF TypeOK
    <2>3. CASE UNCHANGED vars
      BY <2>3 DEF vars, TypeOK
    <2> QED
      BY <2>1, <2>2, <2>3 DEF Next
  <1> QED
    BY <1>1, <1>2, PTL DEF Spec

-----------------------------------------------------------------------------
(* The inductive invariant                                                 *)

(* The retained state of a source is an upper bound of its history: no     *)
(* acceptance has a higher sequence, and one with the same sequence is the *)
(* retained snapshot.                                                      *)
HeadIsLatest ==
    \A a \in accepted :
        LET r == retained[SourceOf(a.doc)] IN
        /\ r # None
        /\ a.doc.sequence <= r.sequence
        /\ a.doc.sequence = r.sequence => a.doc.digest = r.digest

(* ... and it comes from an accepted snapshot.                             *)
HeadWasAccepted ==
    \A k \in Source : retained[k] # None =>
        \E a \in accepted :
            /\ SourceOf(a.doc) = k
            /\ a.doc.sequence = retained[k].sequence
            /\ a.doc.digest = retained[k].digest

(* A snapshot cited the current policy after the last change of policy:    *)
(* nothing is left of the grace.                                           *)
GraceState ==
    \A a \in accepted :
        LET k == SourceOf(a.doc) IN
        /\ a.generation <= generation[k]
        /\ ~a.transition /\ a.generation = generation[k]
               => retained[k].previous_policy = None

(* Every acceptance passed the checks that read the document alone.        *)
EachWasChecked ==
    \A a \in accepted :
        /\ ~dates_invalid(a.doc, a.at) /\ ~expired(a.doc, a.at)
        /\ a.doc.parses /\ ~a.doc.dup_keys

IInv ==
    /\ TypeOK
    /\ HeadIsLatest
    /\ HeadWasAccepted
    /\ GraceState
    /\ EachWasChecked
    /\ NoForkAccepted
    /\ NeighboursChain
    /\ GraceClosesForGood

(* What a step has to show about the one acceptance it may add.            *)
LEMMA AcceptPreserves ==
    ASSUME IInv, TypeOK', NEW s \in SnapshotDoc, NEW now \in Time,
           NEW t \in BOOLEAN, Accept(s, now, t)
    PROVE  IInv'
  <1> DEFINE k == SourceOf(s)
             r == retained[k]
             e == [doc |-> s, at |-> now, transition |-> t,
                   generation |-> generation[k]]
  <1> USE DEF IInv
  <1>1. /\ k \in Source
        /\ s.sequence \in Nat /\ s.digest \in Digest
        /\ r \in RetainedCatalogState \cup {None}
        /\ generation[k] \in Nat
    BY SnapshotFields, TimeAssumption DEF TypeOK
  <1>2. /\ accepted' = accepted \cup {e}
        /\ generation' = generation
    BY DEF Accept
  <1>3. /\ retained'[k] # None
        /\ retained'[k].sequence = s.sequence
        /\ retained'[k].digest = s.digest
        /\ retained'[k].previous_policy =
               IF t /\ r # None THEN r.previous_policy ELSE None
        /\ \A j \in Source \ {k} : retained'[j] = retained[j]
    <2>1. retained' = [retained EXCEPT ![k] = after_acceptance(r, s, t)]
      BY DEF Accept
    <2>2. retained'[k] = after_acceptance(r, s, t)
      BY <1>1, <2>1 DEF TypeOK
    <2>3. retained'[k] # None
      BY <1>1, <2>1, <2>2, SnapshotFields, OptionAssumption DEF TypeOK,
         after_acceptance, RetainedCatalogState
    <2> QED
      BY <1>1, <2>1, <2>2, <2>3 DEF TypeOK, after_acceptance
  <1>4. \A a \in accepted :
            /\ a.doc \in SnapshotDoc /\ SourceOf(a.doc) \in Source
            /\ a.doc.sequence \in Nat /\ a.at \in Time
            /\ a.transition \in BOOLEAN /\ a.generation \in Nat
    BY SnapshotFields, TimeAssumption DEF TypeOK, Acceptance
  <1>5. /\ r # None =>
              /\ r.sequence \in Nat
              /\ s.sequence >= r.sequence
              /\ s.sequence = r.sequence => s.digest = r.digest
              /\ s.sequence = r.sequence + 1 => s.previous_digest = r.digest
        /\ t => r # None /\ r.previous_policy # None
    BY <1>1, SnapshotFields, OptionAssumption DEF Accept, RetainedCatalogState
  <1>6. \A a \in accepted : SourceOf(a.doc) = k =>
            /\ r # None
            /\ a.doc.sequence <= s.sequence
            /\ a.doc.sequence = s.sequence => a.doc.digest = s.digest
    BY <1>1, <1>4, <1>5 DEF HeadIsLatest
  <1>7. HeadIsLatest'
    BY <1>1, <1>2, <1>3, <1>4, <1>6 DEF HeadIsLatest
  <1>8. HeadWasAccepted'
    <2>1. ASSUME NEW j \in Source, j # k, retained'[j] # None
          PROVE  \E a \in accepted' :
                     /\ SourceOf(a.doc) = j
                     /\ a.doc.sequence = retained'[j].sequence
                     /\ a.doc.digest = retained'[j].digest
      <3>1. retained'[j] = retained[j]
        BY <1>3, <2>1
      <3>2. PICK a \in accepted :
                     /\ SourceOf(a.doc) = j
                     /\ a.doc.sequence = retained[j].sequence
                     /\ a.doc.digest = retained[j].digest
        BY <2>1, <3>1 DEF HeadWasAccepted
      <3> QED
        BY <1>2, <3>1, <3>2
    <2>2. e \in accepted' /\ e.doc = s
      BY <1>2
    <2> QED
      BY <1>3, <2>1, <2>2 DEF HeadWasAccepted
  <1>9. GraceState'
    <2>1. ASSUME NEW a \in accepted, SourceOf(a.doc) = k, ~a.transition,
                 a.generation = generation[k]
          PROVE  retained'[k].previous_policy = None
      BY <1>3, <1>5, <2>1 DEF GraceState
    <2> QED
      BY <1>1, <1>2, <1>3, <1>4, <2>1 DEF GraceState
  <1>10. EachWasChecked'
    BY <1>2 DEF EachWasChecked, Accept, dates_invalid, expired
  <1>11. NoForkAccepted'
    BY <1>2, <1>6 DEF NoForkAccepted
  <1>12. NeighboursChain'
    <2>1. ASSUME NEW a \in accepted, SourceOf(a.doc) = k,
                 s.sequence = a.doc.sequence + 1
          PROVE  s.previous_digest = a.doc.digest
      <3>1. r # None /\ a.doc.sequence <= r.sequence
        BY <2>1 DEF HeadIsLatest
      <3>2. CASE r.sequence = a.doc.sequence
        BY <1>5, <2>1, <3>1, <3>2 DEF HeadIsLatest
      <3>3. CASE r.sequence = s.sequence
        <4>1. PICK b \in accepted : /\ SourceOf(b.doc) = k
                                    /\ b.doc.sequence = s.sequence
                                    /\ b.doc.digest = s.digest
          BY <1>1, <1>5, <3>1, <3>3 DEF HeadWasAccepted
        <4>2. b.doc = s
          BY <1>4, <4>1, DigestAssumption
        <4> QED
          BY <2>1, <4>1, <4>2 DEF NeighboursChain
      <3> QED
        BY <1>1, <1>4, <1>5, <2>1, <3>1, <3>2, <3>3
    <2>2. \A a \in accepted :
              SourceOf(a.doc) = k => a.doc.sequence # s.sequence + 1
      BY <1>1, <1>4, <1>6
    <2> QED
      BY <1>1, <1>2, <2>1, <2>2 DEF NeighboursChain
  <1>13. GraceClosesForGood'
    <2>1. \A a \in accepted :
              SourceOf(a.doc) = k => ~(s.sequence < a.doc.sequence)
      BY <1>1, <1>4, <1>6
    <2>2. \A a \in accepted :
              SourceOf(a.doc) = k /\ a.generation = generation[k] /\ t
                  => a.transition
      BY <1>5 DEF GraceState
    <2> QED
      BY <1>1, <1>2, <2>1, <2>2 DEF GraceClosesForGood
  <1> QED
    BY <1>7, <1>8, <1>9, <1>10, <1>11, <1>12, <1>13

LEMMA FetchPreserves ==
    ASSUME IInv, TypeOK', NEW m \in ManifestDoc, NEW now \in Time,
           FetchManifest(m, now)
    PROVE  IInv'
  <1> USE DEF IInv
  <1>1. /\ accepted' = accepted
        /\ \A k \in Source :
              /\ retained[k] = None <=> retained'[k] = None
              /\ retained[k] # None =>
                    /\ retained'[k].sequence = retained[k].sequence
                    /\ retained'[k].digest = retained[k].digest
              /\ \/ /\ retained'[k] = retained[k]
                    /\ generation'[k] = generation[k]
                 \/ generation'[k] = generation[k] + 1
    BY FetchKeepsHeads
  <1>2. \A a \in accepted :
            /\ SourceOf(a.doc) \in Source
            /\ a.generation \in Nat
            /\ generation[SourceOf(a.doc)] \in Nat
    BY SnapshotFields, TimeAssumption DEF TypeOK, Acceptance
  <1>3. HeadIsLatest'
    BY <1>1, <1>2 DEF HeadIsLatest
  <1>4. HeadWasAccepted'
    BY <1>1 DEF HeadWasAccepted
  <1>5. GraceState'
    BY <1>1, <1>2 DEF GraceState
  <1>6. EachWasChecked'
    BY <1>1 DEF EachWasChecked, dates_invalid, expired
  <1>7. NoForkAccepted' /\ NeighboursChain' /\ GraceClosesForGood'
    BY <1>1 DEF NoForkAccepted, NeighboursChain, GraceClosesForGood
  <1> QED
    BY <1>3, <1>4, <1>5, <1>6, <1>7

(* The invariant the safety theorems rest on.                              *)
THEOREM Inductive == Spec => []IInv
  <1>1. Init => IInv
    <2> SUFFICES ASSUME Init PROVE IInv
      OBVIOUS
    <2>1. TypeOK
      BY TimeAssumption DEF Init, TypeOK, Source
    <2>2. accepted = {} /\ \A k \in Source : retained[k] = None
      BY DEF Init
    <2> QED
      BY <2>1, <2>2 DEF IInv, HeadIsLatest, HeadWasAccepted, GraceState,
         EachWasChecked, NoForkAccepted, NeighboursChain, GraceClosesForGood
  <1>2. IInv /\ TypeOK' /\ [Next]_vars => IInv'
    <2> SUFFICES ASSUME IInv, TypeOK', [Next]_vars PROVE IInv'
      OBVIOUS
    <2>1. ASSUME NEW m \in ManifestDoc, NEW now \in Time,
                 FetchManifest(m, now)
          PROVE  IInv'
      BY <2>1, FetchPreserves
    <2>2. ASSUME NEW s \in SnapshotDoc, NEW p \in Provider, NEW k \in Source,
                 NEW now \in Time, Refresh(s, p, k, now)
          PROVE  IInv'
      <3>1. PICK t \in BOOLEAN : Accept(s, now, t)
        BY <2>2, RefreshAccepts DEF IInv
      <3> QED
        BY <3>1, AcceptPreserves
    <2>3. CASE UNCHANGED vars
      BY <2>3 DEF vars, IInv, TypeOK, HeadIsLatest, HeadWasAccepted,
         GraceState, EachWasChecked, NoForkAccepted, NeighboursChain,
         GraceClosesForGood, dates_invalid, expired
    <2> QED
      BY <2>1, <2>2, <2>3 DEF Next
  <1> QED
    BY <1>1, <1>2, TypeCorrect, PTL DEF Spec

-----------------------------------------------------------------------------
(* Safety                                                                  *)

(* No client accepts two snapshots of a source under one sequence number,  *)
(* for any documents served in any order.                                  *)
THEOREM NoFork == Spec => []NoForkAccepted
  <1>1. IInv => NoForkAccepted
    BY DEF IInv
  <1> QED
    BY <1>1, Inductive, PTL

(* Accepted neighbours are linked by previousDigest.                       *)
THEOREM Neighbours == Spec => []NeighboursChain
  <1>1. IInv => NeighboursChain
    BY DEF IInv
  <1> QED
    BY <1>1, Inductive, PTL

(* The policy-transition grace, once closed, stays closed.                 *)
THEOREM GraceCloses == Spec => []GraceClosesForGood
  <1>1. IInv => GraceClosesForGood
    BY DEF IInv
  <1> QED
    BY <1>1, Inductive, PTL

(* One snapshot is accepted at moments no further apart than the expiry    *)
(* window and both skew allowances, whatever the clock does.               *)
THEOREM Freshness == Spec => []FreshnessCeiling
  <1>1. IInv => FreshnessCeiling
    <2> SUFFICES ASSUME IInv, NEW a \in accepted, NEW b \in accepted,
                        a.doc.digest = b.doc.digest
                 PROVE  b.at - a.at <= MAX_EXPIRY_WINDOW + 2 * CLOCK_SKEW
      BY DEF FreshnessCeiling
    <2>1. /\ a.doc \in SnapshotDoc /\ b.doc \in SnapshotDoc
          /\ a.at \in Int /\ b.at \in Int
      BY TimeAssumption DEF IInv, TypeOK, Acceptance
    <2>2. a.doc = b.doc
      BY <2>1, DigestAssumption
    <2>3. ~dates_invalid(a.doc, a.at) /\ ~expired(a.doc, b.at)
      BY <2>2 DEF IInv, EachWasChecked
    <2>4. a.doc.generated_at \in Int /\ a.doc.expires_at \in Int
      BY <2>1, <2>3, DocAssumption DEF CatalogSnapshot, dates_invalid
    <2>5. /\ a.doc.expires_at - a.doc.generated_at <= MAX_EXPIRY_WINDOW
          /\ a.doc.generated_at <= a.at + CLOCK_SKEW
          /\ b.at <= a.doc.expires_at + CLOCK_SKEW
      BY <2>1, <2>3, <2>4, BoundAssumption DEF dates_invalid, expired
    <2> QED
      BY <2>1, <2>4, <2>5, BoundAssumption
  <1> QED
    BY <1>1, Inductive, PTL

(* A verdict about what an operator published is reached only for bytes    *)
(* that carry the operator's signature.                                    *)
THEOREM Accusations == Spec => []AccusationsAuthenticated
  <1>1. ASSUME NEW m \in ManifestDoc, NEW now \in Time,
               verify_manifest(m, now) \in ManifestAccusation
        PROVE  m.signer = m.operator /\ ~m.dup_keys
    BY <1>1 DEF verify_manifest, ManifestAccusation, authentic
  <1>2. ASSUME NEW s, NEW m, NEW r, NEW now,
               verify_snapshot(s, m, r, now) \in Accusation
        PROVE  s.signer = m.operator /\ ~s.dup_keys
    BY <1>2 DEF verify_snapshot, Accusation, authentic
  <1>3. AccusationsAuthenticated
    BY <1>1, <1>2 DEF AccusationsAuthenticated
  <1> QED
    BY <1>3, PTL

(* State kept for another source never turns into a chain accusation.      *)
THEOREM ForeignState == Spec => []ForeignStateNeverAccuses
  <1>1. ASSUME TypeOK, NEW s \in SnapshotDoc, NEW p \in Provider,
               NEW k \in Source, NEW now \in Time, retained[k] # None,
               k # SourceOf(s)
        PROVE  verify_snapshot(s, manifest[p], retained[k], now) \notin
                   Accepting \cup {"rollback", "fork", "inconsistent_jump",
                                   "policy_mismatch"}
    <2>1. ~same_source(s, retained[k])
      BY <1>1 DEF TypeOK, same_source, SourceOf
    <2> QED
      BY <2>1 DEF verify_snapshot, Accepting
  <1>2. TypeOK => ForeignStateNeverAccuses
    BY <1>1 DEF ForeignStateNeverAccuses
  <1> QED
    BY <1>2, TypeCorrect, PTL

(* The retained state can be rebuilt from an accepted snapshot's bytes.    *)
THEOREM Reloads == Spec => []RetainedStateReloads
  <1>1. IInv => RetainedStateReloads
    <2> SUFFICES ASSUME IInv, NEW k \in Source, retained[k] # None
                 PROVE  \E a \in accepted :
                            from_snapshot_bytes(a.doc,
                                retained[k].previous_policy) = retained[k]
      BY DEF RetainedStateReloads
    <2> DEFINE r == retained[k]
    <2>1. PICK a \in accepted : /\ SourceOf(a.doc) = k
                                /\ a.doc.sequence = r.sequence
                                /\ a.doc.digest = r.digest
      BY DEF IInv, HeadWasAccepted
    <2>2. a.doc.parses /\ ~a.doc.dup_keys
      BY DEF IInv, EachWasChecked
    <2>3. /\ r \in RetainedCatalogState
          /\ r.provider_id = a.doc.provider_id
          /\ r.catalog_id = a.doc.catalog_id
      BY <2>1 DEF IInv, TypeOK, SourceOf
    <2>4. r = [provider_id |-> r.provider_id, catalog_id |-> r.catalog_id,
               sequence |-> r.sequence, digest |-> r.digest,
               previous_policy |-> r.previous_policy]
      BY <2>3 DEF RetainedCatalogState
    <2>5. from_snapshot_bytes(a.doc, r.previous_policy) = r
      BY <2>1, <2>2, <2>3, <2>4 DEF from_snapshot_bytes
    <2> QED
      BY <2>5
  <1> QED
    BY <1>1, Inductive, PTL

(* In a manifest in use every catalog has at most one decoded declaration, *)
(* public or not: verify_manifest looked at all of them.                   *)
THEOREM Unambiguous == Spec => []DeclarationsUnambiguous
  <1> DEFINE NoDuplicates == \A p \in Provider :
                 manifest[p] # None => ~duplicate_catalog(manifest[p])
  <1>1. Init => NoDuplicates
    BY DEF Init
  <1>2. TypeOK /\ NoDuplicates /\ [Next]_vars => NoDuplicates'
    <2> SUFFICES ASSUME TypeOK, NoDuplicates, [Next]_vars
                 PROVE  NoDuplicates'
      OBVIOUS
    <2>1. ASSUME NEW m \in ManifestDoc, NEW now \in Time,
                 FetchManifest(m, now)
          PROVE  NoDuplicates'
      <3>1. ~duplicate_catalog(m)
        BY <2>1 DEF FetchManifest, verify_manifest
      <3>2. manifest' = [manifest EXCEPT ![m.provider_id] = m]
        BY <2>1 DEF FetchManifest
      <3>3. manifest \in [Provider -> ManifestDoc \cup {None}]
        BY DEF TypeOK
      <3> QED
        BY <3>1, <3>2, <3>3
    <2>2. CASE UNCHANGED manifest
      BY <2>2
    <2> QED
      BY <2>1, <2>2 DEF Next, Refresh, vars
  <1>3. NoDuplicates => DeclarationsUnambiguous
    <2> SUFFICES ASSUME NEW p \in Provider, NEW c \in Catalog,
                        ~duplicate_catalog(manifest[p])
                 PROVE  Cardinality(public_catalogs(manifest[p], c)
                            \cup audience_skipped(manifest[p], c)) <= 1
      BY DEF DeclarationsUnambiguous
    <2> DEFINE D == public_catalogs(manifest[p], c)
                        \cup audience_skipped(manifest[p], c)
    <2>1. \A i, j \in D : i = j
      BY DEF duplicate_catalog, public_catalogs, audience_skipped
    <2>2. CASE D = {}
      BY <2>2, FS_EmptySet
    <2>3. CASE D # {}
      <3>1. PICK i : D = {i}
        BY <2>1, <2>3
      <3> QED
        BY <3>1, FS_Singleton
    <2> QED
      BY <2>2, <2>3
  <1> QED
    BY <1>1, <1>2, <1>3, TypeCorrect, PTL DEF Spec

-----------------------------------------------------------------------------
(* Refinement                                                              *)

(* The state functions AcceptedChain's variables stand for.                *)
HeadOf == [k \in Source |->
              IF retained[k] = None THEN None
              ELSE [sequence |-> retained[k].sequence,
                    digest   |-> retained[k].digest]]
LedgerOf == {<<SourceOf(a.doc), a.doc.sequence, a.doc.digest>> :
                a \in accepted}
LinkOf == [d \in {s.digest : s \in SnapshotDoc} |->
              (CHOOSE s \in SnapshotDoc : s.digest = d).previous_digest]

LEMMA AcceptAdvances ==
    ASSUME IInv, NEW s \in SnapshotDoc, NEW now \in Time,
           NEW t \in BOOLEAN, Accept(s, now, t)
    PROVE  \/ HeadOf' = HeadOf /\ LedgerOf' = LedgerOf
           \/ /\ HeadOf[SourceOf(s)] # None =>
                    /\ s.sequence > HeadOf[SourceOf(s)].sequence
                    /\ s.sequence = HeadOf[SourceOf(s)].sequence + 1
                           => LinkOf[s.digest] = HeadOf[SourceOf(s)].digest
              /\ HeadOf' = [HeadOf EXCEPT ![SourceOf(s)] =
                               [sequence |-> s.sequence, digest |-> s.digest]]
              /\ LedgerOf' = LedgerOf \cup
                                {<<SourceOf(s), s.sequence, s.digest>>}
  <1> DEFINE k == SourceOf(s)
             r == retained[k]
             block == [sequence |-> s.sequence, digest |-> s.digest]
             triple == <<k, s.sequence, s.digest>>
  <1>1. /\ k \in Source /\ s.sequence \in Nat
        /\ r # None => r.sequence \in Nat
        /\ retained \in [Source -> RetainedCatalogState \cup {None}]
    BY SnapshotFields DEF IInv, TypeOK, RetainedCatalogState
  <1>2. /\ after_acceptance(r, s, t).sequence = s.sequence
        /\ after_acceptance(r, s, t).digest = s.digest
        /\ retained' = [retained EXCEPT ![k] = after_acceptance(r, s, t)]
    BY DEF Accept, after_acceptance
  <1>3. after_acceptance(r, s, t) # None
    <2>1. r # None => r.previous_policy \in Policy \cup {None}
      BY <1>1 DEF RetainedCatalogState
    <2>2. after_acceptance(r, s, t) \in RetainedCatalogState
      BY <2>1, SnapshotFields DEF after_acceptance, RetainedCatalogState
    <2> QED
      BY <2>2, OptionAssumption
  <1>4. HeadOf' = [HeadOf EXCEPT ![k] = block]
    BY <1>1, <1>2, <1>3 DEF HeadOf
  <1>5. LedgerOf' = LedgerOf \cup {triple}
    <2> DEFINE e == [doc |-> s, at |-> now, transition |-> t,
                     generation |-> generation[k]]
    <2>1. accepted' = accepted \cup {e} /\ e.doc = s
      BY DEF Accept
    <2> HIDE DEF e
    <2>2. LedgerOf' = {<<SourceOf(a.doc), a.doc.sequence, a.doc.digest>> :
                          a \in accepted \cup {e}}
      BY <2>1 DEF LedgerOf
    <2> QED
      BY <2>1, <2>2 DEF LedgerOf
  <1>6. LinkOf[s.digest] = s.previous_digest
    BY DigestAssumption DEF LinkOf
  <1>7. r # None => HeadOf[k] = [sequence |-> r.sequence, digest |-> r.digest]
    BY <1>1 DEF HeadOf
  <1>8. r = None => HeadOf[k] = None
    BY <1>1 DEF HeadOf
  <1>9. r # None =>
            /\ s.sequence >= r.sequence
            /\ s.sequence = r.sequence => s.digest = r.digest
            /\ s.sequence = r.sequence + 1 => s.previous_digest = r.digest
    BY DEF Accept
  <1>10. CASE r # None /\ s.sequence = r.sequence
    <2>1. HeadOf' = HeadOf
      BY <1>4, <1>7, <1>9, <1>10 DEF HeadOf
    <2>2. triple \in LedgerOf
      BY <1>1, <1>9, <1>10 DEF IInv, HeadWasAccepted, LedgerOf
    <2> QED
      BY <1>5, <2>1, <2>2
  <1>11. CASE ~(r # None /\ s.sequence = r.sequence)
    <2>1. HeadOf[k] # None =>
              /\ s.sequence > HeadOf[k].sequence
              /\ s.sequence = HeadOf[k].sequence + 1
                     => LinkOf[s.digest] = HeadOf[k].digest
      BY <1>1, <1>6, <1>7, <1>8, <1>9, <1>11
    <2> QED
      BY <1>4, <1>5, <2>1
  <1> QED
    BY <1>10, <1>11

(* Forgetting documents, keys, clocks and policies, the client is an       *)
(* AcceptedChain: whatever is served, what it accepts per source is a      *)
(* growing sequence of linked, never rewritten snapshots.                  *)
THEOREM Implements == Spec => ImplementsAcceptedChain
  <1>1. Init => Chain!Init
    BY DEF Init, Chain!Init
  <1>2. IInv /\ [Next]_vars => [Chain!Next]_(Chain!vars)
    <2> SUFFICES ASSUME IInv, [Next]_vars
                 PROVE  Chain!Next \/ UNCHANGED Chain!vars
      OBVIOUS
    <2>1. ASSUME NEW m \in ManifestDoc, NEW now \in Time,
                 FetchManifest(m, now)
          PROVE  UNCHANGED Chain!vars
      <3>1. /\ accepted' = accepted
            /\ \A k \in Source :
                  /\ retained[k] = None <=> retained'[k] = None
                  /\ retained[k] # None =>
                        /\ retained'[k].sequence = retained[k].sequence
                        /\ retained'[k].digest = retained[k].digest
        BY <2>1, FetchKeepsHeads DEF IInv
      <3> QED
        BY <3>1 DEF Chain!vars
    <2>2. ASSUME NEW s \in SnapshotDoc, NEW p \in Provider, NEW k \in Source,
                 NEW now \in Time, Refresh(s, p, k, now)
          PROVE  Chain!Next \/ UNCHANGED Chain!vars
      <3>1. PICK t \in BOOLEAN : Accept(s, now, t)
        BY <2>2, RefreshAccepts DEF IInv
      <3>2. SourceOf(s) \in Source
        BY SnapshotFields
      <3>3. CASE HeadOf' = HeadOf /\ LedgerOf' = LedgerOf
        BY <3>3 DEF Chain!vars, HeadOf, LedgerOf
      <3>4. CASE ~(HeadOf' = HeadOf /\ LedgerOf' = LedgerOf)
        <4>1. /\ HeadOf[SourceOf(s)] # None =>
                    /\ s.sequence > HeadOf[SourceOf(s)].sequence
                    /\ s.sequence = HeadOf[SourceOf(s)].sequence + 1
                           => LinkOf[s.digest] = HeadOf[SourceOf(s)].digest
              /\ HeadOf' = [HeadOf EXCEPT ![SourceOf(s)] =
                               [sequence |-> s.sequence, digest |-> s.digest]]
              /\ LedgerOf' = LedgerOf \cup
                                {<<SourceOf(s), s.sequence, s.digest>>}
          BY <3>1, <3>4, AcceptAdvances
        <4>2. Chain!Advance(SourceOf(s), s.sequence, s.digest)
          BY <4>1, Zenon DEF Chain!Advance, HeadOf, LedgerOf, LinkOf
        <4> QED
          BY <3>2, <4>2 DEF Chain!Next
      <3> QED
        BY <3>3, <3>4
    <2>3. CASE UNCHANGED vars
      BY <2>3 DEF vars, Chain!vars
    <2> QED
      BY <2>1, <2>2, <2>3 DEF Next
  <1> QED
    BY <1>1, <1>2, Inductive, PTL DEF Spec, ImplementsAcceptedChain, Chain!Spec
=============================================================================
