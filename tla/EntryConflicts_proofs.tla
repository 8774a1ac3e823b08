------------------------ MODULE EntryConflicts_proofs ------------------------
(***************************************************************************)
(* The conflict scan is exact for any number of snapshots, components and  *)
(* digests.  The inductive invariant says what the two collections the     *)
(* scan keeps mean for the entries seen so far: the conflicted components  *)
(* are those with two digests among them, and a component is bound to the  *)
(* digest of one of its entries as soon as one was seen.                   *)
(***************************************************************************)
EXTENDS EntryConflicts, TLAPS

(* The entries before the one the scan looks at.                           *)
SeenAt(a, b) == {p \in Position : p[1] < a \/ (p[1] = a /\ p[2] < b)}
Seen == SeenAt(i, j)

BindingsSeen ==
    \A c \in Component :
        IF bindings[c] = None
          THEN \A p \in Seen : EntryAt(p).component_id # c
          ELSE \E p \in Seen : /\ EntryAt(p).component_id = c
                               /\ EntryAt(p).digest = bindings[c]

ConflictedSeen == conflicted = {c \in Component : Disagree(Seen, c)}

VerdictFinal ==
    verdict \in {"NoConflict", "Conflicts"} =>
        /\ i > Len(held)
        /\ verdict = "NoConflict" <=> conflicted = {}

ScanInv == TypeOK /\ BindingsSeen /\ ConflictedSeen /\ VerdictFinal

(* A position is an index of a snapshot and one of its entries.            *)
LEMMA PositionFacts ==
    ASSUME TypeOK, NEW p \in Position
    PROVE  /\ p[1] \in 1 .. Len(held) /\ held[p[1]] \in VerifiedSnapshot
           /\ p[2] \in 1 .. Len(held[p[1]].entries)
           /\ p = <<p[1], p[2]>>
           /\ EntryAt(p) \in Entry
<1>1. PICK a \in DOMAIN held : p \in {a} \X DOMAIN held[a].entries
    BY DEF Position
<1>2. p[1] = a /\ p[2] \in DOMAIN held[a].entries /\ p = <<p[1], p[2]>>
    BY <1>1
<1>3. held \in Seq(VerifiedSnapshot)
    BY DEF TypeOK
<1>4. held[a] \in VerifiedSnapshot /\ a \in 1 .. Len(held)
    BY <1>1, <1>3
<1>5. held[a].entries \in Seq(Entry)
    BY <1>4 DEF VerifiedSnapshot
<1> QED
    BY <1>2, <1>4, <1>5 DEF EntryAt

LEMMA PositionHere ==
    ASSUME TypeOK, i <= Len(held), j <= Len(held[i].entries)
    PROVE  <<i, j>> \in Position /\ EntryAt(<<i, j>>) = held[i].entries[j]
<1>1. held \in Seq(VerifiedSnapshot) /\ i \in 1 .. Len(held)
    BY DEF TypeOK
<1>2. held[i].entries \in Seq(Entry)
    BY <1>1 DEF VerifiedSnapshot
<1>3. j \in DOMAIN held[i].entries
    BY <1>2 DEF TypeOK
<1> QED
    BY <1>1, <1>3 DEF Position, EntryAt

(* One more entry seen.                                                    *)
LEMMA SeenStep ==
    ASSUME TypeOK, i <= Len(held), j <= Len(held[i].entries)
    PROVE  SeenAt(i, j + 1) = Seen \cup {<<i, j>>}
<1>1. <<i, j>> \in Position
    BY PositionHere
<1>2. ASSUME NEW p \in Position
      PROVE  p \in SeenAt(i, j + 1) <=> p \in Seen \/ p = <<i, j>>
    BY <1>2, PositionFacts DEF SeenAt, Seen, TypeOK
<1> QED
    BY <1>1, <1>2 DEF SeenAt, Seen

(* Past the last entry of a set, the next set begins.                      *)
LEMMA SeenNextSet ==
    ASSUME TypeOK, i <= Len(held), j > Len(held[i].entries)
    PROVE  SeenAt(i + 1, 1) = Seen
<1>1. i \in Nat /\ j \in Nat
    BY DEF TypeOK
<1>2. Len(held[i].entries) \in Nat
    BY DEF TypeOK, VerifiedSnapshot
<1>3. ASSUME NEW p \in Position
      PROVE  p \in SeenAt(i + 1, 1) <=> p \in Seen
    BY <1>1, <1>2, <1>3, PositionFacts DEF SeenAt, Seen
<1> QED
    BY <1>3 DEF SeenAt, Seen

(* Past the last set, everything has been seen.                            *)
LEMMA SeenAll ==
    ASSUME TypeOK, i > Len(held)
    PROVE  Seen = Position
<1>1. i \in Nat /\ Len(held) \in Nat
    BY DEF TypeOK
<1> QED
    BY <1>1, PositionFacts DEF Seen, SeenAt

LEMMA ScanInit == Init => ScanInv
<1> SUFFICES ASSUME Init PROVE ScanInv
    OBVIOUS
<1>1. TypeOK
    BY ConflictsAssumption DEF Init, TypeOK, Verdict
<1>2. Seen = {}
    <2>1. i = 1 /\ j = 1
        BY DEF Init
    <2> QED
        BY <1>1, <2>1, PositionFacts DEF Seen, SeenAt
<1>3. BindingsSeen
    BY <1>2 DEF Init, BindingsSeen
<1>4. ConflictedSeen
    BY <1>2 DEF Init, ConflictedSeen, Disagree
<1>5. VerdictFinal
    BY DEF Init, VerdictFinal
<1> QED
    BY <1>1, <1>3, <1>4, <1>5 DEF ScanInv

LEMMA TypeStep == TypeOK /\ [Next]_vars => TypeOK'
<1> SUFFICES ASSUME TypeOK, [Next]_vars PROVE TypeOK'
    OBVIOUS
<1>1. CASE CompareProviders
    BY <1>1 DEF CompareProviders, TypeOK, Verdict, input
<1>2. CASE ScanEntry
    <2> DEFINE e == held[i].entries[j]
    <2>1. e \in Entry
        BY <1>2, PositionHere, PositionFacts DEF ScanEntry
    <2>2. e.component_id \in Component /\ e.digest \in Destination
        BY <2>1 DEF Entry
    <2>3. conflicted' \subseteq Component
          /\ bindings' \in [Component -> Destination \cup {None}]
        BY <1>2, <2>2 DEF ScanEntry, TypeOK
    <2> QED
        BY <1>2, <2>3 DEF ScanEntry, TypeOK, input
<1>3. CASE NextSet
    BY <1>3 DEF NextSet, TypeOK, input
<1>4. CASE Return
    BY <1>4 DEF Return, TypeOK, Verdict, input
<1>5. CASE UNCHANGED vars
    BY <1>5 DEF vars, input, TypeOK
<1> QED
    BY <1>1, <1>2, <1>3, <1>4, <1>5 DEF Next

(* What the scan remembers stays true of what it has seen.                 *)
LEMMA ScanEntryStep ==
    ASSUME ScanInv, ScanEntry
    PROVE  BindingsSeen' /\ ConflictedSeen'
<1> DEFINE e == held[i].entries[j]
           here == <<i, j>>
<1>1. /\ TypeOK /\ BindingsSeen /\ ConflictedSeen
      /\ i <= Len(held) /\ j <= Len(held[i].entries)
    BY DEF ScanInv, ScanEntry
<1>2. here \in Position /\ EntryAt(here) = e /\ e \in Entry
    BY <1>1, PositionHere, PositionFacts
<1>3. Seen' = Seen \cup {here}
    <2>1. held' = held /\ i' = i /\ j' = j + 1
        BY DEF ScanEntry, input
    <2>2. Seen' = SeenAt(i, j + 1)
        BY <2>1 DEF Seen, SeenAt, Position
    <2> QED
        BY <1>1, <2>2, SeenStep
<1>4. \A p : EntryAt(p)' = EntryAt(p)
    BY DEF ScanEntry, input, EntryAt
<1>5. e.component_id \in Component /\ e.digest \in Destination
    BY <1>2 DEF Entry
<1>6. e.digest # None /\ bindings \in [Component -> Destination \cup {None}]
    BY <1>1, <1>5, ConflictsAssumption DEF TypeOK
<1>7. \/ /\ conflicts(e)
         /\ conflicted' = conflicted \cup {e.component_id}
         /\ bindings' = bindings
      \/ /\ ~conflicts(e)
         /\ bindings' = [bindings EXCEPT ![e.component_id] = e.digest]
         /\ conflicted' = conflicted
    BY DEF ScanEntry
<1> HIDE DEF e, here
<1>8. BindingsSeen'
    <2> SUFFICES ASSUME NEW c \in Component
                 PROVE  IF bindings'[c] = None
                          THEN \A p \in Seen' : EntryAt(p).component_id # c
                          ELSE \E p \in Seen' :
                                  /\ EntryAt(p).component_id = c
                                  /\ EntryAt(p).digest = bindings'[c]
        BY <1>4 DEF BindingsSeen
    <2>1. CASE c # e.component_id
        <3>1. bindings'[c] = bindings[c]
            BY <1>6, <1>7, <2>1
        <3> QED
            BY <1>1, <1>2, <1>3, <2>1, <3>1 DEF BindingsSeen
    <2>2. CASE c = e.component_id /\ conflicts(e)
        BY <1>1, <1>3, <1>7, <2>2 DEF BindingsSeen, conflicts
    <2>3. CASE c = e.component_id /\ ~conflicts(e)
        <3>1. bindings'[c] = e.digest
            BY <1>6, <1>7, <2>3
        <3> QED
            BY <1>2, <1>3, <1>6, <2>3, <3>1
    <2> QED
        BY <2>1, <2>2, <2>3
<1>9. ASSUME NEW c \in Component, c # e.component_id
      PROVE  Disagree(Seen', c) <=> Disagree(Seen, c)
    BY <1>2, <1>3, <1>9 DEF Disagree
<1>10. ASSUME conflicts(e) PROVE Disagree(Seen', e.component_id)
    <2>1. PICK q \in Seen : /\ EntryAt(q).component_id = e.component_id
                            /\ EntryAt(q).digest = bindings[e.component_id]
        BY <1>1, <1>5, <1>10 DEF BindingsSeen, conflicts
    <2>2. EntryAt(q).digest # EntryAt(here).digest
        BY <1>2, <1>10, <2>1 DEF conflicts
    <2> QED
        BY <1>2, <1>3, <2>1, <2>2 DEF Disagree
<1>11. ASSUME ~conflicts(e)
       PROVE  Disagree(Seen', e.component_id) <=> Disagree(Seen, e.component_id)
    <2>1. CASE bindings[e.component_id] = None
        <3>1. \A p \in Seen : EntryAt(p).component_id # e.component_id
            BY <1>1, <1>5, <2>1 DEF BindingsSeen
        <3> QED
            BY <1>3, <3>1 DEF Disagree
    <2>2. CASE bindings[e.component_id] = e.digest
        <3>1. PICK w \in Seen : /\ EntryAt(w).component_id = e.component_id
                                /\ EntryAt(w).digest = e.digest
            BY <1>1, <1>5, <1>6, <2>2 DEF BindingsSeen
        <3>2. ASSUME NEW q \in Seen, EntryAt(q).component_id = e.component_id,
                     EntryAt(q).digest # e.digest
              PROVE  Disagree(Seen, e.component_id)
            BY <3>1, <3>2 DEF Disagree
        <3> QED
            BY <1>2, <1>3, <3>2 DEF Disagree
    <2> QED
        BY <1>11, <2>1, <2>2 DEF conflicts
<1>12. \A c : Disagree(Seen, c)' <=> Disagree(Seen', c)
    BY <1>4 DEF Disagree
<1>13. ConflictedSeen'
    <2>1. conflicted' = {c \in Component : Disagree(Seen', c)}
        BY <1>1, <1>5, <1>7, <1>9, <1>10, <1>11 DEF ConflictedSeen
    <2> QED
        BY <1>12, <2>1 DEF ConflictedSeen
<1> QED
    BY <1>8, <1>13

(* Steps that look at no entry change nothing of it.                       *)
LEMMA SeenKept ==
    ASSUME BindingsSeen, ConflictedSeen, held' = held, Seen' = Seen,
           bindings' = bindings, conflicted' = conflicted
    PROVE  BindingsSeen' /\ ConflictedSeen'
<1>1. \A p : EntryAt(p)' = EntryAt(p)
    BY DEF EntryAt
<1> QED
    BY <1>1 DEF BindingsSeen, ConflictedSeen, Disagree

LEMMA ScanStep == ScanInv /\ [Next]_vars => ScanInv'
<1> SUFFICES ASSUME ScanInv, [Next]_vars PROVE ScanInv'
    OBVIOUS
<1>0. TypeOK /\ BindingsSeen /\ ConflictedSeen /\ VerdictFinal /\ TypeOK'
    BY TypeStep DEF ScanInv
<1> SUFFICES BindingsSeen' /\ ConflictedSeen' /\ VerdictFinal'
    BY <1>0 DEF ScanInv
<1>k. ASSUME held' = held, i' = i, j' = j PROVE Seen' = Seen
    BY <1>k DEF Seen, SeenAt, Position
<1>1. CASE CompareProviders
    <2>1. BindingsSeen' /\ ConflictedSeen'
        BY <1>0, <1>1, <1>k, SeenKept DEF CompareProviders, input
    <2>2. VerdictFinal'
        BY <1>1 DEF CompareProviders, VerdictFinal
    <2> QED
        BY <2>1, <2>2
<1>2. CASE ScanEntry
    <2>1. BindingsSeen' /\ ConflictedSeen'
        BY <1>2, ScanEntryStep
    <2>2. VerdictFinal'
        BY <1>2 DEF ScanEntry, VerdictFinal
    <2> QED
        BY <2>1, <2>2
<1>3. CASE NextSet
    <2>1. held' = held /\ i' = i + 1 /\ j' = 1
        BY <1>3 DEF NextSet, input
    <2>2. Seen' = SeenAt(i + 1, 1)
        BY <2>1 DEF Seen, SeenAt, Position
    <2>3. Seen' = Seen
        BY <1>0, <1>3, <2>2, SeenNextSet DEF NextSet
    <2>4. BindingsSeen' /\ ConflictedSeen'
        BY <1>0, <1>3, <2>1, <2>3, SeenKept DEF NextSet
    <2>5. VerdictFinal'
        BY <1>3 DEF NextSet, VerdictFinal
    <2> QED
        BY <2>4, <2>5
<1>4. CASE Return
    <2>1. BindingsSeen' /\ ConflictedSeen'
        BY <1>0, <1>4, <1>k, SeenKept DEF Return, input
    <2>2. VerdictFinal'
        BY <1>4 DEF Return, VerdictFinal, input
    <2> QED
        BY <2>1, <2>2
<1>5. CASE UNCHANGED vars
    <2>1. BindingsSeen' /\ ConflictedSeen'
        BY <1>0, <1>5, <1>k, SeenKept DEF vars, input
    <2>2. VerdictFinal'
        BY <1>0, <1>5 DEF vars, input, VerdictFinal
    <2> QED
        BY <2>1, <2>2
<1> QED
    BY <1>1, <1>2, <1>3, <1>4, <1>5 DEF Next

-----------------------------------------------------------------------------

(* The scan's indices and collections keep their types.                    *)
THEOREM ScanTypeCorrect == Spec => []TypeOK
<1>1. Init => TypeOK
    BY ScanInit DEF ScanInv
<1> QED
    BY <1>1, TypeStep, PTL DEF Spec

LEMMA InvariantExact == ScanInv => ConflictsExact
<1> SUFFICES ASSUME ScanInv, verdict \in {"NoConflict", "Conflicts"}
             PROVE  conflicted = {c \in Component : Disagree(Position, c)}
    BY DEF ConflictsExact
<1>1. Seen = Position
    BY SeenAll DEF ScanInv, VerdictFinal
<1> QED
    BY <1>1 DEF ScanInv, ConflictedSeen

(* Remembering the first digest of each component is enough to find every  *)
(* conflict and no other, for any number of bindings in any order.         *)
THEOREM ScanIsExact == Spec => []ConflictsExact
BY ScanInit, ScanStep, InvariantExact, PTL DEF Spec

(* Without a conflict the same bytes are judged alike whichever entry led  *)
(* to them.                                                                *)
THEOREM UniformWithoutConflict == Spec => []NoConflictIsUniform
<1>1. ScanInv => NoConflictIsUniform
    <2> SUFFICES ASSUME ScanInv, verdict = "NoConflict",
                        NEW p \in Position, NEW q \in Position,
                        EntryAt(p).component_id = EntryAt(q).component_id
                 PROVE  EntryAt(p).digest = EntryAt(q).digest
        BY DEF NoConflictIsUniform
    <2>1. {c \in Component : Disagree(Position, c)} = {}
        BY InvariantExact DEF ScanInv, VerdictFinal, ConflictsExact
    <2>2. EntryAt(p).component_id \in Component
        BY PositionFacts DEF ScanInv, Entry
    <2> QED
        BY <2>1, <2>2 DEF Disagree
<1> QED
    BY <1>1, ScanInit, ScanStep, PTL DEF Spec
(* What the comparison of the providers decided is kept by the scan.       *)
ProviderVerdict ==
    check = "catalogs" /\ verdict # "called" =>
        (verdict = "DifferentProviders" <=> ~one_provider)

LEMMA ProviderStep ==
    ProviderVerdict /\ [Next]_vars => ProviderVerdict'
<1> SUFFICES ASSUME ProviderVerdict, [Next]_vars PROVE ProviderVerdict'
    OBVIOUS
<1>1. one_provider' <=> one_provider
    BY DEF Next, CompareProviders, ScanEntry, NextSet, Return, vars, input,
           one_provider
<1>2. check' = check
    BY DEF Next, CompareProviders, ScanEntry, NextSet, Return, vars, input
<1>3. CASE CompareProviders
    BY <1>1, <1>3 DEF CompareProviders, ProviderVerdict
<1>4. CASE ScanEntry \/ NextSet \/ UNCHANGED vars
    BY <1>1, <1>2, <1>4 DEF ScanEntry, NextSet, vars, ProviderVerdict
<1>5. CASE Return
    BY <1>1, <1>2, <1>5 DEF Return, ProviderVerdict
<1> QED
    BY <1>3, <1>4, <1>5 DEF Next

(* Snapshots of several providers are never reported as one provider's     *)
(* equivocation, nor one provider's as several.                            *)
THEOREM SpanOfProvidersIsReported == Spec => []ProvidersToldApart
<1>1. Init => ProviderVerdict
    BY DEF Init, ProviderVerdict
<1>2. TypeOK /\ ProviderVerdict => ProvidersToldApart
    <2> SUFFICES ASSUME TypeOK, ProviderVerdict,
                        check = "catalogs", verdict \in Verdict
                 PROVE  verdict = "DifferentProviders"
                            <=> \E a, b \in DOMAIN held :
                                    held[a].provider_id # held[b].provider_id
        BY DEF ProvidersToldApart
    <2>1. ASSUME NEW a \in DOMAIN held PROVE 1 \in DOMAIN held
        BY <2>1 DEF TypeOK
    <2>2. ~one_provider <=> \E a, b \in DOMAIN held :
                                held[a].provider_id # held[b].provider_id
        BY <2>1 DEF one_provider
    <2> QED
        BY <2>2 DEF ProviderVerdict, Verdict
<1> QED
    BY <1>1, <1>2, ProviderStep, ScanTypeCorrect, PTL DEF Spec
=============================================================================
