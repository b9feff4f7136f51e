------------------------ MODULE PromptRegistryProofs ------------------------
(***************************************************************************)
(* Proofs about PromptRegistry for any number of publications that overlap *)
(* and any number of versions.                                             *)
(***************************************************************************)
EXTENDS PromptRegistry, FiniteSetTheorems, TLAPS

\* A publication that does not activate its version deactivates none.
QuietPublications ==
    \A p \in Publishers :
        publications[p] # Idle /\ ~publications[p].activate => publications[p].seen = {}

\* Turns have used no newer version than the last activated one, and a lookup that
\* found no template follows turns that found none either.
UsedWasActivated ==
    /\ \A i \in active : i <= activated
    /\ used <= activated
    /\ ~template => activated = 0
    /\ lookup = "fallback" => used = 0

IInv == TypeOK /\ QuietPublications /\ NewestActivatedIsActive /\ UsedWasActivated

-----------------------------------------------------------------------------
\* get_active_version finds at most one version only if there is only one.
LEMMA SoleActive ==
    ASSUME TypeOK, Cardinality(active) <= 1, NEW i \in active, NEW k \in active
    PROVE  i = k
<1>1. IsFiniteSet(active)
  <2>1. IsFiniteSet(1..versions)
    BY FS_Interval DEF TypeOK
  <2> QED
    BY <2>1, FS_Subset DEF TypeOK
<1>2. Cardinality(active) \in Nat
  BY <1>1, FS_CardinalityType
<1>3. Cardinality(active) # 0
  BY <1>1, FS_EmptySet
<1>4. Cardinality(active) = 1
  BY <1>2, <1>3
<1> QED
  BY <1>1, <1>4, FS_Singleton

-----------------------------------------------------------------------------
(* The publications                                                         *)

\* The steps before the commit, and a failure, change neither versions nor turns.
Prepares(p) ==
    \/ PublishReads(p) \/ CreatesTemplate(p) \/ TemplateConflict(p)
    \/ Deactivates(p) \/ PublishFails(p)

LEMMA PreparePreserves ==
    ASSUME IInv, NEW p \in Publishers, Prepares(p)
    PROVE  IInv' /\ UNCHANGED <<registry, reader>>
<1> USE DEF IInv
<1>1. UNCHANGED <<registry, reader>>
  BY DEF Prepares, PublishReads, CreatesTemplate, TemplateConflict, Deactivates, PublishFails
<1>2. publications' \in [Publishers -> {Idle} \union Publications] /\ QuietPublications'
  <2>1. CASE PublishReads(p)
    BY <2>1 DEF PublishReads, TypeOK, Publications, QuietPublications
  <2>2. CASE TemplateConflict(p) \/ PublishFails(p)
    BY <2>2 DEF TemplateConflict, PublishFails, EndPublication, TypeOK, Publications,
       QuietPublications
  <2>3. CASE CreatesTemplate(p)
    BY <2>3 DEF CreatesTemplate, At, TypeOK, Publications, QuietPublications
  <2>4. CASE Deactivates(p)
    BY <2>4 DEF Deactivates, At, TypeOK, Publications, QuietPublications
  <2> QED
    BY <2>1, <2>2, <2>3, <2>4 DEF Prepares
<1>3. TypeOK'
  BY <1>1, <1>2 DEF TypeOK, Publications, registry, reader
<1> QED
  BY <1>1, <1>2, <1>3 DEF NewestActivatedIsActive, UsedWasActivated, registry, reader

\* The commit takes no version from the active ones but those older than its own, and
\* none unless it activates that.
LEMMA CommitPreserves ==
    ASSUME IInv, NEW p \in Publishers, PublishCommits(p)
    PROVE  IInv' /\ UNCHANGED reader
<1> USE DEF IInv
<1> DEFINE pub == publications[p]
<1>1. pub # Idle /\ pub \in Publications
  BY DEF PublishCommits, At, TypeOK
<1>2. pub.activate \in BOOLEAN /\ pub.seen \subseteq 1..versions
  BY <1>1 DEF Publications
<1>3. UNCHANGED reader
  BY DEF PublishCommits
<1>4. /\ versions' = versions + 1 /\ template' = TRUE
      /\ active' = (active \ pub.seen) \union (IF pub.activate THEN {versions'} ELSE {})
      /\ activated' = IF pub.activate THEN versions' ELSE activated
  BY DEF PublishCommits
<1>5. /\ versions \in Nat /\ active \subseteq 1..versions
      /\ activated \in 0..versions /\ used \in 0..versions
  BY DEF TypeOK
<1>6. publications' = [publications EXCEPT ![p] = Idle]
  BY DEF PublishCommits, EndPublication
<1>7. ~pub.activate => pub.seen = {}
  BY <1>1 DEF QuietPublications
<1> HIDE DEF pub
<1>8. \A q \in Publishers : publications'[q] \in {Idle, publications[q]}
  BY <1>6 DEF TypeOK
<1>9. TypeOK'
  <2>1. active' \subseteq 1..versions' /\ activated' \in 0..versions'
    <3>1. 1..versions \subseteq 1..versions' /\ versions' \in 1..versions'
      BY <1>4, <1>5
    <3>2. active' \subseteq active \union {versions'}
      BY <1>2, <1>4
    <3>3. activated' \in 0..versions'
      BY <1>2, <1>4, <1>5
    <3> QED
      BY <1>5, <3>1, <3>2, <3>3, Zenon
  <2>2. Publications \subseteq Publications'
    <3>1. SUBSET (1..versions) \subseteq SUBSET (1..versions')
      BY <1>4, <1>5
    <3>2. \A q \in Publications : q \in Publications'
      BY <3>1 DEF Publications
    <3> QED
      BY <3>2
  <2>3. publications' \in [Publishers -> {Idle} \union Publications']
    BY <1>6, <2>2 DEF TypeOK
  <2> QED
    BY <1>3, <1>4, <1>5, <2>1, <2>3 DEF TypeOK, reader
<1>10. QuietPublications'
  BY <1>8 DEF QuietPublications
<1>11. NewestActivatedIsActive'
  BY <1>4, <1>5, <1>7 DEF NewestActivatedIsActive
<1>12. UsedWasActivated'
  BY <1>3, <1>4, <1>5, <1>7 DEF UsedWasActivated, reader
<1> QED
  BY <1>3, <1>9, <1>10, <1>11, <1>12

-----------------------------------------------------------------------------
(* The lookups                                                              *)

LEMMA LookupPreserves ==
    ASSUME IInv, Lookup
    PROVE  IInv' /\ used' >= used
<1> USE DEF IInv
<1>1. UNCHANGED <<registry, publications>>
  BY DEF Lookup, LookupTemplate, LookupVersion, LookupFallsBack, LookupRaises
<1>2. /\ versions \in Nat /\ active \subseteq 1..versions
      /\ activated \in 0..versions /\ used \in 0..versions
  BY DEF TypeOK
<1>3. /\ used' >= used /\ used' \in 0..versions /\ used' <= activated
      /\ lookup' \in {"none", "template", "fallback"}
      /\ lookup' = "fallback" => used' = 0
  <2>1. CASE LookupTemplate
    BY <1>2, <2>1 DEF LookupTemplate, UsedWasActivated
  <2>2. CASE LookupVersion
    <3>1. CASE active = {}
      BY <1>2, <2>2, <3>1 DEF LookupVersion, UsedWasActivated, NewestActivatedIsActive
    <3>2. CASE active # {}
      <4>1. used' \in active /\ lookup' = "none"
        BY <2>2, <3>2 DEF LookupVersion
      <4>2. activated # 0
        BY <1>2, <4>1 DEF UsedWasActivated
      <4>3. used' = activated
        BY <2>2, <4>1, <4>2, SoleActive DEF LookupVersion, NewestActivatedIsActive
      <4> QED
        BY <1>2, <4>1, <4>3 DEF UsedWasActivated
    <3> QED
      BY <3>1, <3>2
  <2>3. CASE LookupFallsBack
    BY <1>2, <2>3 DEF LookupFallsBack, UsedWasActivated
  <2>4. CASE LookupRaises
    BY <1>2, <2>4 DEF LookupRaises, UsedWasActivated
  <2> QED
    BY <2>1, <2>2, <2>3, <2>4 DEF Lookup
<1>4. TypeOK'
  BY <1>1, <1>3 DEF TypeOK, Publications, registry
<1>5. UsedWasActivated'
  BY <1>1, <1>3 DEF UsedWasActivated, registry
<1> QED
  BY <1>1, <1>3, <1>4, <1>5 DEF QuietPublications, NewestActivatedIsActive, registry

-----------------------------------------------------------------------------
(* The theorems                                                             *)

LEMMA InitInvariant == Init => IInv
<1> SUFFICES ASSUME Init PROVE IInv
  OBVIOUS
<1>1. TypeOK
  <2>1. publications \in [Publishers -> {Idle} \union Publications]
    BY DEF Init
  <2>2. active \subseteq 1..versions
    BY DEF Init
  <2>3. template \in BOOLEAN
    BY Zenon DEF Init
  <2>4. versions \in Nat /\ activated \in 0..versions /\ used \in 0..versions
    BY DEF Init
  <2>5. lookup \in {"none", "template", "fallback"}
    BY DEF Init
  <2> QED
    BY <2>1, <2>2, <2>3, <2>4, <2>5, Zenon DEF TypeOK
<1>2. QuietPublications /\ NewestActivatedIsActive /\ UsedWasActivated
  BY DEF Init, QuietPublications, NewestActivatedIsActive, UsedWasActivated
<1> QED
  BY <1>1, <1>2 DEF IInv

LEMMA StepInvariant == IInv /\ [Next]_vars => IInv' /\ (used' >= used \/ UNCHANGED vars)
<1> SUFFICES ASSUME IInv, [Next]_vars
             PROVE  IInv' /\ (used' >= used \/ UNCHANGED vars)
  OBVIOUS
<1>1. CASE Lookup
  BY <1>1, LookupPreserves
<1>2. ASSUME NEW p \in Publishers, Publication(p)
      PROVE  IInv' /\ used' >= used
  <2>1. IInv' /\ UNCHANGED reader
    BY <1>2, PreparePreserves, CommitPreserves DEF Publication, Prepares
  <2>2. used \in Nat
    BY DEF IInv, TypeOK
  <2> QED
    BY <2>1, <2>2 DEF reader
<1>3. CASE UNCHANGED vars
  BY <1>3 DEF vars, registry, reader, IInv, TypeOK, Publications, QuietPublications,
     NewestActivatedIsActive, UsedWasActivated
<1> QED
  BY <1>1, <1>2, <1>3 DEF Next

LEMMA Invariance == Spec => []IInv
BY InitInvariant, StepInvariant, PTL DEF Spec

\* Every variable keeps its type.
THEOREM TypeCorrect == Spec => []TypeOK
BY Invariance, PTL DEF IInv

\* However many publications overlap, fail or wait for one another, the version
\* activated last is active.
THEOREM NewestStaysActive == Spec => []NewestActivatedIsActive
BY Invariance, PTL DEF IInv

\* The turns of the agent use ever newer versions, and no fallback after a version.
THEOREM TurnsGoForward == Spec => PromptsNeverGoBack
<1>1. IInv /\ [Next]_vars => [used' >= used]_vars
  BY StepInvariant
<1> QED
  BY <1>1, Invariance, PTL DEF Spec, PromptsNeverGoBack

-----------------------------------------------------------------------------
(* Activations that do not overlap                                          *)

\* No two publications are between the deactivation of the old version and their commit.
ActivationsApart ==
    \A p, q \in Publishers : At(p, "deactivated") /\ At(q, "deactivated") => p = q

\* A publication that is about to commit deactivates whatever is active.
SeesAll == \A p \in Publishers : At(p, "deactivated") => active \subseteq publications[p].seen

OneActive == \A i, k \in active : i = k

LEMMA SoleStep ==
    ASSUME ActivationsApart, IInv, SeesAll, OneActive, [Next]_vars
    PROVE  SeesAll' /\ OneActive'
<1> USE DEF IInv
<1>1. CASE Lookup
  <2>1. UNCHANGED <<registry, publications>>
    BY <1>1 DEF Lookup, LookupTemplate, LookupVersion, LookupFallsBack, LookupRaises
  <2> QED
    BY <2>1 DEF SeesAll, At, OneActive, registry
<1>2. ASSUME NEW p \in Publishers, Prepares(p)
      PROVE  SeesAll' /\ OneActive'
  <2>1. UNCHANGED registry
    BY <1>2, PreparePreserves
  <2>2. CASE PublishReads(p)
    BY <2>1, <2>2 DEF PublishReads, TypeOK, SeesAll, At, OneActive, registry
  <2>3. CASE TemplateConflict(p) \/ PublishFails(p)
    BY <2>1, <2>3 DEF TemplateConflict, PublishFails, EndPublication, TypeOK, SeesAll,
       At, OneActive, registry
  <2>4. CASE CreatesTemplate(p)
    BY <2>1, <2>4 DEF CreatesTemplate, At, TypeOK, Publications, SeesAll, OneActive, registry
  <2>5. CASE Deactivates(p)
    <3>1. publications' = [publications EXCEPT ![p].step = "deactivated",
                                               ![p].seen = 1..versions]
      BY <2>5 DEF Deactivates
    <3>2. publications[p] \in Publications
      BY <2>5 DEF Deactivates, At, TypeOK
    <3>3. publications'[p].seen = 1..versions
      BY <3>1, <3>2 DEF Publications, TypeOK
    <3>4. \A q \in Publishers : q # p => publications'[q] = publications[q]
      BY <3>1 DEF TypeOK
    <3>5. active \subseteq 1..versions
      BY DEF TypeOK
    <3> QED
      BY <2>1, <3>3, <3>4, <3>5 DEF SeesAll, At, OneActive, registry
  <2> QED
    BY <1>2, <2>2, <2>3, <2>4, <2>5 DEF Prepares
<1>3. ASSUME NEW p \in Publishers, PublishCommits(p)
      PROVE  SeesAll' /\ OneActive'
  <2>1. \A q \in Publishers : publications'[q] = IF q = p THEN Idle ELSE publications[q]
    BY <1>3 DEF PublishCommits, EndPublication, TypeOK
  <2>2. active' = (active \ publications[p].seen)
                    \union (IF publications[p].activate THEN {versions'} ELSE {})
    BY <1>3 DEF PublishCommits
  <2>3. CASE ~publications[p].activate
    <3>1. active' \subseteq active
      BY <2>2, <2>3
    <3> QED
      BY <2>1, <3>1 DEF SeesAll, At, OneActive
  <2>4. CASE publications[p].activate
    <3>1. At(p, "deactivated") /\ active \subseteq publications[p].seen
      BY <1>3, <2>4 DEF PublishCommits, SeesAll
    <3>2. active' = {versions'}
      BY <2>2, <2>4, <3>1
    <3>3. \A q \in Publishers : q # p => ~At(q, "deactivated")
      BY <3>1 DEF ActivationsApart
    <3> QED
      BY <2>1, <3>2, <3>3 DEF SeesAll, At, OneActive
  <2> QED
    BY <2>3, <2>4
<1>4. CASE UNCHANGED vars
  BY <1>4 DEF vars, registry, SeesAll, At, OneActive
<1> QED
  BY <1>1, <1>2, <1>3, <1>4 DEF Next, Publication, Prepares

\* As long as no two activations overlap, there is never more than one active version:
\* it takes two administrators to make every turn of the agent fail.
THEOREM ApartActivationsAreSafe == Spec /\ []ActivationsApart => []AtMostOneActive
<1>1. Init => SeesAll /\ OneActive
  BY DEF Init, SeesAll, At, OneActive
<1>2. ActivationsApart /\ IInv /\ SeesAll /\ OneActive /\ [Next]_vars => SeesAll' /\ OneActive'
  BY SoleStep
<1>3. IInv /\ OneActive => AtMostOneActive
  <2> SUFFICES ASSUME IInv, OneActive PROVE Cardinality(active) <= 1
    BY DEF AtMostOneActive
  <2>1. CASE active = {}
    BY <2>1, FS_EmptySet
  <2>2. ASSUME NEW i \in active PROVE Cardinality(active) <= 1
    <3>1. active = {i}
      BY <2>2 DEF OneActive
    <3>2. Cardinality({i}) = 1
      BY FS_Singleton, Zenon
    <3> QED
      BY <3>1, <3>2
  <2> QED
    BY <2>1, <2>2
<1> QED
  BY <1>1, <1>2, <1>3, Invariance, PTL DEF Spec
=============================================================================
