------------------------- MODULE BuyerProfileProofs -------------------------
(***************************************************************************)
(* Proofs about BuyerProfile, for every set of leads, turns and patches    *)
(* and every threshold.  Turns of one lead that follow one another, beside *)
(* whatever turns of other leads, lose no answer, announce a completion    *)
(* once and keep the budget a range.  A turn that overlaps another of the  *)
(* same lead may write its copy over the other's answers: only the types   *)
(* are proved of every behaviour.                                          *)
(***************************************************************************)
EXTENDS BuyerProfile, FiniteSetTheorems, TLAPS

-----------------------------------------------------------------------------
(* Rows                                                                     *)

LEMMA CapturedIsFinite ==
    ASSUME NEW r
    PROVE  IsFiniteSet(Captured(r))
<1> DEFINE D == {"budget", "budget_min", "budget_max", "locations", "must_haves",
                 "property_type", "timeline"}
<1>1. IsFiniteSet(D)
  <2>1. IsFiniteSet({})
    BY FS_EmptySet
  <2>2. \A S, x : IsFiniteSet(S) => IsFiniteSet(S \union {x})
    BY FS_AddElement
  <2>3. IsFiniteSet({} \union {"budget"} \union {"budget_min"} \union {"budget_max"}
                       \union {"locations"} \union {"must_haves"}
                       \union {"property_type"} \union {"timeline"})
    <3> HIDE DEF D
    <3>1. IsFiniteSet({} \union {"budget"} \union {"budget_min"} \union {"budget_max"})
      BY <2>1, <2>2, Zenon
    <3>2. IsFiniteSet({} \union {"budget"} \union {"budget_min"} \union {"budget_max"}
                         \union {"locations"} \union {"must_haves"})
      BY <3>1, <2>2, Zenon
    <3> QED
      BY <3>2, <2>2, Zenon
  <2>4. D = {} \union {"budget"} \union {"budget_min"} \union {"budget_max"}
               \union {"locations"} \union {"must_haves"}
               \union {"property_type"} \union {"timeline"}
    OBVIOUS
  <2> QED
    BY <2>3, <2>4
<1>2. Captured(r) \subseteq D
  BY DEF Captured, Columns, Budget, Lists
<1> QED
  BY <1>1, <1>2, FS_Subset

\* A row with more answers is complete if the other is.
LEMMA MoreAnswers ==
    ASSUME NEW r, NEW s,
           \A c \in Columns : r[c] # None => s[c] # None,
           Complete(r)
    PROVE  Complete(s)
<1>1. Captured(r) \subseteq Captured(s)
  BY DEF Captured, Columns, Budget
<1>2. IsFiniteSet(Captured(r)) /\ IsFiniteSet(Captured(s))
  BY CapturedIsFinite
<1>3. Cardinality(Captured(r)) <= Cardinality(Captured(s))
  BY <1>1, <1>2, FS_Subset
<1>4. Cardinality(Captured(r)) \in Nat /\ Cardinality(Captured(s)) \in Nat
  BY <1>2, FS_CardinalityType
<1>5. Completeness(r) <= Completeness(s)
  BY <1>3, <1>4 DEF Completeness
<1>6. Completeness(r) \in Int /\ Completeness(s) \in Int /\ Threshold \in Int
  BY <1>4, ProfileBoundsAssumption DEF Completeness
<1> QED
  BY <1>5, <1>6 DEF Complete

LEMMA AppliedIsRow ==
    ASSUME NEW old, IsRow(old), NEW q \in Patches
    PROVE  IsRow(Apply(old, q))
BY DEF IsRow, Apply, ColumnValues

LEMMA SavedIsRow ==
    ASSUME NEW current, IsRow(current), NEW old, NEW new, IsRow(new)
    PROVE  IsRow(Save(current, old, new))
BY DEF IsRow, Save

\* A patch clears nothing.
LEMMA ApplyKeepsAnswers ==
    ASSUME NEW old, NEW q \in Patches, NEW c \in Columns, old[c] # None
    PROVE  Apply(old, q)[c] # None
<1>1. c \in DOMAIN q => q[c] # None
  BY PatchesAssumption DEF IsPatch
<1> QED
  BY <1>1 DEF Apply

-----------------------------------------------------------------------------
(* Every behaviour                                                          *)

LEMMA InitHolds == ProfileInit => ProfileTypeOK
<1>1. IsRow(EmptyRow)
  BY DEF IsRow, EmptyRow, ColumnValues
<1> QED
  BY <1>1, ProfileBoundsAssumption DEF ProfileInit, ProfileTypeOK

LEMMA ReadKeeps ==
    ASSUME ProfileTypeOK, NEW t \in Turns, NEW l \in Leads, NEW q \in Patches,
           CaptureReads(t, l, q)
    PROVE  ProfileTypeOK'
<1> USE DEF CaptureReads
<1> DEFINE r == [lead |-> l, loaded |-> profiles[l], patch |-> q, seen |-> Idle]
<1>1. \A u \in Turns : captures'[u] = IF u = t THEN r ELSE captures[u]
  BY DEF ProfileTypeOK
<1>2. DOMAIN profiles' = Leads /\ DOMAIN captures' = Turns
      /\ (\A m \in Leads : IsRow(profiles'[m])) /\ completions' \in Seq(Leads)
  BY DEF ProfileTypeOK
<1>3. taken' \in 0..MaxCaptures
  BY ProfileBoundsAssumption DEF ProfileTypeOK
<1>4. ASSUME NEW u \in Turns, captures'[u] # Idle
      PROVE  /\ DOMAIN captures'[u] = {"lead", "loaded", "patch", "seen"}
             /\ captures'[u].lead \in Leads /\ captures'[u].patch \in Patches
             /\ IsRow(captures'[u].loaded)
             /\ captures'[u].seen # Idle => IsRow(captures'[u].seen)
  BY <1>1, <1>4 DEF ProfileTypeOK
<1> QED
  BY <1>2, <1>3, <1>4 DEF ProfileTypeOK, IsRow, ColumnValues

LEMMA SaveKeeps ==
    ASSUME ProfileTypeOK, NEW t \in Turns, CaptureSaves(t)
    PROVE  ProfileTypeOK'
<1> DEFINE r == IF captures[t].loaded = EmptyRow THEN EmptyRow ELSE profiles[captures[t].lead]
<1>1. captures[t] # Idle /\ captures[t].lead \in Leads
  BY DEF CaptureSaves, ProfileTypeOK
<1>2. IsRow(r)
  BY <1>1 DEF ProfileTypeOK, IsRow, EmptyRow, ColumnValues
<1>3. \A u \in Turns :
          captures'[u] = IF u = t THEN [captures[t] EXCEPT !.seen = r] ELSE captures[u]
  BY DEF CaptureSaves, ProfileTypeOK
<1>4. ASSUME NEW u \in Turns, captures'[u] # Idle
      PROVE  /\ DOMAIN captures'[u] = {"lead", "loaded", "patch", "seen"}
             /\ captures'[u].lead \in Leads /\ captures'[u].patch \in Patches
             /\ IsRow(captures'[u].loaded)
             /\ captures'[u].seen # Idle => IsRow(captures'[u].seen)
  <2> HIDE DEF r
  <2>1. CASE u # t
    BY <1>3, <1>4, <2>1 DEF ProfileTypeOK
  <2>2. CASE u = t
    <3>1. /\ captures'[u].lead = captures[t].lead
          /\ captures'[u].patch = captures[t].patch
          /\ captures'[u].loaded = captures[t].loaded
          /\ captures'[u].seen = r
          /\ DOMAIN captures'[u] = DOMAIN captures[t]
      BY <1>1, <1>3, <2>2 DEF ProfileTypeOK
    <3> QED
      BY <3>1, <1>1, <1>2 DEF ProfileTypeOK
  <2> QED
    BY <2>1, <2>2
<1> QED
  BY <1>4 DEF CaptureSaves, ProfileTypeOK, IsRow, ColumnValues

LEMMA CommitKeeps ==
    ASSUME ProfileTypeOK, NEW t \in Turns, CaptureCommits(t)
    PROVE  ProfileTypeOK'
<1> DEFINE l == captures[t].lead
           old == captures[t].loaded
           q == captures[t].patch
           saved == Save(profiles[l], captures[t].seen, Apply(old, q))
<1>1. captures[t] # Idle /\ l \in Leads /\ q \in Patches /\ IsRow(old) /\ IsRow(profiles[l])
  BY DEF CaptureCommits, ProfileTypeOK
<1>2. profiles' = [profiles EXCEPT ![l] = saved]
      /\ completions' \in {completions, Append(completions, l)}
      /\ captures' = [captures EXCEPT ![t] = Idle]
      /\ taken' = taken
  BY DEF CaptureCommits
<1>3. IsRow(saved)
  BY <1>1, AppliedIsRow, SavedIsRow
<1>4. \A m \in Leads : IsRow(profiles'[m])
  BY <1>2, <1>3 DEF ProfileTypeOK
<1>5. \A u \in Turns : captures'[u] = IF u = t THEN Idle ELSE captures[u]
  BY <1>2 DEF ProfileTypeOK
<1>6. \A u \in Turns : captures'[u] # Idle =>
        /\ DOMAIN captures'[u] = {"lead", "loaded", "patch", "seen"}
        /\ captures'[u].lead \in Leads /\ captures'[u].patch \in Patches
        /\ IsRow(captures'[u].loaded)
        /\ captures'[u].seen # Idle => IsRow(captures'[u].seen)
  BY <1>5 DEF ProfileTypeOK
<1>7. completions' \in Seq(Leads)
  BY <1>1, <1>2 DEF ProfileTypeOK
<1>8. DOMAIN profiles' = Leads /\ DOMAIN captures' = Turns /\ taken' \in 0..MaxCaptures
  BY <1>2 DEF ProfileTypeOK
<1> QED
  BY <1>4, <1>6, <1>7, <1>8 DEF ProfileTypeOK, IsRow, ColumnValues

LEMMA RollbackKeeps ==
    ASSUME ProfileTypeOK, NEW t \in Turns, CaptureRollsBack(t)
    PROVE  ProfileTypeOK'
<1>1. \A u \in Turns : captures'[u] = IF u = t THEN Idle ELSE captures[u]
  BY DEF CaptureRollsBack, ProfileTypeOK
<1> QED
  BY <1>1 DEF CaptureRollsBack, ProfileTypeOK, IsRow, ColumnValues

LEMMA StepHolds == ProfileTypeOK /\ [ProfileNext]_profileVars => ProfileTypeOK'
<1> SUFFICES ASSUME ProfileTypeOK, [ProfileNext]_profileVars PROVE ProfileTypeOK'
  OBVIOUS
<1>1. CASE UNCHANGED profileVars
  BY <1>1 DEF profileVars, ProfileTypeOK, IsRow, ColumnValues
<1>2. CASE ProfileNext
  <2> SUFFICES ASSUME NEW t \in Turns,
                      \/ \E l \in Leads, q \in Patches : CaptureReads(t, l, q)
                      \/ CaptureSaves(t)
                      \/ CaptureCommits(t)
                      \/ CaptureRollsBack(t)
               PROVE  ProfileTypeOK'
    BY <1>2 DEF ProfileNext
  <2> QED
    BY ReadKeeps, SaveKeeps, CommitKeeps, RollbackKeeps
<1> QED
  BY <1>1, <1>2

\* Type correctness.
THEOREM TypeCorrect == ProfileSpec => []ProfileTypeOK
BY InitHolds, StepHolds, PTL DEF ProfileSpec

-----------------------------------------------------------------------------
(* Turns of one lead that follow one another, whatever turns of others do    *)

TurnsApart ==
    \A s, t \in Turns :
        /\ captures[s] # Idle /\ captures[t] # Idle
        /\ captures[s].lead = captures[t].lead
        => s = t

\* Nothing changes the row under the turn that has loaded it, before or after the turn
\* reads it again.
LoadedIsCurrent ==
    \A t \in Turns : captures[t] # Idle =>
        /\ captures[t].loaded = profiles[captures[t].lead]
        /\ captures[t].seen # Idle => captures[t].seen = profiles[captures[t].lead]

ApartInv == ProfileTypeOK /\ LoadedIsCurrent /\ CompletionToldOnce /\ BudgetStaysARange

\* Whoever has been announced is complete.
AnnouncedAreComplete == \A d \in DOMAIN completions : Complete(profiles[completions[d]])

Told(l, s) == {d \in DOMAIN s : s[d] = l}

LEMMA ToldIsFinite ==
    ASSUME NEW s \in Seq(Leads), NEW l \in Leads
    PROVE  IsFiniteSet(Told(l, s)) /\ Cardinality(Told(l, s)) \in Nat
<1>1. Told(l, s) \subseteq 1..Len(s) /\ Len(s) \in Nat
  BY DEF Told
<1>2. IsFiniteSet(1..Len(s))
  BY <1>1, FS_Interval
<1> QED
  BY <1>1, <1>2, FS_Subset, FS_CardinalityType

\* One more event of a lead is counted for that lead only.
LEMMA ToldAppended ==
    ASSUME NEW s \in Seq(Leads), NEW l \in Leads, NEW m \in Leads
    PROVE  Cardinality(Told(m, Append(s, l)))
             = IF m = l THEN Cardinality(Told(m, s)) + 1 ELSE Cardinality(Told(m, s))
<1>1. CASE m = l
  <2>1. Told(m, Append(s, l)) = Told(m, s) \union {Len(s) + 1}
    BY <1>1 DEF Told
  <2>2. Len(s) + 1 \notin Told(m, s)
    BY DEF Told
  <2>3. PICK T : T = Told(m, s) /\ IsFiniteSet(T)
    BY ToldIsFinite
  <2>4. Cardinality(T \union {Len(s) + 1}) = Cardinality(T) + 1
    BY <2>2, <2>3, FS_AddElement
  <2> QED
    BY <1>1, <2>1, <2>3, <2>4
<1>2. CASE m # l
  <2>1. Told(m, Append(s, l)) = Told(m, s)
    BY <1>2 DEF Told
  <2> QED
    BY <2>1, <1>2
<1> QED
  BY <1>1, <1>2

\* A patch leaves the budget alone or sets a range.
LEMMA ApplyIsReadable ==
    ASSUME NEW old, Readable(old), NEW q \in Patches
    PROVE  Readable(Apply(old, q))
<1>1. CASE Budget \intersect DOMAIN q = {}
  BY <1>1 DEF Apply, Readable, Budget, Columns
<1>2. CASE Budget \intersect DOMAIN q # {}
  BY <1>2, PatchesAssumption DEF IsPatch, Apply, Readable, Budget, Columns
<1> QED
  BY <1>1, <1>2

LEMMA ToldMeansComplete ==
    ASSUME ProfileTypeOK, CompletionToldOnce
    PROVE  AnnouncedAreComplete
<1> SUFFICES ASSUME NEW d \in DOMAIN completions
             PROVE  Complete(profiles[completions[d]])
  BY DEF AnnouncedAreComplete
<1> DEFINE l == completions[d]
<1>1. l \in Leads /\ completions \in Seq(Leads)
  BY DEF ProfileTypeOK
<1>2. d \in Told(l, completions)
  BY DEF Told
<1>3. Cardinality(Told(l, completions)) # 0
  BY <1>1, <1>2, ToldIsFinite, FS_EmptySet
<1>4. Cardinality(Told(l, completions)) = IF Complete(profiles[l]) THEN 1 ELSE 0
  BY <1>1 DEF CompletionToldOnce, Told
<1> QED
  BY <1>3, <1>4

LEMMA ApartInit == ProfileInit => ApartInv
<1> SUFFICES ASSUME ProfileInit PROVE ApartInv
  OBVIOUS
<1>1. ProfileTypeOK
  BY InitHolds
<1>2. LoadedIsCurrent
  BY DEF ProfileInit, LoadedIsCurrent
<1>3. CompletionToldOnce
  <2>1. ~Complete(EmptyRow)
    <3>1. Captured(EmptyRow) = {}
      BY DEF Captured, EmptyRow, Columns, Budget
    <3>2. Completeness(EmptyRow) = 0
      BY <3>1, FS_EmptySet DEF Completeness
    <3> QED
      BY <3>2, ProfileBoundsAssumption DEF Complete
  <2>2. \A l \in Leads : {d \in DOMAIN completions : completions[d] = l} = {}
    BY DEF ProfileInit
  <2>3. \A l \in Leads : profiles[l] = EmptyRow
    BY DEF ProfileInit
  <2> QED
    BY <2>1, <2>2, <2>3, FS_EmptySet DEF CompletionToldOnce
<1>4. BudgetStaysARange
  BY DEF ProfileInit, BudgetStaysARange, Readable, EmptyRow, Budget, Columns
<1> QED
  BY <1>1, <1>2, <1>3, <1>4 DEF ApartInv

LEMMA ApartCommit ==
    ASSUME TurnsApart, ApartInv, NEW t \in Turns, CaptureCommits(t)
    PROVE  /\ LoadedIsCurrent' /\ CompletionToldOnce' /\ BudgetStaysARange'
           /\ \A m \in Leads, c \in Columns : profiles[m][c] # None => profiles'[m][c] # None
<1> DEFINE l == captures[t].lead
           old == captures[t].loaded
           q == captures[t].patch
           new == Apply(old, q)
<1>1. /\ captures[t] # Idle /\ l \in Leads /\ q \in Patches
      /\ old = profiles[l] /\ captures[t].seen = profiles[l] /\ IsRow(old)
      /\ completions \in Seq(Leads)
  BY DEF CaptureCommits, ApartInv, ProfileTypeOK, LoadedIsCurrent
<1>2. Save(profiles[l], captures[t].seen, new) = new
  BY <1>1 DEF Save, Apply
<1>3. /\ \A m \in Leads : profiles'[m] = IF m = l THEN new ELSE profiles[m]
      /\ completions' = IF Crosses(old, new) THEN Append(completions, l) ELSE completions
      /\ \A u \in Turns : captures'[u] = IF u = t THEN Idle ELSE captures[u]
  BY <1>1, <1>2 DEF CaptureCommits, ApartInv, ProfileTypeOK
<1>4. LoadedIsCurrent'
  <2> SUFFICES ASSUME NEW u \in Turns, captures'[u] # Idle
               PROVE  /\ captures'[u].loaded = profiles'[captures'[u].lead]
                      /\ captures'[u].seen # Idle =>
                             captures'[u].seen = profiles'[captures'[u].lead]
    BY DEF LoadedIsCurrent
  <2>1. captures'[u] = captures[u] /\ captures[u] # Idle /\ captures[u].lead # l
    BY <1>1, <1>3 DEF TurnsApart
  <2>2. /\ captures[u].lead \in Leads /\ captures[u].loaded = profiles[captures[u].lead]
        /\ captures[u].seen # Idle => captures[u].seen = profiles[captures[u].lead]
    BY <2>1 DEF ApartInv, ProfileTypeOK, LoadedIsCurrent
  <2> QED
    BY <2>1, <2>2, <1>3
<1>5. \A m \in Leads : Cardinality(Told(m, completions)) = IF Complete(profiles[m]) THEN 1 ELSE 0
  BY DEF ApartInv, CompletionToldOnce, Told
<1>10. \A c \in Columns : old[c] # None => new[c] # None
  BY <1>1, ApplyKeepsAnswers
<1>6. Complete(old) => Complete(new)
  <2>1. \A c \in Columns : old[c] # None => new[c] # None
    BY <1>10
  <2> HIDE DEF new, old
  <2> QED
    BY <2>1, MoreAnswers
<1>7. ASSUME NEW m \in Leads
      PROVE  Cardinality(Told(m, completions')) = IF Complete(profiles'[m]) THEN 1 ELSE 0
  <2>1. CASE m # l
    <3>1. Cardinality(Told(m, completions')) = Cardinality(Told(m, completions))
      BY <2>1, <1>1, <1>3, ToldAppended
    <3> QED
      BY <3>1, <2>1, <1>3, <1>5
  <2>2. CASE m = l /\ Crosses(old, new)
    <3>1. Cardinality(Told(m, completions')) = Cardinality(Told(m, completions)) + 1
      BY <2>2, <1>1, <1>3, ToldAppended
    <3>2. ~Complete(profiles[m]) /\ Complete(profiles'[m])
      BY <2>2, <1>1, <1>3 DEF Crosses
    <3> QED
      BY <3>1, <3>2, <1>5
  <2>3. CASE m = l /\ ~Crosses(old, new)
    <3>1. completions' = completions
      BY <2>3, <1>3
    <3>2. Complete(profiles'[m]) <=> Complete(profiles[m])
      BY <2>3, <1>1, <1>3, <1>6 DEF Crosses
    <3> QED
      BY <3>1, <3>2, <1>5
  <2> QED
    BY <2>1, <2>2, <2>3
<1>8. CompletionToldOnce'
  BY <1>7 DEF CompletionToldOnce, Told, Complete, Completeness, Captured
<1>9. BudgetStaysARange'
  <2>1. Readable(new)
    BY <1>1, ApplyIsReadable DEF ApartInv, BudgetStaysARange
  <2> QED
    BY <2>1, <1>3 DEF ApartInv, BudgetStaysARange, Readable
<1>11. \A m \in Leads, c \in Columns : profiles[m][c] # None => profiles'[m][c] # None
  BY <1>1, <1>3, <1>10
<1> QED
  BY <1>4, <1>8, <1>9, <1>11

LEMMA ApartStep == TurnsApart /\ ApartInv /\ [ProfileNext]_profileVars => ApartInv'
<1> SUFFICES ASSUME TurnsApart, ApartInv, [ProfileNext]_profileVars PROVE ApartInv'
  OBVIOUS
<1>1. ProfileTypeOK'
  BY StepHolds DEF ApartInv
<1>2. CASE UNCHANGED <<profiles, completions>> /\ LoadedIsCurrent'
  BY <1>1, <1>2 DEF ApartInv, CompletionToldOnce, BudgetStaysARange, Complete, Completeness,
     Captured, Readable
<1>3. CASE UNCHANGED profileVars
  <2>1. LoadedIsCurrent'
    BY <1>3 DEF ApartInv, LoadedIsCurrent, profileVars
  <2> QED
    BY <2>1, <1>2, <1>3 DEF profileVars
<1>4. ASSUME NEW t \in Turns, NEW l \in Leads, NEW q \in Patches, CaptureReads(t, l, q)
      PROVE  ApartInv'
  <2>1. LoadedIsCurrent'
    BY <1>4 DEF ApartInv, ProfileTypeOK, LoadedIsCurrent, CaptureReads
  <2> QED
    BY <2>1, <1>2, <1>4 DEF CaptureReads
<1>5. ASSUME NEW t \in Turns, CaptureCommits(t)
      PROVE  ApartInv'
  BY <1>1, <1>5, ApartCommit DEF ApartInv
<1>6. ASSUME NEW t \in Turns, CaptureRollsBack(t)
      PROVE  ApartInv'
  <2>1. LoadedIsCurrent'
    BY <1>6 DEF ApartInv, ProfileTypeOK, LoadedIsCurrent, CaptureRollsBack
  <2> QED
    BY <2>1, <1>2, <1>6 DEF CaptureRollsBack
<1>7. ASSUME NEW t \in Turns, CaptureSaves(t)
      PROVE  ApartInv'
  <2>1. LoadedIsCurrent'
    BY <1>7 DEF ApartInv, ProfileTypeOK, LoadedIsCurrent, CaptureSaves
  <2> QED
    BY <2>1, <1>2, <1>7 DEF CaptureSaves
<1> QED
  BY <1>3, <1>4, <1>5, <1>6, <1>7 DEF ProfileNext

\* Turns of one lead that follow one another announce a complete profile exactly once.
THEOREM ApartTurnsTellOnce == ProfileSpec /\ []TurnsApart => []CompletionToldOnce
<1>1. ApartInv => CompletionToldOnce
  BY DEF ApartInv
<1> QED
  BY ApartInit, ApartStep, <1>1, PTL DEF ProfileSpec

\* Turns of one lead that follow one another keep its budget a range that can be read back.
THEOREM ApartTurnsKeepRange == ProfileSpec /\ []TurnsApart => []BudgetStaysARange
<1>1. ApartInv => BudgetStaysARange
  BY DEF ApartInv
<1> QED
  BY ApartInit, ApartStep, <1>1, PTL DEF ProfileSpec

\* Turns of one lead that follow one another take back no answer.
THEOREM ApartTurnsKeepAnswers == ProfileSpec /\ []TurnsApart => AnswersKept
<1>1. TurnsApart /\ ApartInv /\ [ProfileNext]_profileVars =>
        [\A l \in Leads, c \in Columns : profiles[l][c] # None => profiles'[l][c] # None]_profiles
  <2> SUFFICES ASSUME TurnsApart, ApartInv, [ProfileNext]_profileVars, profiles' # profiles
               PROVE  \A l \in Leads, c \in Columns :
                          profiles[l][c] # None => profiles'[l][c] # None
    OBVIOUS
  <2>1. PICK t \in Turns : CaptureCommits(t)
    BY DEF ProfileNext, profileVars, CaptureReads, CaptureSaves, CaptureRollsBack
  <2> QED
    BY <2>1, ApartCommit
<1> QED
  BY ApartInit, ApartStep, <1>1, PTL DEF ProfileSpec, AnswersKept

\* As long as the turns of a lead follow one another, a lead that has been announced is
\* complete and stays so: the handler of the event cannot find the profile incomplete.
THEOREM ApartTurnsKeepComplete == ProfileSpec /\ []TurnsApart => []AnnouncedAreComplete
<1>1. ApartInv => AnnouncedAreComplete
  BY ToldMeansComplete DEF ApartInv
<1> QED
  BY ApartInit, ApartStep, <1>1, PTL DEF ProfileSpec
=============================================================================
