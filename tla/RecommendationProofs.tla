------------------------ MODULE RecommendationProofs ------------------------
(***************************************************************************)
(* Proofs about Recommendation for every set of leads, turns, patches and  *)
(* properties, and every bound.  Searches, retries and crashes leave the   *)
(* profiles to profile capture, so what is proved of ProfileSpec holds     *)
(* here: as long as the turns of a lead follow one another, no search      *)
(* meets an incomplete profile.                                            *)
(***************************************************************************)
EXTENDS Recommendation, BuyerProfileProofs

\* Every step captures, or leaves profiles and announcements alone.
LEMMA StepsCapture == [Next]_vars => [ProfileNext]_profileVars
<1> SUFFICES ASSUME [Next]_vars PROVE [ProfileNext]_profileVars
  OBVIOUS
<1>1. CASE Captures
  BY <1>1 DEF Captures
<1>2. CASE WorkerStep
  <2>1. ASSUME NEW d \in DOMAIN completions, SearchBegins(d)
        PROVE  UNCHANGED profileVars
    BY <2>1 DEF SearchBegins
  <2>2. ASSUME NEW i \in 1..TopK, LookupAnswers(i) \/ LookupMisses(i)
        PROVE  UNCHANGED profileVars
    BY <2>2 DEF LookupAnswers, LookupMisses
  <2>3. SearchCommits \/ Acknowledge => UNCHANGED profileVars
    BY DEF SearchCommits, Acknowledge
  <2> QED
    BY <1>2, <2>1, <2>2, <2>3 DEF WorkerStep
<1>3. CASE SearchFails \/ Crash
  BY <1>3 DEF SearchFails, Crash
<1>4. ASSUME NEW r \in Retries, RetryStep(r) \/ RetryLoses(r)
      PROVE  UNCHANGED profileVars
  BY <1>4 DEF RetryStep, RetryPublishes, RetryMisses, RetryLoses
<1>5. CASE UNCHANGED vars
  BY <1>5 DEF vars
<1> QED
  BY <1>1, <1>2, <1>3, <1>4, <1>5 DEF Next

\* The composition implements profile capture on its own.
LEMMA CapturesProfiles == Spec => ProfileSpec
<1>1. Init => ProfileInit
  BY DEF Init
<1> QED
  BY <1>1, StepsCapture, PTL DEF Spec, ProfileSpec

\* The gate refuses no announced lead.
LEMMA GateLetsPass ==
    ASSUME AnnouncedAreComplete, refused = {}, [Next]_vars
    PROVE  refused' = {}
<1>1. ASSUME NEW d \in DOMAIN completions, SearchBegins(d)
      PROVE  refused' = {}
  <2>1. CanAdvance(completions[d])
    BY DEF AnnouncedAreComplete, CanAdvance
  <2> QED
    BY <1>1, <2>1 DEF SearchBegins
<1>2. CASE Captures
  BY <1>2 DEF Captures, batchVars
<1>3. ASSUME NEW i \in 1..TopK, LookupAnswers(i) \/ LookupMisses(i)
      PROVE  refused' = {}
  BY <1>3 DEF LookupAnswers, LookupMisses, batchVars
<1>4. SearchCommits \/ Acknowledge \/ SearchFails \/ Crash => refused' = {}
  BY DEF SearchCommits, Acknowledge, SearchFails, Crash, batchVars
<1>5. ASSUME NEW r \in Retries, RetryStep(r) \/ RetryLoses(r)
      PROVE  refused' = {}
  BY <1>5 DEF RetryStep, RetryPublishes, RetryMisses, RetryLoses, batchVars
<1>6. CASE UNCHANGED vars
  BY <1>6 DEF vars, batchVars
<1> QED
  BY <1>1, <1>2, <1>3, <1>4, <1>5, <1>6 DEF Next, WorkerStep

\* As long as the turns of a lead follow one another, and whatever fails or is delivered
\* again, the gate in front of a search refuses no lead for an incomplete profile once
\* ProfileCompleted has been published for it.
THEOREM ApartTurnsRefuseNobody == Spec /\ []TurnsApart => []NobodyIsRefused
<1>1. Init => NobodyIsRefused
  BY DEF Init, NobodyIsRefused
<1>2. AnnouncedAreComplete /\ NobodyIsRefused /\ [Next]_vars => NobodyIsRefused'
  BY GateLetsPass DEF NobodyIsRefused
<1>3. Spec /\ []TurnsApart => []AnnouncedAreComplete
  BY CapturesProfiles, ApartTurnsKeepComplete, PTL
<1> QED
  BY <1>1, <1>2, <1>3, PTL DEF Spec

-----------------------------------------------------------------------------
(* Sorting                                                                  *)

\* Ranking counts as everyone does.
LEMMA RankingCounts == \A S : R!Cardinality(S) = Cardinality(S)
BY DEF R!Cardinality, Cardinality, R!IsFiniteSet, IsFiniteSet

\* The indices of s that a sort by key puts before i.
Preceding(s, key, i) == {j \in DOMAIN s : R!Before(s, key, j, i)}

\* A sort is a permutation of the indices that puts each before the ones it comes before.
Sorting(s, key, order) ==
    /\ order \in [DOMAIN s -> DOMAIN s]
    /\ \A i, j \in DOMAIN s : order[i] = order[j] => i = j
    /\ \A i \in DOMAIN s : \E k \in DOMAIN s : order[k] = i
    /\ \A k, l \in DOMAIN s : k < l => R!Before(s, key, order[k], order[l])
    /\ \A k \in DOMAIN s : R!SortedBy(s, key)[k] = s[order[k]]

\* Before is a strict total order of the indices.
LEMMA BeforeIsOrder ==
    ASSUME NEW s, NEW key, DOMAIN s \subseteq Nat, \A i \in DOMAIN s : key[s[i]] \in Int,
           NEW i \in DOMAIN s, NEW j \in DOMAIN s
    PROVE  /\ i # j => R!Before(s, key, i, j) \/ R!Before(s, key, j, i)
           /\ ~(R!Before(s, key, i, j) /\ R!Before(s, key, j, i))
           /\ \A k \in DOMAIN s :
                 R!Before(s, key, k, i) /\ R!Before(s, key, i, j) => R!Before(s, key, k, j)
<1>1. i \in Nat /\ j \in Nat /\ key[s[i]] \in Int /\ key[s[j]] \in Int
  OBVIOUS
<1>2. \A k \in DOMAIN s : k \in Nat /\ key[s[k]] \in Int
  OBVIOUS
<1> QED
  BY <1>1, <1>2 DEF R!Before

\* Each position is the number of indices before it and one, so that the positions are a
\* permutation.
LEMMA SortedByIsSorting ==
    ASSUME NEW n \in Nat, NEW s, DOMAIN s = 1..n,
           NEW key, \A i \in 1..n : key[s[i]] \in Int
    PROVE  \E order : Sorting(s, key, order)
<1> DEFINE before(i, j) == R!Before(s, key, i, j)
           ahead(i) == Preceding(s, key, i)
           rank == [i \in 1..n |-> Cardinality(ahead(i)) + 1]
           order == [k \in DOMAIN s |->
                        CHOOSE i \in DOMAIN s : R!Cardinality(Preceding(s, key, i)) = k - 1]
<1>1. IsFiniteSet(1..n) /\ Cardinality(1..n) = n
  BY FS_Interval
<1>2. \A i, j \in 1..n :
         /\ i # j => before(i, j) \/ before(j, i)
         /\ ~(before(i, j) /\ before(j, i))
         /\ \A k \in 1..n : before(k, i) /\ before(i, j) => before(k, j)
  BY BeforeIsOrder
<1> HIDE DEF before
<1>3. \A i \in 1..n : ahead(i) = {j \in 1..n : before(j, i)}
  BY DEF Preceding, before
<1> HIDE DEF ahead
<1>0. \A k \in 1..n : order[k] = CHOOSE i \in DOMAIN s : R!Cardinality(Preceding(s, key, i)) = k - 1
  OBVIOUS
<1>4. \A i \in 1..n : IsFiniteSet(ahead(i)) /\ Cardinality(ahead(i)) \in Nat
  <2> SUFFICES ASSUME NEW i \in 1..n
               PROVE  IsFiniteSet(ahead(i)) /\ Cardinality(ahead(i)) \in Nat
    OBVIOUS
  <2>1. ahead(i) \in SUBSET (1..n)
    BY <1>3
  <2> QED
    BY <1>1, <2>1, FS_Subset, FS_CardinalityType
<1>5. \A i, j \in 1..n : before(i, j) => Cardinality(ahead(i)) < Cardinality(ahead(j))
  <2> SUFFICES ASSUME NEW i \in 1..n, NEW j \in 1..n, before(i, j)
               PROVE  Cardinality(ahead(i)) < Cardinality(ahead(j))
    OBVIOUS
  <2>1. ahead(i) \in SUBSET ahead(j) /\ i \in ahead(j) /\ i \notin ahead(i)
    BY <1>2, <1>3
  <2>2. Cardinality(ahead(i)) <= Cardinality(ahead(j))
        /\ Cardinality(ahead(i)) # Cardinality(ahead(j))
    BY <1>4, <2>1, FS_Subset
  <2> QED
    BY <1>4, <2>2
<1>6. \A i \in 1..n : rank[i] \in 1..n
  <2> SUFFICES ASSUME NEW i \in 1..n PROVE rank[i] \in 1..n
    OBVIOUS
  <2>1. ahead(i) \in SUBSET (1..n) /\ i \notin ahead(i)
    BY <1>2, <1>3
  <2>2. Cardinality(ahead(i)) <= n /\ Cardinality(ahead(i)) # n
    BY <1>1, <2>1, FS_Subset
  <2> QED
    BY <1>4, <2>2
<1>7. \A i, j \in 1..n : rank[i] = rank[j] => i = j
  BY <1>2, <1>4, <1>5
<1>8. rank \in Surjection(1..n, 1..n)
  <2>1. rank \in Injection(1..n, 1..n)
    BY <1>6, <1>7 DEF Injection, IsInjective
  <2> QED
    BY <1>1, <2>1, FS_Injection
<1>9. \A k \in 1..n : order[k] \in 1..n /\ Cardinality(ahead(order[k])) = k - 1
  <2> SUFFICES ASSUME NEW k \in 1..n
               PROVE  order[k] \in 1..n /\ Cardinality(ahead(order[k])) = k - 1
    OBVIOUS
  <2>1. PICK i \in 1..n : rank[i] = k
    BY <1>8 DEF Surjection
  <2>2. \E j \in DOMAIN s : R!Cardinality(Preceding(s, key, j)) = k - 1
    <3>1. Cardinality(ahead(i)) \in Nat /\ rank[i] = Cardinality(ahead(i)) + 1
      BY <1>4
    <3>2. Cardinality(ahead(i)) = k - 1
      BY <2>1, <3>1
    <3>3. R!Cardinality(ahead(i)) = k - 1
      BY <3>2, RankingCounts
    <3> QED
      BY <3>3 DEF ahead
  <2>3. order[k] \in DOMAIN s /\ R!Cardinality(Preceding(s, key, order[k])) = k - 1
    BY <1>0, <2>2
  <2> QED
    BY <2>3, RankingCounts DEF ahead
<1> HIDE DEF order
<1>10. \A i, j \in 1..n : order[i] = order[j] => i = j
  BY <1>9
<1>11. \A i \in 1..n : \E k \in 1..n : order[k] = i
  <2> SUFFICES ASSUME NEW i \in 1..n PROVE \E k \in 1..n : order[k] = i
    OBVIOUS
  <2>1. PICK k \in 1..n : k = rank[i]
    BY <1>6
  <2>2. rank[order[k]] = rank[i]
    BY <1>4, <1>9, <2>1
  <2> QED
    BY <1>7, <1>9, <2>2
<1>12. \A k, l \in 1..n : k < l => before(order[k], order[l])
  <2> SUFFICES ASSUME NEW k \in 1..n, NEW l \in 1..n, k < l PROVE before(order[k], order[l])
    OBVIOUS
  <2>1. /\ order[k] \in 1..n /\ Cardinality(ahead(order[k])) = k - 1
        /\ order[l] \in 1..n /\ Cardinality(ahead(order[l])) = l - 1
    BY <1>9
  <2>2. ~before(order[l], order[k])
    BY <1>5, <2>1
  <2>3. order[k] # order[l]
    BY <2>1
  <2> QED
    BY <1>2, <2>1, <2>2, <2>3
<1>13. \A k \in 1..n : R!SortedBy(s, key)[k] = s[order[k]]
  BY DEF R!SortedBy, Preceding, order
<1>14. order \in [1..n -> 1..n]
  BY <1>9 DEF order
<1>15. Sorting(s, key, order)
  BY <1>10, <1>11, <1>12, <1>13, <1>14 DEF Sorting, before
<1> QED
  BY <1>15

Distinct(s) == \A i, j \in DOMAIN s : s[i] = s[j] => i = j

\* A sort rearranges a sequence in descending order.
LEMMA SortedByArranges ==
    ASSUME NEW S, NEW s \in Seq(S), NEW key, \A i \in DOMAIN s : key[s[i]] \in Int
    PROVE  LET t == R!SortedBy(s, key)
           IN  /\ t \in Seq(S) /\ Len(t) = Len(s)
               /\ Distinct(s) => Distinct(t)
               /\ \A i \in DOMAIN s : \E k \in DOMAIN t : t[k] = s[i]
               /\ \A k, l \in DOMAIN t : k < l => key[t[k]] >= key[t[l]]
<1> DEFINE t == R!SortedBy(s, key)
           n == Len(s)
<1>1. n \in Nat /\ DOMAIN s = 1..n /\ \A i \in 1..n : s[i] \in S
  OBVIOUS
<1>2. PICK order : Sorting(s, key, order)
  BY <1>1, SortedByIsSorting
<1>0. order \in [1..n -> 1..n]
  BY <1>1, <1>2 DEF Sorting
<1>3. t = [k \in 1..n |-> s[order[k]]]
  <2>1. t = [k \in 1..n |-> t[k]]
    BY <1>1 DEF R!SortedBy
  <2> HIDE DEF t
  <2>2. \A k \in 1..n : t[k] = s[order[k]]
    BY <1>1, <1>2 DEF Sorting, t
  <2> QED
    BY <2>1, <2>2
<1> HIDE DEF t
<1>4. t \in Seq(S) /\ Len(t) = n /\ DOMAIN t = 1..n
  <2>1. \A k \in 1..n : s[order[k]] \in S
    BY <1>0, <1>1
  <2>2. t \in [1..n -> S]
    BY <1>3, <2>1
  <2> QED
    BY <1>1, <2>2
<1>5. Distinct(s) => Distinct(t)
  BY <1>1, <1>2, <1>3, <1>4 DEF Sorting, Distinct
<1>6. \A i \in DOMAIN s : \E k \in DOMAIN t : t[k] = s[i]
  BY <1>1, <1>2, <1>3, <1>4 DEF Sorting
<1>7. \A k, l \in DOMAIN t : k < l => key[t[k]] >= key[t[l]]
  <2> SUFFICES ASSUME NEW k \in 1..n, NEW l \in 1..n, k < l
               PROVE  key[t[k]] >= key[t[l]]
    BY <1>4
  <2>1. R!Before(s, key, order[k], order[l]) /\ order[k] \in 1..n /\ order[l] \in 1..n
    BY <1>1, <1>2 DEF Sorting
  <2> QED
    BY <1>1, <1>3, <2>1 DEF R!Before
<1> QED
  BY <1>4, <1>5, <1>6, <1>7 DEF t

LEMMA PrefixKeeps ==
    ASSUME NEW S, NEW s \in Seq(S), NEW n \in Nat
    PROVE  LET p == R!Prefix(s, n)
           IN  /\ p \in Seq(S)
               /\ Len(p) = IF n < Len(s) THEN n ELSE Len(s)
               /\ \A i \in DOMAIN p : i \in DOMAIN s /\ p[i] = s[i]
               /\ Distinct(s) => Distinct(p)
<1> DEFINE m == IF n < Len(s) THEN n ELSE Len(s)
           p == R!Prefix(s, n)
<1>1. m \in Nat /\ m <= Len(s) /\ Len(s) \in Nat /\ DOMAIN s = 1..Len(s)
  OBVIOUS
<1>2. p = SubSeq(s, 1, m)
  BY DEF R!Prefix
<1> HIDE DEF m, p
<1>3. p \in Seq(S) /\ Len(p) = m /\ DOMAIN p = 1..m /\ \A i \in 1..m : p[i] = s[i]
  BY <1>1, <1>2
<1>4. \A i \in DOMAIN p : i \in DOMAIN s /\ p[i] = s[i]
  BY <1>1, <1>3
<1>5. Distinct(s) => Distinct(p)
  BY <1>4 DEF Distinct
<1> QED
  BY <1>3, <1>4, <1>5 DEF m, p

\* Retrieval leaves some of what the filter found.
LEMMA RetrieveKeeps ==
    ASSUME NEW S, NEW found \in Seq(S), Distinct(found), NEW buyer
    PROVE  LET retrieved == R!Retrieve(buyer, found, TopN)
           IN  retrieved \in Seq(S) /\ Distinct(retrieved)
<1> DEFINE key == [x \in R!Range(found) |-> R!Similarity(buyer, x)]
           sorted == R!SortedBy(found, key)
<1>1. \A i \in DOMAIN found : key[found[i]] \in Int
  BY DEF R!Range, R!Similarity
<1>2. R!Retrieve(buyer, found, TopN) = R!Prefix(sorted, TopN)
  BY DEF R!Retrieve
<1> HIDE DEF key
<1>3. sorted \in Seq(S) /\ Distinct(sorted)
  BY <1>1, SortedByArranges
<1> HIDE DEF sorted
<1> QED
  BY <1>2, <1>3, PrefixKeeps, SearchBoundsAssumption

\* The ranking takes the best of what was retrieved, in descending order.
LEMMA RankTakesTheBest ==
    ASSUME NEW S, NEW s \in Seq(S), Distinct(s), NEW buyer,
           \A x \in S : R!Score(buyer, x) \in Int
    PROVE  LET items == R!Rank(buyer, s, TopK)
           IN  /\ items \in Seq(S) /\ Distinct(items)
               /\ Len(items) <= TopK /\ (Len(items) = Len(s) \/ Len(items) = TopK)
               /\ \A k, l \in DOMAIN items :
                     k < l => R!Score(buyer, items[k]) >= R!Score(buyer, items[l])
               /\ \A i \in DOMAIN s :
                     \/ \E k \in DOMAIN items : items[k] = s[i]
                     \/ \A k \in DOMAIN items : R!Score(buyer, s[i]) <= R!Score(buyer, items[k])
<1> DEFINE key == R!Scores(buyer, s)
           sorted == R!SortedBy(s, key)
           items == R!Rank(buyer, s, TopK)
<1>1. \A i \in DOMAIN s : s[i] \in S /\ key[s[i]] = R!Score(buyer, s[i])
  BY DEF R!Range, R!Scores
<1>2. items = R!Prefix(sorted, TopK)
  BY DEF R!Rank
<1> HIDE DEF key
<1>3. /\ sorted \in Seq(S) /\ Len(sorted) = Len(s) /\ Distinct(sorted)
      /\ \A i \in DOMAIN s : \E k \in DOMAIN sorted : sorted[k] = s[i]
      /\ \A k, l \in DOMAIN sorted : k < l => key[sorted[k]] >= key[sorted[l]]
  BY <1>1, SortedByArranges
<1>4. \A k \in DOMAIN sorted : \E i \in DOMAIN s : sorted[k] = s[i]
  <2>0. /\ Len(s) \in Nat /\ DOMAIN s = 1..Len(s)
        /\ \A i \in 1..Len(s) : key[s[i]] \in Int
    BY <1>1
  <2>1. \E order : Sorting(s, key, order)
    BY <2>0, SortedByIsSorting
  <2>2. DOMAIN sorted = DOMAIN s
    BY DEF R!SortedBy
  <2> QED
    BY <2>1, <2>2 DEF Sorting
<1> HIDE DEF sorted, items
<1>5. \A k \in DOMAIN sorted : key[sorted[k]] = R!Score(buyer, sorted[k])
                               /\ R!Score(buyer, sorted[k]) \in Int
  BY <1>1, <1>4
<1>6. \A k, l \in DOMAIN sorted :
         k < l => R!Score(buyer, sorted[k]) >= R!Score(buyer, sorted[l])
  BY <1>3, <1>5
<1>7. /\ items \in Seq(S) /\ Distinct(items)
      /\ Len(items) = IF TopK < Len(sorted) THEN TopK ELSE Len(sorted)
      /\ \A k \in DOMAIN items : k \in DOMAIN sorted /\ items[k] = sorted[k]
  BY <1>2, <1>3, PrefixKeeps, SearchBoundsAssumption
<1>8. Len(items) <= TopK /\ (Len(items) = Len(s) \/ Len(items) = TopK)
  BY <1>3, <1>7, SearchBoundsAssumption
<1>9. \A k, l \in DOMAIN items :
         k < l => R!Score(buyer, items[k]) >= R!Score(buyer, items[l])
  BY <1>6, <1>7
<1>10. ASSUME NEW i \in DOMAIN s, \A k \in DOMAIN items : items[k] # s[i],
              NEW k \in DOMAIN items
       PROVE  R!Score(buyer, s[i]) <= R!Score(buyer, items[k])
  <2>1. PICK l \in DOMAIN sorted : sorted[l] = s[i]
    BY <1>3
  <2>2. l \notin DOMAIN items
    BY <1>7, <1>10, <2>1
  <2>3. k < l /\ k \in DOMAIN sorted
    BY <1>3, <1>7, <2>2, SearchBoundsAssumption
  <2> QED
    BY <1>5, <1>6, <1>7, <2>1, <2>3
<1> QED
  BY <1>7, <1>8, <1>9, <1>10 DEF items

-----------------------------------------------------------------------------
(* Scores                                                                   *)

\* What the columns of a buyer hold.
LEMMA ColumnsOfBuyer ==
    ASSUME NEW buyer, IsRow(buyer)
    PROVE  /\ \A c \in Budget : buyer[c] # None => buyer[c] \in Nat
           /\ buyer["must_haves"] # None =>
                 /\ IsFiniteSet(buyer["must_haves"]) /\ buyer["must_haves"] # {}
                 /\ Cardinality(buyer["must_haves"]) \in Nat \ {0}
<1>1. "must_haves" \in Columns /\ Budget \subseteq Columns
  BY DEF Columns, Lists
<1>2. \A c \in Budget : buyer[c] # None => buyer[c] \in Nat
  <2> SUFFICES ASSUME NEW c \in Budget, buyer[c] # None PROVE buyer[c] \in Nat
    OBVIOUS
  <2>1. PICK q \in Patches : c \in DOMAIN q /\ buyer[c] = q[c]
    BY <1>1 DEF IsRow, ColumnValues
  <2>2. Budget \intersect DOMAIN q # {}
    BY <2>1
  <2>3. q["budget_min"] \in Nat /\ q["budget_max"] \in Nat
    BY <2>2, PatchesAssumption DEF IsPatch
  <2> QED
    BY <2>1, <2>3 DEF Budget
<1>3. ASSUME buyer["must_haves"] # None
      PROVE  /\ IsFiniteSet(buyer["must_haves"]) /\ buyer["must_haves"] # {}
             /\ Cardinality(buyer["must_haves"]) \in Nat \ {0}
  <2>1. PICK q \in Patches : "must_haves" \in DOMAIN q /\ buyer["must_haves"] = q["must_haves"]
    BY <1>1, <1>3 DEF IsRow, ColumnValues
  <2>2. IsFiniteSet(buyer["must_haves"]) /\ buyer["must_haves"] # {}
    BY <2>1, MustHavesAssumption
  <2> QED
    BY <2>2, FS_EmptySet, FS_CardinalityType
<1> QED
  BY <1>2, <1>3

\* The parts of the score.
LEMMA PartsOfScore ==
    ASSUME NEW buyer, IsRow(buyer), NEW x, x.price \in Int
    PROVE  /\ R!FitUnit(buyer) \in Nat \ {0} /\ R!CoverUnit(buyer) \in Nat \ {0}
           /\ R!BudgetFit(buyer, x) \in Nat
           /\ R!ZoneMatch(buyer, x) \in {0, 1} /\ R!TypeMatch(buyer, x) \in {0, 1}
           /\ R!MustHaveCoverage(buyer, x) \in Nat
<1>1. R!HasBudget(buyer) => /\ buyer["budget_min"] \in Nat /\ buyer["budget_max"] \in Nat
                            /\ R!Span(buyer) \in Int
  BY ColumnsOfBuyer DEF R!HasBudget, R!Span, Budget
<1>2. R!FitUnit(buyer) \in Nat \ {0}
  BY <1>1 DEF R!FitUnit
<1>3. R!CoverUnit(buyer) \in Nat \ {0}
  BY ColumnsOfBuyer, RankingCounts DEF R!CoverUnit
<1>4. R!BudgetFit(buyer, x) \in Nat
  BY <1>1 DEF R!BudgetFit, R!InBudget, R!Span, R!Abs
<1>5. R!MustHaveCoverage(buyer, x) \in Nat
  <2>1. CASE buyer["must_haves"] = None
    BY <2>1 DEF R!MustHaveCoverage
  <2>2. CASE buyer["must_haves"] # None
    <3>1. IsFiniteSet(buyer["must_haves"])
      BY <2>2, ColumnsOfBuyer
    <3>2. IsFiniteSet(buyer["must_haves"] \intersect x.features)
      BY <3>1, FS_Intersection
    <3> QED
      BY <2>2, <3>2, FS_CardinalityType, RankingCounts DEF R!MustHaveCoverage
  <2> QED
    BY <2>1, <2>2
<1> QED
  BY <1>2, <1>3, <1>4, <1>5 DEF R!ZoneMatch, R!TypeMatch

LEMMA ScoreIsNumber ==
    ASSUME NEW buyer, IsRow(buyer), NEW x, x.price \in Int
    PROVE  R!Score(buyer, x) \in Int
<1> DEFINE fit == R!FitUnit(buyer)
           cover == R!CoverUnit(buyer)
           budget == R!BudgetFit(buyer, x)
           zone == R!ZoneMatch(buyer, x)
           must == R!MustHaveCoverage(buyer, x)
           type == R!TypeMatch(buyer, x)
<1>1. fit \in Int /\ cover \in Int /\ budget \in Int /\ zone \in Int /\ must \in Int /\ type \in Int
  BY PartsOfScore
<1>2. R!Score(buyer, x) = 4 * budget * cover + 3 * zone * fit * cover + 2 * must * fit
                             + type * fit * cover
  BY <1>1 DEF R!Score, R!Contributions, R!Weight
<1> HIDE DEF fit, cover, budget, zone, must, type
<1> QED
  BY <1>1, <1>2

-----------------------------------------------------------------------------
(* Searches                                                                 *)

\* What a search has selected for a buyer of the properties it retrieved.
Selects(buyer, retrieved, items) ==
    /\ items \in Seq(Candidates(buyer)) /\ Distinct(items)
    /\ Len(items) <= TopK
    /\ Len(items) = Cardinality(retrieved) \/ Len(items) = TopK
    /\ \A k, l \in DOMAIN items :
          k < l => R!Score(buyer, items[k]) >= R!Score(buyer, items[l])
    /\ \A x \in retrieved :
          \/ \E k \in DOMAIN items : items[k] = x
          \/ \A k \in DOMAIN items : R!Score(buyer, x) <= R!Score(buyer, items[k])

SearchIsSound ==
    search # Idle =>
        /\ search = [delivery |-> search.delivery, buyer |-> search.buyer,
                     retrieved |-> search.retrieved, items |-> search.items,
                     insight |-> search.insight]
        /\ search.delivery \in DOMAIN completions
        /\ IsRow(search.buyer) /\ Complete(search.buyer)
        /\ Selects(search.buyer, search.retrieved, search.items)
        /\ search.insight \in [DOMAIN search.items -> {"awaited", "found", "none"}]

LEMMA ListingIsDistinct ==
    ASSUME NEW S, IsFiniteSet(S), NEW s \in Listings(S)
    PROVE  s \in Seq(S) /\ Distinct(s)
<1>1. Cardinality(S) \in Nat
  BY FS_CardinalityType
<1> QED
  BY <1>1 DEF Listings, Distinct

LEMMA DistinctAreCounted ==
    ASSUME NEW S, NEW s \in Seq(S), Distinct(s)
    PROVE  Cardinality(ToSet(s)) = Len(s)
<1>1. Len(s) \in Nat /\ DOMAIN s = 1..Len(s)
  OBVIOUS
<1>2. s \in Bijection(1..Len(s), ToSet(s))
  BY <1>1 DEF Distinct, ToSet, Bijection, Injection, IsInjective, Surjection
<1> QED
  BY <1>1, <1>2, FS_CountingElements DEF ExistsBijection

\* Filter, retrieval and ranking select what they promise.
LEMMA SearchSelects ==
    ASSUME catalogue \in Catalogues, NEW buyer, IsRow(buyer),
           NEW found \in Listings(Candidates(buyer))
    PROVE  LET retrieved == R!Retrieve(buyer, found, TopN)
           IN  Selects(buyer, ToSet(retrieved), R!Rank(buyer, retrieved, TopK))
<1> DEFINE S == Candidates(buyer)
           retrieved == R!Retrieve(buyer, found, TopN)
           items == R!Rank(buyer, retrieved, TopK)
<1>1. S \in SUBSET catalogue /\ IsFiniteSet(catalogue) /\ \A x \in S : x.price \in Int
  BY CataloguesAssumption DEF Candidates
<1>2. IsFiniteSet(S)
  BY <1>1, FS_Subset
<1>3. \A x \in S : R!Score(buyer, x) \in Int
  BY <1>1, ScoreIsNumber
<1> HIDE DEF S
<1>4. found \in Seq(S) /\ Distinct(found)
  BY <1>2, ListingIsDistinct DEF S
<1>5. retrieved \in Seq(S) /\ Distinct(retrieved)
  BY <1>4, RetrieveKeeps
<1> HIDE DEF retrieved
<1>6. /\ items \in Seq(S) /\ Distinct(items)
      /\ Len(items) <= TopK /\ (Len(items) = Len(retrieved) \/ Len(items) = TopK)
      /\ \A k, l \in DOMAIN items :
            k < l => R!Score(buyer, items[k]) >= R!Score(buyer, items[l])
      /\ \A i \in DOMAIN retrieved :
            \/ \E k \in DOMAIN items : items[k] = retrieved[i]
            \/ \A k \in DOMAIN items : R!Score(buyer, retrieved[i]) <= R!Score(buyer, items[k])
  BY <1>3, <1>5, RankTakesTheBest
<1> HIDE DEF items
<1>7. Cardinality(ToSet(retrieved)) = Len(retrieved)
  BY <1>5, DistinctAreCounted
<1>8. \A x \in ToSet(retrieved) : \E i \in DOMAIN retrieved : x = retrieved[i]
  BY DEF ToSet
<1>9. Selects(buyer, ToSet(retrieved), items)
  BY <1>6, <1>7, <1>8 DEF Selects, S
<1> QED
  BY <1>9 DEF retrieved, items

-----------------------------------------------------------------------------
(* Background tasks                                                         *)

More(f, r) == [f EXCEPT ![r] = @ + 1]
Fewer(f, r) == [f EXCEPT ![r] = @ - 1]

TasksIn(f, x) == UNION {{n} \X (1..f[<<x, n>>]) : n \in 1..MaxRetries}

LEMMA TasksAreFinite ==
    ASSUME NEW f \in [Retries -> Nat], NEW x \in Places
    PROVE  IsFiniteSet(TasksIn(f, x)) /\ Cardinality(TasksIn(f, x)) \in Nat
<1> DEFINE at == [n \in 1..MaxRetries |-> {n} \X (1..f[<<x, n>>])]
           T == {at[n] : n \in 1..MaxRetries}
<1>1. \A n \in 1..MaxRetries : f[<<x, n>>] \in Nat
  BY DEF Retries
<1>2. \A n \in 1..MaxRetries : IsFiniteSet(at[n])
  <2> SUFFICES ASSUME NEW n \in 1..MaxRetries PROVE IsFiniteSet({n} \X (1..f[<<x, n>>]))
    OBVIOUS
  <2>1. 1 \in Int /\ f[<<x, n>>] \in Int
    BY <1>1
  <2>2. IsFiniteSet({n})
    BY FS_Singleton, Zenon
  <2>3. IsFiniteSet(1..f[<<x, n>>])
    BY <2>1, FS_Interval
  <2> QED
    BY <2>2, <2>3, FS_Product
<1>3. TasksIn(f, x) = UNION T
  BY DEF TasksIn
<1> HIDE DEF at
<1>4. IsFiniteSet(T)
  <2>1. IsFiniteSet(1..MaxRetries)
    BY SearchBoundsAssumption, FS_Interval
  <2>2. [n \in 1..MaxRetries |-> at[n]] \in Surjection(1..MaxRetries, T)
    BY DEF Surjection
  <2> QED
    BY <2>1, <2>2, FS_Surjection
<1>5. IsFiniteSet(UNION T)
  BY <1>2, <1>4, FS_UNION
<1> QED
  BY <1>3, <1>5, FS_CardinalityType

IsTask(f, x, p) == \E n \in 1..MaxRetries : \E k \in 1..f[<<x, n>>] : p = <<n, k>>

LEMMA TaskIsPair == \A f, x, p : p \in TasksIn(f, x) <=> IsTask(f, x, p)
<1> SUFFICES ASSUME NEW f, NEW x, NEW p PROVE p \in TasksIn(f, x) <=> IsTask(f, x, p)
  OBVIOUS
<1>1. p \in TasksIn(f, x) <=> \E n \in 1..MaxRetries : p \in {n} \X (1..f[<<x, n>>])
  BY Zenon DEF TasksIn
<1> QED
  BY <1>1 DEF IsTask

\* One more task for x, and no more for another.
LEMMA OneMoreTask ==
    ASSUME NEW f \in [Retries -> Nat], NEW r \in Retries, NEW y \in Places
    PROVE  /\ More(f, r) \in [Retries -> Nat]
           /\ Cardinality(TasksIn(More(f, r), y)) =
                  Cardinality(TasksIn(f, y)) + (IF y = r[1] THEN 1 ELSE 0)
<1> DEFINE x == r[1]
           n == r[2]
           k == f[<<x, n>>] + 1
           g == More(f, r)
<1>0. x \in Places /\ n \in 1..MaxRetries /\ r = <<x, n>>
  BY DEF Retries
<1> HIDE DEF x, n
<1>1. <<x, n>> \in Retries /\ f[<<x, n>>] \in Nat /\ g \in [Retries -> Nat]
  BY <1>0 DEF More
<1>2. \A m \in 1..MaxRetries :
         /\ f[<<y, m>>] \in Nat
         /\ g[<<y, m>>] = IF y = x /\ m = n THEN k ELSE f[<<y, m>>]
  BY <1>0, <1>1 DEF Retries, More
<1> HIDE DEF g
<1>3. ASSUME y # x
      PROVE  Cardinality(TasksIn(g, y)) = Cardinality(TasksIn(f, y)) + 0
  <2>1. TasksIn(g, y) = TasksIn(f, y)
    BY <1>2, <1>3 DEF TasksIn
  <2> QED
    BY <2>1, TasksAreFinite
<1>4. ASSUME y = x
      PROVE  Cardinality(TasksIn(g, y)) = Cardinality(TasksIn(f, y)) + 1
  <2>1. \A m \in 1..MaxRetries :
           1..g[<<x, m>>] = (1..f[<<x, m>>]) \union (IF m = n THEN {k} ELSE {})
    BY <1>1, <1>2, <1>4
  <2>2. TasksIn(g, x) = TasksIn(f, x) \union {<<n, k>>}
    <3>1. ASSUME NEW p, p \in TasksIn(g, x) PROVE p \in TasksIn(f, x) \/ p = <<n, k>>
      <4>1. IsTask(g, x, p)
        BY <3>1, TaskIsPair
      <4>2. PICK m \in 1..MaxRetries : \E j \in 1..g[<<x, m>>] : p = <<m, j>>
        BY <4>1 DEF IsTask
      <4>3. PICK j \in 1..g[<<x, m>>] : p = <<m, j>>
        BY <4>2
      <4>4. j \in 1..f[<<x, m>>] \/ (m = n /\ j = k)
        BY <2>1, <4>3
      <4>5. IsTask(f, x, p) \/ p = <<n, k>>
        BY <4>3, <4>4 DEF IsTask
      <4> QED
        BY <4>5, TaskIsPair
    <3>2. ASSUME NEW p, p \in TasksIn(f, x) PROVE p \in TasksIn(g, x)
      <4>1. IsTask(f, x, p)
        BY <3>2, TaskIsPair
      <4>2. IsTask(g, x, p)
        BY <2>1, <4>1 DEF IsTask
      <4> QED
        BY <4>2, TaskIsPair
    <3>3. <<n, k>> \in TasksIn(g, x)
      <4>1. IsTask(g, x, <<n, k>>)
        BY <1>0, <1>1, <2>1 DEF IsTask
      <4> QED
        BY <4>1, TaskIsPair
    <3> QED
      BY <3>1, <3>2, <3>3
  <2>3. <<n, k>> \notin TasksIn(f, x)
    <3>1. k \notin 1..f[<<x, n>>]
      BY <1>1
    <3>2. ~IsTask(f, x, <<n, k>>)
      BY <3>1 DEF IsTask
    <3> QED
      BY <3>2, TaskIsPair
  <2>4. IsFiniteSet(TasksIn(f, x)) /\ Cardinality(TasksIn(f, x)) \in Nat
    BY <1>0, TasksAreFinite
  <2>5. Cardinality(TasksIn(f, x) \union {<<n, k>>}) = Cardinality(TasksIn(f, x)) + 1
    BY <2>3, <2>4, FS_AddElement
  <2> QED
    BY <1>4, <2>2, <2>5
<1> QED
  BY <1>1, <1>3, <1>4 DEF g, x

LEMMA OneTaskLess ==
    ASSUME NEW f \in [Retries -> Nat], NEW r \in Retries, f[r] > 0, NEW y \in Places
    PROVE  /\ Fewer(f, r) \in [Retries -> Nat]
           /\ Cardinality(TasksIn(Fewer(f, r), y)) =
                  Cardinality(TasksIn(f, y)) - (IF y = r[1] THEN 1 ELSE 0)
<1> DEFINE g == Fewer(f, r)
<1>1. g \in [Retries -> Nat] /\ \A q \in Retries : g[q] = IF q = r THEN f[r] - 1 ELSE f[q]
  BY DEF Fewer
<1>2. More(g, r) = f
  <2> HIDE DEF g
  <2>1. More(g, r) \in [Retries -> Nat] /\ \A q \in Retries : More(g, r)[q] = f[q]
    BY <1>1 DEF More
  <2> QED
    BY <2>1
<1>3. Cardinality(TasksIn(f, y)) =
         Cardinality(TasksIn(g, y)) + (IF y = r[1] THEN 1 ELSE 0)
  <2> HIDE DEF g
  <2> QED
    BY <1>1, <1>2, OneMoreTask
<1> QED
  BY <1>1, <1>3, TasksAreFinite

\* The next attempt is the same task's, if there is one.
LEMMA NextAttemptAddsNone ==
    ASSUME retrying \in [Retries -> Nat], NEW r \in Retries, retrying[r] > 0,
           NEW y \in Places
    PROVE  /\ NextAttempt(r) \in [Retries -> Nat]
           /\ Cardinality(TasksIn(NextAttempt(r), y)) <= Cardinality(TasksIn(retrying, y))
<1> DEFINE g == Fewer(retrying, r)
<1>1. r[1] \in Places /\ r[2] \in 1..MaxRetries /\ r = <<r[1], r[2]>>
  BY DEF Retries
<1>2. /\ g \in [Retries -> Nat]
      /\ Cardinality(TasksIn(g, y)) =
             Cardinality(TasksIn(retrying, y)) - (IF y = r[1] THEN 1 ELSE 0)
  BY OneTaskLess
<1>3. Cardinality(TasksIn(retrying, y)) \in Nat
  BY TasksAreFinite
<1>4. CASE r[2] = MaxRetries
  BY <1>2, <1>3, <1>4 DEF NextAttempt, Fewer
<1>5. CASE r[2] # MaxRetries
  <2> DEFINE q == <<r[1], r[2] + 1>>
  <2>1. q \in Retries /\ q # r /\ q[1] = r[1]
    BY <1>1, <1>5, SearchBoundsAssumption DEF Retries
  <2>2. NextAttempt(r) = More(g, q)
    BY <1>5, <2>1 DEF NextAttempt, More, Fewer
  <2> HIDE DEF g, q
  <2>3. /\ More(g, q) \in [Retries -> Nat]
        /\ Cardinality(TasksIn(More(g, q), y)) =
               Cardinality(TasksIn(g, y)) + (IF y = q[1] THEN 1 ELSE 0)
    BY <1>2, <2>1, OneMoreTask
  <2> QED
    BY <1>2, <1>3, <2>1, <2>2, <2>3
<1> QED
  BY <1>4, <1>5

-----------------------------------------------------------------------------
(* The invariant                                                            *)

RetriesAreSound ==
    /\ retrying \in [Retries -> Nat]
    /\ missed \in [Places -> Nat] /\ late \in [Places -> Nat]
    /\ \A x \in Places : late[x] + Cardinality(TasksIn(retrying, x)) <= missed[x]

SearchInv ==
    /\ catalogue \in Catalogues
    /\ SearchIsSound
    /\ answered \union recorded \union refused \subseteq DOMAIN completions
    /\ RetriesAreSound
    /\ faults \in 0..MaxFaults

LEMMA SearchInitHolds == Init => SearchInv
<1> SUFFICES ASSUME Init PROVE SearchInv
  OBVIOUS
<1>1. SearchIsSound /\ answered \union recorded \union refused \subseteq DOMAIN completions
  BY DEF Init, SearchIsSound
<1>2. RetriesAreSound
  <2>1. retrying \in [Retries -> Nat] /\ missed \in [Places -> Nat] /\ late \in [Places -> Nat]
    BY DEF Init
  <2>2. \A x \in Places : TasksIn(retrying, x) = {}
    <3>1. \A x \in Places, n \in 1..MaxRetries : 1..retrying[<<x, n>>] = {}
      BY DEF Init, Retries
    <3> QED
      BY <3>1, TaskIsPair DEF IsTask
  <2> QED
    BY <2>1, <2>2, FS_EmptySet DEF Init, RetriesAreSound
<1> QED
  BY <1>1, <1>2, SearchBoundsAssumption DEF Init, SearchInv

\* Events are only added.
LEMMA CompletionsGrow ==
    ASSUME ProfileTypeOK, [Next]_vars
    PROVE  DOMAIN completions \subseteq DOMAIN completions'
<1>1. CASE UNCHANGED completions
  BY <1>1
<1>2. ASSUME NEW t \in Turns, CaptureCommits(t)
      PROVE  DOMAIN completions \subseteq DOMAIN completions'
  <2>1. completions \in Seq(Leads) /\ captures[t].lead \in Leads
    BY <1>2 DEF ProfileTypeOK, CaptureCommits
  <2> QED
    BY <1>2, <2>1 DEF CaptureCommits
<1> QED
  BY <1>1, <1>2, StepsCapture DEF ProfileNext, profileVars, CaptureReads, CaptureSaves,
     CaptureRollsBack

LEMMA SearchStays ==
    ASSUME SearchInv, UNCHANGED <<catalogue, search>>,
           DOMAIN completions \subseteq DOMAIN completions'
    PROVE  SearchIsSound'
BY DEF SearchInv, SearchIsSound, Selects, Candidates

LEMMA BeginKeeps ==
    ASSUME ProfileTypeOK, SearchInv, NEW d \in DOMAIN completions, SearchBegins(d)
    PROVE  SearchInv'
<1> DEFINE buyer == profiles[completions[d]]
<1>1. IsRow(buyer) /\ completions[d] \in Leads
  BY DEF ProfileTypeOK
<1>2. UNCHANGED <<completions, catalogue, recorded, retrying, missed, late, faults>>
  BY DEF SearchBegins, profileVars, mapsVars
<1>3. RetriesAreSound'
  BY <1>2 DEF SearchInv, RetriesAreSound, TasksIn
<1>4. CASE CanAdvance(completions[d])
  <2>1. PICK found \in Listings(Candidates(buyer)) :
           LET retrieved == R!Retrieve(buyer, found, TopN)
               ranked == R!Rank(buyer, retrieved, TopK)
           IN  search' = [delivery |-> d, buyer |-> buyer,
                          retrieved |-> ToSet(retrieved), items |-> ranked,
                          insight |-> [i \in DOMAIN ranked |-> "awaited"]]
    BY <1>4 DEF SearchBegins
  <2> DEFINE retrieved == R!Retrieve(buyer, found, TopN)
             ranked == R!Rank(buyer, retrieved, TopK)
  <2>2. Selects(buyer, ToSet(retrieved), ranked)
    BY <1>1, SearchSelects DEF SearchInv
  <2>3. UNCHANGED <<answered, refused>> /\ Complete(buyer)
    BY <1>4 DEF SearchBegins, CanAdvance
  <2> HIDE DEF buyer, retrieved, ranked
  <2>4. search' = [delivery |-> d, buyer |-> buyer,
                   retrieved |-> ToSet(retrieved), items |-> ranked,
                   insight |-> [i \in DOMAIN ranked |-> "awaited"]]
    BY <2>1 DEF retrieved, ranked
  <2>5. /\ search' = [delivery |-> search'.delivery, buyer |-> search'.buyer,
                      retrieved |-> search'.retrieved, items |-> search'.items,
                      insight |-> search'.insight]
        /\ search'.delivery = d /\ search'.buyer = buyer
        /\ search'.retrieved = ToSet(retrieved) /\ search'.items = ranked
        /\ search'.insight = [i \in DOMAIN ranked |-> "awaited"]
    BY <2>4
  <2>6. Selects(search.buyer, search.retrieved, search.items)'
    BY <1>2, <2>2, <2>5 DEF Selects, Candidates
  <2>7. SearchIsSound'
    <3>1. search'.delivery \in DOMAIN completions' /\ IsRow(search'.buyer) /\ Complete(search'.buyer)
      BY <1>1, <1>2, <2>3, <2>5 DEF buyer
    <3>2. search'.insight \in [DOMAIN search'.items -> {"awaited", "found", "none"}]
      BY <2>5
    <3> QED
      BY <2>5, <2>6, <3>1, <3>2 DEF SearchIsSound
  <2> QED
    BY <1>2, <1>3, <2>3, <2>7 DEF SearchInv
<1>5. CASE ~CanAdvance(completions[d])
  <2>1. search' = search /\ refused' = refused \union {d} /\ answered' = answered \union {d}
    BY <1>5 DEF SearchBegins
  <2>2. SearchIsSound'
    BY <1>2, <2>1, SearchStays
  <2> QED
    BY <1>2, <1>3, <2>1, <2>2 DEF SearchInv
<1> QED
  BY <1>4, <1>5

\* A lookup that ends changes its item's insight.
LEMMA LookupKeepsSearch ==
    ASSUME SearchInv, search # Idle, NEW i \in DOMAIN search.insight, NEW v \in {"found", "none"},
           search' = [search EXCEPT !.insight[i] = v], UNCHANGED <<completions, catalogue>>
    PROVE  SearchIsSound'
<1>1. /\ search = [delivery |-> search.delivery, buyer |-> search.buyer,
                   retrieved |-> search.retrieved, items |-> search.items,
                   insight |-> search.insight]
      /\ search.insight \in [DOMAIN search.items -> {"awaited", "found", "none"}]
  BY DEF SearchInv, SearchIsSound
<1>2. search' = [delivery |-> search.delivery, buyer |-> search.buyer,
                 retrieved |-> search.retrieved, items |-> search.items,
                 insight |-> [search.insight EXCEPT ![i] = v]]
  BY <1>1
<1>3. /\ search' = [delivery |-> search'.delivery, buyer |-> search'.buyer,
                    retrieved |-> search'.retrieved, items |-> search'.items,
                    insight |-> search'.insight]
      /\ search'.delivery = search.delivery /\ search'.buyer = search.buyer
      /\ search'.retrieved = search.retrieved /\ search'.items = search.items
      /\ search'.insight \in [DOMAIN search.items -> {"awaited", "found", "none"}]
  BY <1>1, <1>2
<1>4. Selects(search.buyer, search.retrieved, search.items)'
  BY <1>3 DEF SearchInv, SearchIsSound, Selects, Candidates
<1> QED
  BY <1>3, <1>4 DEF SearchInv, SearchIsSound

\* The place of a lookup.
LEMMA PlaceIsPlace ==
    ASSUME ProfileTypeOK, SearchInv, search # Idle, NEW i \in DOMAIN search.insight
    PROVE  Place(i) \in Places /\ <<Place(i), 1>> \in Retries
<1>1. search.delivery \in DOMAIN completions /\ completions \in Seq(Leads)
  BY DEF ProfileTypeOK, SearchInv, SearchIsSound
<1>2. /\ search.items \in Seq(Candidates(search.buyer)) /\ i \in DOMAIN search.items
      /\ catalogue \in Catalogues
  BY DEF SearchInv, SearchIsSound, Selects
<1>3. search.items[i] \in catalogue
  BY <1>2 DEF Candidates
<1>4. completions[search.delivery] \in Leads /\ search.items[i].id \in Properties
  BY <1>1, <1>2, <1>3, CataloguesAssumption
<1> QED
  BY <1>4, SearchBoundsAssumption DEF Place, Places, Retries

LEMMA MissKeeps ==
    ASSUME ProfileTypeOK, SearchInv, NEW i, LookupMisses(i)
    PROVE  SearchInv'
<1> DEFINE p == Place(i)
           r == <<p, 1>>
<1>1. /\ search # Idle /\ i \in DOMAIN search.insight
      /\ search' = [search EXCEPT !.insight[i] = "none"]
      /\ retrying' = More(retrying, r)
      /\ missed' = [missed EXCEPT ![p] = @ + 1]
      /\ UNCHANGED <<completions, catalogue, answered, recorded, refused, late, faults>>
  BY DEF LookupMisses, More, profileVars, batchVars
<1>2. SearchIsSound'
  BY <1>1, LookupKeepsSearch
<1>3. p \in Places /\ r \in Retries /\ r[1] = p
  BY <1>1, PlaceIsPlace
<1> HIDE DEF p, r
<1>4. RetriesAreSound'
  <2>1. retrying' \in [Retries -> Nat]
    BY <1>1, <1>3, OneMoreTask DEF SearchInv, RetriesAreSound
  <2>2. ASSUME NEW x \in Places
        PROVE  late'[x] + Cardinality(TasksIn(retrying', x)) <= missed'[x]
    <3>1. Cardinality(TasksIn(retrying', x)) =
             Cardinality(TasksIn(retrying, x)) + (IF x = p THEN 1 ELSE 0)
      BY <1>1, <1>3, OneMoreTask DEF SearchInv, RetriesAreSound
    <3>2. missed'[x] = missed[x] + (IF x = p THEN 1 ELSE 0)
      BY <1>1, <1>3 DEF SearchInv, RetriesAreSound
    <3>3. late[x] \in Nat /\ missed[x] \in Nat /\ Cardinality(TasksIn(retrying, x)) \in Nat
      BY TasksAreFinite DEF SearchInv, RetriesAreSound
    <3>4. late[x] + Cardinality(TasksIn(retrying, x)) <= missed[x]
      BY DEF SearchInv, RetriesAreSound
    <3> QED
      BY <1>1, <3>1, <3>2, <3>3, <3>4
  <2> QED
    BY <1>1, <1>3, <2>1, <2>2 DEF SearchInv, RetriesAreSound
<1> QED
  BY <1>1, <1>2, <1>4 DEF SearchInv

\* A task that ends, with or without an event.
LEMMA EndKeeps ==
    ASSUME SearchInv, NEW r \in Retries, RetryEnds(r), UNCHANGED missed,
           late' = [late EXCEPT ![r[1]] = @ + 1] \/ late' = late
    PROVE  RetriesAreSound'
<1>1. /\ retrying \in [Retries -> Nat] /\ missed \in [Places -> Nat] /\ late \in [Places -> Nat]
      /\ retrying[r] > 0 /\ retrying' = Fewer(retrying, r) /\ r[1] \in Places
  BY DEF SearchInv, RetriesAreSound, RetryEnds, Fewer, Retries
<1>2. retrying' \in [Retries -> Nat] /\ late' \in [Places -> Nat]
  BY <1>1, OneTaskLess
<1>3. ASSUME NEW x \in Places
      PROVE  late'[x] + Cardinality(TasksIn(retrying', x)) <= missed'[x]
  <2>1. Cardinality(TasksIn(retrying', x)) =
           Cardinality(TasksIn(retrying, x)) - (IF x = r[1] THEN 1 ELSE 0)
    BY <1>1, OneTaskLess
  <2>2. late'[x] <= late[x] + (IF x = r[1] THEN 1 ELSE 0) /\ late'[x] \in Nat
    BY <1>1, <1>2
  <2>3. late[x] \in Nat /\ missed[x] \in Nat /\ Cardinality(TasksIn(retrying, x)) \in Nat
    BY <1>1, TasksAreFinite
  <2>4. late[x] + Cardinality(TasksIn(retrying, x)) <= missed[x]
    BY DEF SearchInv, RetriesAreSound
  <2> QED
    BY <2>1, <2>2, <2>3, <2>4
<1> QED
  BY <1>1, <1>2, <1>3 DEF RetriesAreSound

LEMMA RetryKeeps ==
    ASSUME SearchInv, NEW r \in Retries, RetryStep(r) \/ RetryLoses(r)
    PROVE  SearchInv'
<1>1. UNCHANGED <<completions, catalogue, search, answered, recorded, refused, missed>>
  BY DEF RetryStep, RetryPublishes, RetryMisses, RetryLoses, profileVars, batchVars
<1>2. SearchIsSound'
  BY <1>1, SearchStays
<1>3. RetriesAreSound'
  <2>1. CASE RetryPublishes(r) \/ RetryLoses(r)
    BY <2>1, EndKeeps DEF RetryPublishes, RetryLoses
  <2>2. CASE RetryMisses(r)
    <3>1. retrying \in [Retries -> Nat] /\ retrying[r] > 0 /\ retrying' = NextAttempt(r)
          /\ late' = late
      BY <2>2 DEF SearchInv, RetriesAreSound, RetryMisses
    <3>2. ASSUME NEW x \in Places
          PROVE  late[x] + Cardinality(TasksIn(retrying', x)) <= missed[x]
      <4>1. Cardinality(TasksIn(retrying', x)) <= Cardinality(TasksIn(retrying, x))
            /\ retrying' \in [Retries -> Nat]
        BY <3>1, NextAttemptAddsNone
      <4>2. /\ Cardinality(TasksIn(retrying', x)) \in Nat
            /\ Cardinality(TasksIn(retrying, x)) \in Nat
        BY <3>1, <4>1, TasksAreFinite
      <4>3. late[x] + Cardinality(TasksIn(retrying, x)) <= missed[x]
            /\ late[x] \in Nat /\ missed[x] \in Nat
        BY DEF SearchInv, RetriesAreSound
      <4> QED
        BY <4>1, <4>2, <4>3
    <3>3. retrying' \in [Retries -> Nat]
      <4>1. r[1] \in Places
        BY DEF Retries
      <4> QED
        BY <3>1, <4>1, NextAttemptAddsNone
    <3> QED
      BY <1>1, <3>1, <3>2, <3>3 DEF SearchInv, RetriesAreSound
  <2> QED
    BY <2>1, <2>2 DEF RetryStep
<1>4. faults' \in 0..MaxFaults
  BY SearchBoundsAssumption DEF SearchInv, RetryStep, RetryPublishes, RetryMisses, RetryLoses
<1> QED
  BY <1>1, <1>2, <1>3, <1>4 DEF SearchInv

LEMMA CrashKeeps ==
    ASSUME SearchInv, Crash
    PROVE  SearchInv'
<1>1. /\ UNCHANGED <<completions, catalogue, recorded, refused, missed, late>>
      /\ search' = Idle /\ answered' = {} /\ retrying' = [r \in Retries |-> 0]
  BY DEF Crash, profileVars
<1>2. RetriesAreSound'
  <2>1. \A x \in Places : TasksIn(retrying', x) = {}
    <3>1. \A x \in Places, n \in 1..MaxRetries : 1..retrying'[<<x, n>>] = {}
      BY <1>1 DEF Retries
    <3> QED
      BY <3>1, TaskIsPair DEF IsTask
  <2>2. \A x \in Places : late[x] \in Nat /\ missed[x] \in Nat /\ late[x] <= missed[x]
    <3> SUFFICES ASSUME NEW x \in Places PROVE late[x] \in Nat /\ missed[x] \in Nat /\ late[x] <= missed[x]
      OBVIOUS
    <3>1. /\ late[x] \in Nat /\ missed[x] \in Nat
          /\ late[x] + Cardinality(TasksIn(retrying, x)) <= missed[x]
          /\ Cardinality(TasksIn(retrying, x)) \in Nat
      BY TasksAreFinite DEF SearchInv, RetriesAreSound
    <3> QED
      BY <3>1
  <2>3. \A x \in Places : Cardinality(TasksIn(retrying', x)) = 0
    BY <2>1, FS_EmptySet
  <2>4. retrying' \in [Retries -> Nat]
    BY <1>1
  <2>5. late' \in [Places -> Nat] /\ missed' \in [Places -> Nat]
    BY <1>1 DEF SearchInv, RetriesAreSound
  <2>6. \A x \in Places : late'[x] + Cardinality(TasksIn(retrying', x)) <= missed'[x]
    BY <1>1, <2>2, <2>3
  <2> QED
    BY <2>4, <2>5, <2>6 DEF RetriesAreSound
<1>3. faults' \in 0..MaxFaults
  BY SearchBoundsAssumption DEF SearchInv, Crash
<1> QED
  BY <1>1, <1>2, <1>3 DEF SearchInv, SearchIsSound

LEMMA SearchStepHolds == ProfileTypeOK /\ SearchInv /\ [Next]_vars => SearchInv'
<1> SUFFICES ASSUME ProfileTypeOK, SearchInv, [Next]_vars PROVE SearchInv'
  OBVIOUS
<1>0. DOMAIN completions \subseteq DOMAIN completions'
  BY CompletionsGrow
<1>1. CASE Captures \/ UNCHANGED vars
  <2>1. UNCHANGED <<catalogue, search, answered, recorded, refused, retrying, missed, late, faults>>
    BY <1>1 DEF Captures, vars, batchVars, mapsVars
  <2>2. SearchIsSound'
    BY <1>0, <2>1, SearchStays
  <2>3. RetriesAreSound'
    BY <2>1 DEF SearchInv, RetriesAreSound, TasksIn
  <2> QED
    BY <1>0, <2>1, <2>2, <2>3 DEF SearchInv
<1>2. CASE \E d \in DOMAIN completions : SearchBegins(d)
  BY <1>2, BeginKeeps
<1>3. ASSUME NEW i \in 1..TopK, LookupAnswers(i)
      PROVE  SearchInv'
  <2>1. /\ UNCHANGED <<completions, catalogue, answered, recorded, refused>>
        /\ UNCHANGED <<retrying, missed, late, faults>>
    BY <1>3 DEF LookupAnswers, profileVars, batchVars, mapsVars
  <2>2. SearchIsSound'
    BY <1>3, <2>1, LookupKeepsSearch DEF LookupAnswers
  <2>3. RetriesAreSound'
    BY <2>1 DEF SearchInv, RetriesAreSound, TasksIn
  <2> QED
    BY <2>1, <2>2, <2>3 DEF SearchInv
<1>4. ASSUME NEW i \in 1..TopK, LookupMisses(i)
      PROVE  SearchInv'
  BY <1>4, MissKeeps
<1>5. CASE SearchCommits \/ SearchFails \/ Acknowledge
  <2>1. UNCHANGED <<completions, catalogue, retrying, missed, late>>
    BY <1>5 DEF SearchCommits, SearchFails, Acknowledge, profileVars, mapsVars
  <2>2. search' = Idle \/ search' = search
    BY <1>5 DEF SearchCommits, SearchFails, Acknowledge
  <2>3. SearchIsSound'
    BY <2>1, <2>2, SearchStays DEF SearchIsSound
  <2>4. RetriesAreSound'
    BY <2>1 DEF SearchInv, RetriesAreSound, TasksIn
  <2>5. answered' \union recorded' \union refused' \subseteq DOMAIN completions'
    BY <1>5, <2>1 DEF SearchCommits, SearchFails, Acknowledge, batchVars, SearchInv, SearchIsSound
  <2>6. faults' \in 0..MaxFaults
    BY <1>5, SearchBoundsAssumption DEF SearchCommits, SearchFails, Acknowledge, SearchInv
  <2> QED
    BY <2>1, <2>3, <2>4, <2>5, <2>6 DEF SearchInv
<1>6. CASE Crash
  BY <1>6, CrashKeeps
<1>7. ASSUME NEW r \in Retries, RetryStep(r) \/ RetryLoses(r)
      PROVE  SearchInv'
  BY <1>7, RetryKeeps
<1> QED
  BY <1>1, <1>2, <1>3, <1>4, <1>5, <1>6, <1>7 DEF Next, WorkerStep

LEMMA SearchInvHolds == Spec => [](ProfileTypeOK /\ SearchInv)
<1>1. Spec => []ProfileTypeOK
  BY CapturesProfiles, TypeCorrect, PTL
<1>2. ProfileTypeOK /\ SearchInv /\ [Next]_vars => SearchInv'
  BY SearchStepHolds
<1> QED
  BY <1>1, <1>2, SearchInitHolds, PTL DEF Spec

-----------------------------------------------------------------------------
(* The theorems                                                             *)

\* Type correctness, of the profiles and of the searches over them.
THEOREM SearchTypeCorrect == Spec => []TypeOK
<1>1. ProfileTypeOK /\ SearchInv => TypeOK
  <2> SUFFICES ASSUME ProfileTypeOK, SearchInv PROVE TypeOK
    OBVIOUS
  <2>1. ASSUME search # Idle
        PROVE  search.items \in Seq(catalogue) /\ Len(search.items) <= TopK
    <3>1. /\ search.items \in Seq(Candidates(search.buyer))
          /\ Len(search.items) <= TopK
      BY <2>1 DEF SearchInv, SearchIsSound, Selects
    <3>2. Candidates(search.buyer) \subseteq catalogue
      BY DEF Candidates
    <3> QED
      BY <3>1, <3>2
  <2> QED
    BY <2>1 DEF TypeOK, SearchInv, SearchIsSound, RetriesAreSound
<1> QED
  BY <1>1, SearchInvHolds, PTL

\* Whatever the SELECT returns first, a message lists different properties, as many as
\* there can be, the best of the retrieved ones, the best of them first.
THEOREM BestAreRecommended == Spec => []RecommendsTheBest
<1>1. SearchInv => RecommendsTheBest
  <2> SUFFICES ASSUME SearchInv, search # Idle PROVE RecommendsTheBest
    BY DEF RecommendsTheBest
  <2> DEFINE items == search.items
             buyer == search.buyer
             retrieved == search.retrieved
             n == Len(items)
  <2>1. /\ items \in Seq(Candidates(buyer)) /\ Distinct(items)
        /\ n = Cardinality(retrieved) \/ n = TopK
        /\ \A k, l \in DOMAIN items :
              k < l => R!Score(buyer, items[k]) >= R!Score(buyer, items[l])
        /\ \A x \in retrieved :
              \/ \E k \in DOMAIN items : items[k] = x
              \/ \A k \in DOMAIN items : R!Score(buyer, x) <= R!Score(buyer, items[k])
    BY DEF SearchInv, SearchIsSound, Selects
  <2> HIDE DEF buyer, retrieved, items
  <2>2. Cardinality(ToSet(items)) = n
    BY <2>1, DistinctAreCounted
  <2>3. \A i \in 1..(n - 1) : R!Score(buyer, items[i]) >= R!Score(buyer, items[i + 1])
    <3>1. n \in Nat /\ DOMAIN items = 1..n
      BY <2>1
    <3> QED
      BY <2>1, <3>1
  <2>4. \A x \in retrieved \ ToSet(items) : \A y \in ToSet(items) :
           R!Score(buyer, x) <= R!Score(buyer, y)
    BY <2>1 DEF ToSet
  <2> QED
    BY <2>1, <2>2, <2>3, <2>4 DEF RecommendsTheBest, buyer, retrieved, items
<1> QED
  BY <1>1, SearchInvHolds, PTL

\* However lookups, retries and crashes interleave, there is never an event for a lookup
\* that did not miss, nor two for one that did.
THEOREM LateInsightsAnswerMisses == Spec => []LateInsightsWereMissed
<1>1. SearchInv => LateInsightsWereMissed
  BY DEF SearchInv, RetriesAreSound, LateInsightsWereMissed, Tasks, TasksIn
<1> QED
  BY <1>1, SearchInvHolds, PTL

\* A threshold that only a profile with all five dimensions reaches, as the default of
\* 90 percent does.
GateIsFull == Threshold > 80

LEMMA FullHasAll ==
    ASSUME GateIsFull, NEW r, Complete(r)
    PROVE  \A c \in Columns : r[c] # None
<1> DEFINE D == {"budget", "locations", "must_haves", "property_type", "timeline"}
<1>1. Captured(r) \in SUBSET D
  BY DEF Captured, Columns, Lists, Budget
<1>2. IsFiniteSet(D) /\ Cardinality(D) = 5
  <2> DEFINE f == [i \in 1..5 |-> CASE i = 1 -> "budget" [] i = 2 -> "locations"
                                    [] i = 3 -> "must_haves" [] i = 4 -> "property_type"
                                    [] i = 5 -> "timeline"]
  <2> DEFINE n == 5
  <2>1. n \in Nat /\ f \in Bijection(1..n, D)
    BY DEF Bijection, Injection, IsInjective, Surjection
  <2> HIDE DEF f, n, D
  <2>2. IsFiniteSet(D) /\ Cardinality(D) = n
    BY <2>1, FS_NatBijection, FS_CountingElements DEF ExistsBijection
  <2> QED
    BY <2>2 DEF n
<1>3. IsFiniteSet(Captured(r)) /\ Cardinality(Captured(r)) \in Nat
      /\ Cardinality(Captured(r)) <= 5
  BY <1>1, <1>2, FS_Subset, FS_CardinalityType
<1>4. Cardinality(Captured(r)) = 5
  BY <1>3, ProfileBoundsAssumption DEF Complete, Completeness, GateIsFull
<1>5. Captured(r) = D
  BY <1>1, <1>2, <1>4, FS_Subset
<1> HIDE DEF D
<1>6. \A d \in {"budget", "locations", "must_haves", "property_type", "timeline"} : d \in Captured(r)
  BY <1>5 DEF D
<1> QED
  BY <1>6 DEF Captured, Columns, Lists, Budget

\* A signal that contributes nothing is not among the three when the zone and the type
\* match: must_have_coverage comes last.
LEMMA ThreeSignals ==
    ASSUME NEW buyer, IsRow(buyer), NEW x, x.price \in Int,
           R!ZoneMatch(buyer, x) = 1, R!TypeMatch(buyer, x) = 1,
           NEW k \in DOMAIN R!TopSignals(buyer, x)
    PROVE  /\ \E i \in 1..4 : R!TopSignals(buyer, x)[k] = R!Signals[i]
           /\ R!TopSignals(buyer, x)[k] = "must_have_coverage" => R!MustHaveCoverage(buyer, x) > 0
<1> DEFINE s == R!Signals
           key == R!Contributions(buyer, x)
           sorted == R!SortedBy(s, key)
           fit == R!FitUnit(buyer)
           cover == R!CoverUnit(buyer)
           must == R!MustHaveCoverage(buyer, x)
           budget == R!BudgetFit(buyer, x)
<1>1. DOMAIN s = 1..4 /\ Len(s) = 4 /\ s \in Seq({s[1], s[2], s[3], s[4]})
      /\ s[1] = "budget_fit" /\ s[2] = "zone_match" /\ s[3] = "must_have_coverage"
      /\ s[4] = "type_match"
  BY DEF R!Signals
<1>2. /\ fit \in Nat \ {0} /\ cover \in Nat \ {0} /\ must \in Nat /\ budget \in Nat
  BY PartsOfScore
<1>3. /\ key["budget_fit"] = 4 * budget * cover /\ key["zone_match"] = 3 * fit * cover
      /\ key["must_have_coverage"] = 2 * must * fit /\ key["type_match"] = fit * cover
  BY <1>2 DEF R!Contributions, R!Weight
<1> HIDE DEF s, key, fit, cover, must, budget
<1>4. \A i \in 1..4 : key[s[i]] \in Int
  BY <1>1, <1>2, <1>3
<1>5. PICK order : Sorting(s, key, order)
  BY <1>1, <1>4, SortedByIsSorting
<1>6. R!TopSignals(buyer, x) = R!Prefix(sorted, 3)
  BY DEF R!TopSignals, s, key
<1>7. DOMAIN sorted = 1..4
  BY <1>1 DEF R!SortedBy
<1>8. sorted \in Seq({s[1], s[2], s[3], s[4]}) /\ Len(sorted) = 4
  BY <1>1, <1>4, SortedByArranges
<1> HIDE DEF sorted
<1>9. /\ k \in 1..3 /\ R!TopSignals(buyer, x)[k] = sorted[k]
  BY <1>6, <1>8, PrefixKeeps
<1>10. /\ order[k] \in 1..4 /\ order[4] \in 1..4 /\ order[k] # order[4]
       /\ sorted[k] = s[order[k]] /\ R!Before(s, key, order[k], order[4])
  BY <1>1, <1>5, <1>9 DEF Sorting, sorted
<1>11. ASSUME order[k] = 3, must = 0
       PROVE  FALSE
  <2>1. key["must_have_coverage"] = 0 /\ key["budget_fit"] >= 0
        /\ key["zone_match"] > 0 /\ key["type_match"] > 0
    <3>1. fit * cover > 0 /\ fit * cover \in Int /\ budget * cover >= 0 /\ budget * cover \in Int
      BY <1>2
    <3> QED
      BY <1>2, <1>3, <1>11, <3>1
  <2>2. order[4] \in {1, 2, 4}
    BY <1>10, <1>11
  <2>3. R!Before(s, key, 3, order[4])
    BY <1>10, <1>11
  <2> QED
    BY <1>1, <1>4, <2>1, <2>2, <2>3 DEF R!Before
<1> QED
  BY <1>1, <1>2, <1>9, <1>10, <1>11 DEF s, must

\* With a gate that asks for all five dimensions, every reason given to a buyer is true
\* of the property it is given for, whatever is captured during the search.
THEOREM ReasonsAreTrue == ASSUME GateIsFull PROVE Spec => []PhrasedReasonsHold
<1>1. SearchInv => PhrasedReasonsHold
  <2> SUFFICES ASSUME SearchInv, search # Idle, NEW i \in DOMAIN search.items,
                      NEW k \in DOMAIN R!TopSignals(search.buyer, search.items[i])
               PROVE  Holds(R!TopSignals(search.buyer, search.items[i])[k],
                            search.buyer, search.items[i])
    BY DEF PhrasedReasonsHold
  <2> DEFINE x == search.items[i]
             buyer == search.buyer
             reason == R!TopSignals(buyer, x)[k]
  <2>1. /\ search.items \in Seq(Candidates(buyer)) /\ IsRow(buyer) /\ Complete(buyer)
        /\ catalogue \in Catalogues
    BY DEF SearchInv, SearchIsSound, Selects
  <2>2. x \in Candidates(buyer)
    BY <2>1
  <2>3. x \in catalogue /\ x.price \in Int /\ R!MatchesHardFilters(buyer, x)
    BY <2>1, <2>2, CataloguesAssumption DEF Candidates
  <2>4. \A c \in {"budget_min", "budget_max", "locations", "property_type"} : buyer[c] # None
    BY <2>1, FullHasAll DEF Columns, Budget, Lists
  <2> HIDE DEF x, buyer
  <2>5. /\ R!HasBudget(buyer) /\ R!InBudget(buyer, x)
        /\ x.zone \in buyer["locations"] /\ x.type = buyer["property_type"]
    BY <2>3, <2>4 DEF R!HasBudget, R!MatchesHardFilters
  <2>6. R!ZoneMatch(buyer, x) = 1 /\ R!TypeMatch(buyer, x) = 1
    BY <2>4, <2>5 DEF R!ZoneMatch, R!TypeMatch
  <2>7. k \in DOMAIN R!TopSignals(buyer, x)
    BY DEF x, buyer
  <2>8. /\ \E j \in 1..4 : reason = R!Signals[j]
        /\ reason = "must_have_coverage" => R!MustHaveCoverage(buyer, x) > 0
    BY <2>1, <2>3, <2>6, <2>7, ThreeSignals
  <2>9. reason \in {"budget_fit", "zone_match", "must_have_coverage", "type_match"}
    BY <2>8 DEF R!Signals
  <2>10. Holds(reason, buyer, x)
    <3> HIDE DEF reason
    <3> QED
      BY <2>4, <2>5, <2>8, <2>9 DEF Holds
  <2> QED
    BY <2>10 DEF x, buyer
<1> QED
  BY <1>1, SearchInvHolds, PTL

\* Turns of one lead that follow one another announce a completion once, whatever the
\* searches do.
THEOREM ApartTurnsCompleteOnce == Spec /\ []TurnsApart => []CompletionToldOnce
BY CapturesProfiles, ApartTurnsTellOnce, PTL
=============================================================================
