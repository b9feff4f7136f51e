------------------------------- MODULE Ranking -------------------------------
(***************************************************************************)
(* The pure part of the recommendation pipeline: the hard filter           *)
(* (Property.matches_hard_filters), semantic retrieval, the weighted       *)
(* score (ranking_engine.py) and the signals an explanation phrases        *)
(* (RankedCandidate.top_signals).                                          *)
(*                                                                         *)
(* A buyer is a row of BuyerProfile, a property a record of price, zone,   *)
(* type and features.  Scores are fractions over one denominator per       *)
(* buyer, so that they are compared exactly; the code's floats may order   *)
(* candidates whose exact scores are equal either way.                     *)
(***************************************************************************)
EXTENDS Integers, FiniteSets, Sequences, Functions

CONSTANT Unstated    \* a dimension the buyer has not answered

Weight == [budget_fit |-> 4, zone_match |-> 3, must_have_coverage |-> 2, type_match |-> 1]

\* The order in which _score_candidate lists them.
Signals == <<"budget_fit", "zone_match", "must_have_coverage", "type_match">>

HasBudget(buyer) == buyer["budget_min"] # Unstated /\ buyer["budget_max"] # Unstated
InBudget(buyer, x) == buyer["budget_min"] <= x.price /\ x.price <= buyer["budget_max"]

\* Mutant of MatchesHardFilters: the zone is left to the ranking.
MatchesAnyZone(buyer, x) ==
    /\ HasBudget(buyer) => InBudget(buyer, x)
    /\ buyer["property_type"] # Unstated => x.type = buyer["property_type"]

MatchesHardFilters(buyer, x) ==
    /\ HasBudget(buyer) => InBudget(buyer, x)
    /\ buyer["locations"] # Unstated => x.zone \in buyer["locations"]
    /\ buyer["property_type"] # Unstated => x.type = buyer["property_type"]

-----------------------------------------------------------------------------
(* The score                                                                *)

Abs(n) == IF n < 0 THEN -n ELSE n
Span(buyer) == buyer["budget_max"] - buyer["budget_min"]

\* Denominators of budget_fit and of must_have_coverage.
FitUnit(buyer) == IF HasBudget(buyer) /\ Span(buyer) > 0 THEN Span(buyer) ELSE 1
CoverUnit(buyer) == IF buyer["must_haves"] = Unstated THEN 1 ELSE Cardinality(buyer["must_haves"])

\* 1 at the middle of the range, 0 at its edges and outside it.
BudgetFit(buyer, x) ==
    IF ~HasBudget(buyer) \/ ~InBudget(buyer, x) THEN 0
    ELSE IF Span(buyer) = 0 THEN 1
    ELSE Span(buyer) - Abs(2 * x.price - buyer["budget_min"] - buyer["budget_max"])

ZoneMatch(buyer, x) ==
    IF buyer["locations"] # Unstated /\ x.zone \in buyer["locations"] THEN 1 ELSE 0

MustHaveCoverage(buyer, x) ==
    IF buyer["must_haves"] = Unstated THEN 0
    ELSE Cardinality(buyer["must_haves"] \intersect x.features)

TypeMatch(buyer, x) == IF x.type = buyer["property_type"] THEN 1 ELSE 0

\* weight * value of each signal, in units of 1 / (10 * FitUnit * CoverUnit).
Contributions(buyer, x) ==
    LET fit == FitUnit(buyer)
        cover == CoverUnit(buyer)
    IN [budget_fit |-> Weight.budget_fit * BudgetFit(buyer, x) * cover,
        zone_match |-> Weight.zone_match * ZoneMatch(buyer, x) * fit * cover,
        must_have_coverage |-> Weight.must_have_coverage * MustHaveCoverage(buyer, x) * fit,
        type_match |-> Weight.type_match * TypeMatch(buyer, x) * fit * cover]

Score(buyer, x) ==
    LET c == Contributions(buyer, x)
    IN c.budget_fit + c.zone_match + c.must_have_coverage + c.type_match

-----------------------------------------------------------------------------
(* Selection                                                                *)

Prefix(s, n) == SubSeq(s, 1, IF n < Len(s) THEN n ELSE Len(s))

\* Python's sort(reverse=True) on a key puts s[i] before s[j]: descending, equal keys in
\* input order.
Before(s, key, i, j) == key[s[i]] > key[s[j]] \/ (key[s[i]] = key[s[j]] /\ i < j)

\* The k-th is the one that has k - 1 before it.
SortedBy(s, key) ==
    [k \in DOMAIN s |->
        s[CHOOSE i \in DOMAIN s : Cardinality({j \in DOMAIN s : Before(s, key, j, i)}) = k - 1]]

\* The query's stand-in vector has 3 components and a property's has 16, so that
\* _cosine_similarity is 0.0 for every candidate and retrieval keeps the first
\* top_n in the order of the SELECT.
Similarity(buyer, x) == 0

Retrieve(buyer, candidates, topN) ==
    Prefix(SortedBy(candidates, [x \in Range(candidates) |-> Similarity(buyer, x)]), topN)

Scores(buyer, candidates) == [x \in Range(candidates) |-> Score(buyer, x)]

\* Mutants of Rank: not cut, or cut before it is sorted.
RankUncut(buyer, candidates, topK) == SortedBy(candidates, Scores(buyer, candidates))
RankCutFirst(buyer, candidates, topK) ==
    SortedBy(Prefix(candidates, topK), Scores(buyer, candidates))

Rank(buyer, candidates, topK) == Prefix(SortedBy(candidates, Scores(buyer, candidates)), topK)

TopSignals(buyer, x) == Prefix(SortedBy(Signals, Contributions(buyer, x)), 3)
=============================================================================
