--------------------------- MODULE Recommendation ---------------------------
(***************************************************************************)
(* The recommendation handler of ProfileCompleted                          *)
(* (recommendation/wiring.py, recommendation_service.py), composed with    *)
(* profile capture, whose events it consumes and whose rows it reads.      *)
(*                                                                         *)
(* A search passes the Completeness Gate, filters, retrieves and ranks,    *)
(* and asks the maps service about each of its items in parallel           *)
(* (neighborhood_enrichment.py).  A lookup that fails or misses its budget *)
(* leaves its item without an insight and starts a background retry that   *)
(* outlives the search; a late answer is published as                      *)
(* NeighborhoodEnriched in a transaction of its own.                       *)
(*                                                                         *)
(* One application process: its bus worker runs one search at a time and   *)
(* the enrichment adapter is a singleton.  The handler's effect on the     *)
(* conversation is in Conversation, the Staleness Guard in LeadSync.       *)
(***************************************************************************)
EXTENDS BuyerProfile, SequencesExt

CONSTANTS
    Properties,  \* ids of inventory items
    Catalogues,  \* what the inventory may be: sets of [id, price, zone, type, features]
    TopN,        \* recommendation_semantic_top_n
    TopK,        \* recommendation_top_k
    MaxRetries,  \* of the enrichment adapter
    MaxFaults    \* bound on failed searches, lost inserts and crashes

R == INSTANCE Ranking WITH Unstated <- None

ASSUME SearchBoundsAssumption ==
    /\ TopN \in Nat \ {0} /\ TopK \in Nat \ {0}
    /\ MaxRetries \in Nat \ {0} /\ MaxFaults \in Nat
ASSUME CataloguesAssumption ==
    \A C \in Catalogues : IsFiniteSet(C) /\ \A x \in C : x.id \in Properties /\ x.price \in Int
\* "must_haves patch cannot be an empty list"
ASSUME MustHavesAssumption ==
    \A q \in Patches : "must_haves" \in DOMAIN q =>
        IsFiniteSet(q["must_haves"]) /\ q["must_haves"] # {}

VARIABLES
    catalogue,   \* the properties table
    search,      \* the handler in progress, or Idle
    answered,    \* deliveries handled in the bus's open batch
    recorded,    \* deliveries the bus has recorded
    refused,     \* deliveries that ended in IncompleteProfileError
    retrying,    \* [Retries -> Nat]: background tasks by what they try next
    missed,      \* [Leads \X Properties -> Nat]: lookups that missed the budget
    late,        \* [Leads \X Properties -> Nat]: NeighborhoodEnriched events
    faults

batchVars == <<answered, recorded, refused>>
mapsVars == <<retrying, missed, late>>
vars == <<profileVars, catalogue, search, batchVars, mapsVars, faults>>

Places == Leads \X Properties
Retries == Places \X (1..MaxRetries)

Init ==
    /\ ProfileInit
    /\ catalogue \in Catalogues
    /\ search = Idle
    /\ answered = {} /\ recorded = {} /\ refused = {}
    /\ retrying = [r \in Retries |-> 0]
    /\ missed = [x \in Places |-> 0]
    /\ late = [x \in Places |-> 0]
    /\ faults = 0

-----------------------------------------------------------------------------
(* search                                                                   *)

\* The bus hands over a delivery it has not recorded.
Delivers(d) ==
    /\ search = Idle
    /\ d \in DOMAIN completions \ (answered \union recorded)

\* can_advance_to_recommendation, on the profile as it is now.
CanAdvance(l) == Complete(profiles[l])

\* filter_candidates.
Candidates(buyer) == {x \in catalogue : R!MatchesHardFilters(buyer, x)}

\* The orders in which the SELECT, which has no ORDER BY, may return its rows.
Listings(S) == {s \in [1..Cardinality(S) -> S] : \A i, j \in DOMAIN s : s[i] = s[j] => i = j}

\* Filter, retrieval and ranking of a profile the gate lets pass.  Any other raises
\* IncompleteProfileError, which is logged: nothing is sent, and the delivery counts
\* as handled.
SearchBegins(d) ==
    /\ Delivers(d)
    /\ Readable(profiles[completions[d]])
    /\ LET buyer == profiles[completions[d]]
       IN IF CanAdvance(completions[d])
          THEN /\ \E found \in Listings(Candidates(buyer)) :
                  \E retrieved \in {R!Retrieve(buyer, found, TopN)} :
                  \E ranked \in {R!Rank(buyer, retrieved, TopK)} :
                     search' = [delivery |-> d, buyer |-> buyer,
                                retrieved |-> ToSet(retrieved), items |-> ranked,
                                insight |-> [i \in DOMAIN ranked |-> "awaited"]]
               /\ UNCHANGED <<answered, refused>>
          ELSE /\ refused' = refused \union {d}
               /\ answered' = answered \union {d}
               /\ UNCHANGED search
    /\ UNCHANGED <<profileVars, catalogue, recorded, mapsVars, faults>>

Place(i) == <<completions[search.delivery], search.items[i].id>>

\* fetch_one: an answer within the budget.
LookupAnswers(i) ==
    /\ search # Idle /\ i \in DOMAIN search.insight
    /\ search.insight[i] = "awaited"
    /\ search' = [search EXCEPT !.insight[i] = "found"]
    /\ UNCHANGED <<profileVars, catalogue, batchVars, mapsVars, faults>>

\* fetch_one: the budget is spent or the call fails, and a retry is scheduled.
LookupMisses(i) ==
    /\ search # Idle /\ i \in DOMAIN search.insight
    /\ search.insight[i] = "awaited"
    /\ search' = [search EXCEPT !.insight[i] = "none"]
    /\ retrying' = [retrying EXCEPT ![<<Place(i), 1>>] = @ + 1]
    /\ missed' = [missed EXCEPT ![Place(i)] = @ + 1]
    /\ UNCHANGED <<profileVars, catalogue, batchVars, late, faults>>

\* Mutant of SearchCommits: one lookup without an insight fails the search.
SearchCommitsAllFound ==
    /\ search # Idle
    /\ \A i \in DOMAIN search.insight : search.insight[i] = "found"
    /\ answered' = answered \union {search.delivery}
    /\ search' = Idle
    /\ UNCHANGED <<profileVars, catalogue, recorded, refused, mapsVars, faults>>

\* gather has returned: the message is published and committed.
SearchCommits ==
    /\ search # Idle
    /\ \A i \in DOMAIN search.insight : search.insight[i] # "awaited"
    /\ answered' = answered \union {search.delivery}
    /\ search' = Idle
    /\ UNCHANGED <<profileVars, catalogue, recorded, refused, mapsVars, faults>>

\* An error in the transaction: it rolls back, and the bus delivers again.
SearchFails ==
    /\ search # Idle
    /\ faults < MaxFaults
    /\ search' = Idle
    /\ faults' = faults + 1
    /\ UNCHANGED <<profileVars, catalogue, batchVars, mapsVars>>

\* The bus commits its batch.
Acknowledge ==
    /\ search = Idle /\ answered # {}
    /\ recorded' = recorded \union answered
    /\ answered' = {}
    /\ UNCHANGED <<profileVars, catalogue, search, refused, mapsVars, faults>>

\* The process ends: the search, the batch and every background task are lost.
Crash ==
    /\ faults < MaxFaults
    /\ search' = Idle
    /\ answered' = {}
    /\ retrying' = [r \in Retries |-> 0]
    /\ faults' = faults + 1
    /\ UNCHANGED <<profileVars, catalogue, recorded, refused, missed, late>>

-----------------------------------------------------------------------------
(* _retry_and_publish                                                       *)

\* Mutant of RetryEnds: the loop goes on after a success.
RetryEndsNever(r) == retrying[r] > 0 /\ UNCHANGED retrying

RetryEnds(r) == retrying[r] > 0 /\ retrying' = [retrying EXCEPT ![r] = @ - 1]

\* An answer, published at once.
RetryPublishes(r) ==
    /\ RetryEnds(r)
    /\ late' = [late EXCEPT ![r[1]] = @ + 1]
    /\ UNCHANGED <<profileVars, catalogue, search, batchVars, missed, faults>>

\* An answer whose insert fails: the exception ends the task.
RetryLoses(r) ==
    /\ RetryEnds(r)
    /\ faults < MaxFaults
    /\ faults' = faults + 1
    /\ UNCHANGED <<profileVars, catalogue, search, batchVars, missed, late>>

\* Mutant of NextAttempt: the attempts are counted from the start again.
NextAttemptForever(r) ==
    [retrying EXCEPT ![r] = @ - 1, ![<<r[1], (r[2] % MaxRetries) + 1>>] = @ + 1]

\* The task's next attempt, if it has one left.
NextAttempt(r) ==
    IF r[2] = MaxRetries THEN [retrying EXCEPT ![r] = @ - 1]
    ELSE [retrying EXCEPT ![r] = @ - 1, ![<<r[1], r[2] + 1>>] = @ + 1]

RetryMisses(r) ==
    /\ retrying[r] > 0
    /\ retrying' = NextAttempt(r)
    /\ UNCHANGED <<profileVars, catalogue, search, batchVars, missed, late, faults>>

-----------------------------------------------------------------------------
Captures == ProfileNext /\ UNCHANGED <<catalogue, search, batchVars, mapsVars, faults>>
WorkerStep ==
    \/ \E d \in DOMAIN completions : SearchBegins(d)
    \/ \E i \in 1..TopK : LookupAnswers(i) \/ LookupMisses(i)
    \/ SearchCommits \/ Acknowledge
RetryStep(r) == RetryPublishes(r) \/ RetryMisses(r)

Next ==
    \/ Captures
    \/ WorkerStep \/ SearchFails \/ Crash
    \/ \E r \in Retries : RetryStep(r) \/ RetryLoses(r)

Spec == Init /\ [][Next]_vars

\* The worker's task goes on, since every lookup ends by its timeout, and so do the
\* retries.
Fairness == WF_vars(WorkerStep) /\ \A r \in Retries : WF_vars(RetryStep(r))
FairSpec == Spec /\ Fairness

-----------------------------------------------------------------------------
(* Properties                                                               *)

TypeOK ==
    /\ ProfileTypeOK
    /\ catalogue \in Catalogues
    /\ search # Idle =>
          /\ search.delivery \in DOMAIN completions
          /\ IsRow(search.buyer)
          /\ search.items \in Seq(catalogue) /\ Len(search.items) <= TopK
          /\ search.insight \in [DOMAIN search.items -> {"awaited", "found", "none"}]
    /\ answered \union recorded \union refused \subseteq DOMAIN completions
    /\ retrying \in [Retries -> Nat]
    /\ missed \in [Places -> Nat] /\ late \in [Places -> Nat]
    /\ faults \in 0..MaxFaults

\* What a phrased signal claims of property x to a buyer.
Holds(name, buyer, x) ==
    CASE name = "budget_fit" -> R!HasBudget(buyer) /\ R!InBudget(buyer, x)
      [] name = "zone_match" -> buyer["locations"] # None /\ x.zone \in buyer["locations"]
      [] name = "must_have_coverage" -> R!MustHaveCoverage(buyer, x) > 0
      [] name = "type_match" -> x.type = buyer["property_type"]

\* "nunca inventar una razon" (explanation_generator.py): top_signals takes three of
\* the four signals even if their contribution is zero, yet every reason given is
\* true of the property and the buyer: gate, filter and weights see to it.
PhrasedReasonsHold ==
    search # Idle => \A i \in DOMAIN search.items :
        LET x == search.items[i]
            reasons == R!TopSignals(search.buyer, x)
        IN \A k \in DOMAIN reasons : Holds(reasons[k], search.buyer, x)

\* The items are different, as many as there can be, in descending order, and no
\* retrieved property left out scores more.
RecommendsTheBest ==
    search # Idle =>
        LET score(x) == R!Score(search.buyer, x)
            n == Len(search.items)
            chosen == ToSet(search.items)
        IN /\ Cardinality(chosen) = n
           /\ n = Cardinality(search.retrieved) \/ n = TopK
           /\ \A i \in 1..(n - 1) : score(search.items[i]) >= score(search.items[i + 1])
           /\ \A x \in search.retrieved \ chosen : \A y \in chosen : score(x) <= score(y)

\* A profile complete when ProfileCompleted was published is complete when the
\* event is handled, however late and whatever has been corrected in between: nobody
\* is refused, as long as the captures of a lead follow one another.
NobodyIsRefused == refused = {}

\* The attempts at which a background task for x stands.
Running(x) == {n \in 1..MaxRetries : retrying[<<x, n>>] > 0}

\* The background tasks for x: of those at their n-th attempt, the k-th.
Tasks(x) == UNION {{n} \X (1..retrying[<<x, n>>]) : n \in 1..MaxRetries}

\* A late insight answers a lookup that missed, once: with the tasks still running
\* there are never more than there were misses.
LateInsightsWereMissed == \A x \in Places : late[x] + Cardinality(Tasks(x)) <= missed[x]

\* QA-01 and 7.12: a maps service that never answers delays no recommendation for
\* ever, and no background task outlives its attempts.
EveryCompletionAnswered ==
    \A d \in 1..MaxCaptures : d \in DOMAIN completions ~> d \in recorded
RetriesEnd == \A x \in Places : Running(x) # {} ~> Running(x) = {}
=============================================================================
